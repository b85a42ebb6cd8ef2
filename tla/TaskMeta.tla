------------------------------ MODULE TaskMeta ------------------------------
(***************************************************************************)
(* Lightning tasks that import into one cluster with the local backend     *)
(* share the PD schedulers, the PD schedule configuration and the TiKV     *)
(* mode.  They agree on who pauses them and who switches them back through *)
(* the rows of the SQL table `task_meta` (dbTaskMetaMgr in                 *)
(* pkg/lightning/restore/meta_manager.go), called from preCheckRequirements*)
(* and restoreTables (restore.go); the pausing is pkg/pdutil/pd.go.        *)
(*                                                                         *)
(* `SELECT ... FOR UPDATE` transactions are one step, except the one that  *)
(* changes PD while it runs.  The schedule configuration is abstracted to  *)
(* 0, the values PD had before any import, and 1, the values set to pause. *)
(***************************************************************************)
EXTENDS Integers, FiniteSets

CONSTANTS
    Tasks,         \* task ids, in the order the rows are read
    PauseTTL,      \* the values isPauseConfigEnabled may have
    GracefulExit,  \* a task may end with an error and be started again
    MaxRetry,      \* bound: failed commits over a behaviour
    MaxCrash       \* bound: crashes (and graceful exits) over a behaviour

VARIABLES
    table,    \* the table task_meta exists
    rows,     \* tasks that have a row in it
    meta,     \* the content of the rows
    lock,     \* the task whose open transaction holds the rows, 0 for none
    pdCfg,    \* the persisted PD schedule configuration
    paused,   \* schedulers are paused (with ttl: the configuration too)
    renew,    \* tasks whose pause goroutine renews the pause
    ttl,      \* isPauseConfigEnabled: PD has temporary configurations
    mode,     \* the TiKV mode
    pc, loc,  \* place and local variables of each task
    after,    \* history: tasks that registered after t decided to switch back
    retries, crashes

vars == <<table, rows, meta, lock, ttl, pdCfg, paused, renew, mode, pc, loc, after,
          retries, crashes>>
pdVars == <<ttl, pdCfg, paused, renew, mode>>

-----------------------------------------------------------------------------
taskMetaStatusInitial == 0
taskMetaStatusScheduleSet == 1
taskMetaStatusSwitchSkipped == 2
taskMetaStatusSwitchBack == 3

taskStateNormal == 0
taskStateExited == 1

NoCfg == -1
\* cfg: the configuration to restore that is stored in pd_cfgs.
TaskRow == [cfg : {NoCfg, 0, 1}, status : 0..3, state : 0..1]
NewTaskRow == [cfg |-> NoCfg, status |-> taskMetaStatusInitial, state |-> taskStateNormal]

PCs == {"down", "init", "exist", "register", "check", "pause", "commit", "usecfg",
        "run", "finish", "undo", "cleanup", "mode", "allmetas", "normal", "done"}

\* undo: restoreFn is not nil; restore: pausedCfg.RestoreCfg; fin: taskFinished;
\* err: restoreTables failed, this time or (before it ends) the last time;
\* back, clean: switchBack and allFinished; open: taskMgr was not closed.
Locals == [undo : BOOLEAN, restore : {NoCfg, 0, 1}, fin : BOOLEAN, err : BOOLEAN,
           back : BOOLEAN, clean : BOOLEAN, open : BOOLEAN]
NewLocals == [undo |-> FALSE, restore |-> NoCfg, fin |-> FALSE, err |-> FALSE,
              back |-> FALSE, clean |-> FALSE, open |-> FALSE]

Init ==
    /\ table = FALSE /\ rows = {} /\ meta = [t \in Tasks |-> NewTaskRow] /\ lock = 0
    /\ ttl \in PauseTTL
    /\ pdCfg = 0 /\ paused = FALSE /\ renew = {} /\ mode = "normal"
    /\ pc = [t \in Tasks |-> "down"]
    /\ loc = [t \in Tasks |-> NewLocals]
    /\ after = [t \in Tasks |-> {}]
    /\ retries = 0 /\ crashes = 0

Goto(t, from, to) == pc[t] = from /\ pc' = [pc EXCEPT ![t] = to]

-----------------------------------------------------------------------------
(* preCheckRequirements                                                    *)

Start(t) ==
    /\ Goto(t, "down", "init")
    /\ loc' = [loc EXCEPT ![t] = [NewLocals EXCEPT !.err = loc[t].err]]
    /\ UNCHANGED <<table, rows, meta, lock, pdVars, after, retries, crashes>>

\* dbMetaMgrBuilder.Init: CREATE TABLE IF NOT EXISTS.
BuilderInit(t) ==
    /\ Goto(t, "init", "exist")
    /\ table' = TRUE
    /\ UNCHANGED <<rows, meta, lock, pdVars, loc, after, retries, crashes>>

\* A known task skips the resource checks, and with them InitTask.
CheckTaskExist(t) ==
    /\ table
    /\ Goto(t, "exist", IF t \in rows THEN "pause" ELSE "register")
    /\ UNCHANGED <<table, rows, meta, lock, pdVars, loc, after, retries, crashes>>

\* Called by LocalResource: INSERT ... ON DUPLICATE KEY UPDATE state.
InitTask(t) ==
    /\ table
    /\ Goto(t, "register", "check")
    /\ rows' = rows \cup {t}
    /\ meta' = [meta EXCEPT ![t] = IF t \in rows THEN [@ EXCEPT !.state = taskStateNormal]
                                   ELSE NewTaskRow]
    /\ after' = [u \in Tasks |-> IF pc[u] = "undo" THEN after[u] \cup {t} ELSE after[u]]
    /\ UNCHANGED <<table, lock, pdVars, loc, retries, crashes>>

PreCheckPass(t) ==
    /\ Goto(t, "check", "pause")
    /\ UNCHANGED <<table, rows, meta, lock, pdVars, loc, after, retries, crashes>>

\* A failed requirement: the row is deleted again.
CleanupTask(t) ==
    /\ Goto(t, "check", "done")
    /\ rows' = rows \ {t}
    /\ UNCHANGED <<table, meta, lock, pdVars, loc, after, retries, crashes>>

\* A statement on the dropped table fails and the task gives up.
NoTable(t) ==
    /\ ~table
    /\ pc[t] \in {"exist", "register", "pause", "commit"}
    /\ pc' = [pc EXCEPT ![t] = "done"]
    /\ renew' = renew \ {t}
    /\ lock' = IF lock = t THEN 0 ELSE lock
    /\ UNCHANGED <<table, rows, meta, ttl, pdCfg, paused, mode, loc, after, retries, crashes>>

-----------------------------------------------------------------------------
(* CheckAndPausePdSchedulers                                               *)

\* The rows at which the scan ends: the own row when the task is already
\* through, and any row with a stored configuration.
Ends(t) == {u \in rows : /\ meta[u].status # taskMetaStatusInitial
                         /\ \/ u = t /\ meta[u].status >= taskMetaStatusSwitchSkipped
                            \/ meta[u].cfg # NoCfg}
EndsAt(t, u) == u \in Ends(t) /\ \A v \in Ends(t) : u <= v

\* needSwitch = false: no undo function is returned.
PauseNotNeeded(t) ==
    /\ table /\ lock = 0
    /\ EndsAt(t, t) /\ meta[t].status >= taskMetaStatusSwitchSkipped
    /\ Goto(t, "pause", "run")
    /\ UNCHANGED <<table, rows, meta, lock, pdVars, loc, after, retries, crashes>>

\* The configuration stored by another task, or by an earlier run of this one,
\* is used; the own row is not touched.
PauseReuse(t) ==
    /\ table /\ lock = 0
    /\ \E u \in rows :
         /\ EndsAt(t, u)
         /\ ~(u = t /\ meta[t].status >= taskMetaStatusSwitchSkipped)
         /\ loc' = [loc EXCEPT ![t].restore = meta[u].cfg]
    /\ Goto(t, "pause", "usecfg")
    /\ UNCHANGED <<table, rows, meta, lock, pdVars, after, retries, crashes>>

\* doRemoveSchedulersWith: the pause goroutine is started; without temporary
\* configurations the persisted one is overwritten.
Pause(t) ==
    /\ paused' = TRUE
    /\ renew' = renew \cup {t}
    /\ pdCfg' = IF ttl THEN pdCfg ELSE 1
    /\ UNCHANGED <<ttl, mode>>

\* RemoveSchedulersWithOrigin runs inside the open transaction.
RemoveSchedulersWithOrigin(t) ==
    /\ table /\ lock = 0 /\ Ends(t) = {}
    /\ Goto(t, "pause", "commit")
    /\ lock' = t
    /\ loc' = [loc EXCEPT ![t].restore = pdCfg]
    /\ Pause(t)
    /\ UNCHANGED <<table, rows, meta, after, retries, crashes>>

CommitPause(t) ==
    /\ table
    /\ Goto(t, "commit", "run")
    /\ lock' = 0
    /\ meta' = IF t \in rows
               THEN [meta EXCEPT ![t].cfg = loc[t].restore,
                                 ![t].status = taskMetaStatusScheduleSet]
               ELSE meta
    /\ loc' = [loc EXCEPT ![t].undo = TRUE]
    /\ UNCHANGED <<table, rows, pdVars, after, retries, crashes>>

\* The commit fails with a retryable error: what was done to PD stays done.
RetryPause(t) ==
    /\ retries < MaxRetry
    /\ retries' = retries + 1
    /\ table
    /\ Goto(t, "commit", "pause")
    /\ lock' = 0
    /\ UNCHANGED <<table, rows, meta, pdVars, loc, after, crashes>>

RemoveSchedulersWithCfg(t) ==
    /\ Goto(t, "usecfg", "run")
    /\ Pause(t)
    /\ loc' = [loc EXCEPT ![t].undo = TRUE]
    /\ UNCHANGED <<table, rows, meta, lock, after, retries, crashes>>

-----------------------------------------------------------------------------
(* The import and its periodic actions                                     *)

\* switchToImportMode, at the start and on every tick.
SwitchToImportMode(t) ==
    /\ pc[t] = "run" /\ mode = "normal"
    /\ mode' = "import"
    /\ UNCHANGED <<table, rows, meta, lock, ttl, pdCfg, paused, renew, pc, loc, after,
                   retries, crashes>>

\* The ticker of pauseSchedulersAndConfigWith.
RenewPause(t) ==
    /\ t \in renew /\ ~paused
    /\ paused' = TRUE
    /\ UNCHANGED <<table, rows, meta, lock, ttl, pdCfg, renew, mode, pc, loc, after,
                   retries, crashes>>

\* pauseTimeout passes in PD; it is three times the period of the ticker.
PauseExpires ==
    /\ renew = {} /\ paused
    /\ paused' = FALSE
    /\ UNCHANGED <<table, rows, meta, lock, ttl, pdCfg, renew, mode, pc, loc, after,
                   retries, crashes>>

\* TiKV leaves import mode by itself when it is not asked for it again
\* ("periodically switch to import mode, as requested by TiKV 3.0").
ImportModeExpires ==
    /\ mode = "import" /\ \A t \in Tasks : pc[t] # "run"
    /\ mode' = "normal"
    /\ UNCHANGED <<table, rows, meta, lock, ttl, pdCfg, paused, renew, pc, loc, after,
                   retries, crashes>>

\* All tables are imported, a table failed, or the import is interrupted.  An
\* error of a table does not prevent taskFinished.
ImportEnds(t) ==
    /\ Goto(t, "run", "finish")
    /\ \E fin, err \in BOOLEAN :
         /\ ~fin => err
         /\ err => GracefulExit /\ crashes < MaxCrash
         /\ loc' = [loc EXCEPT ![t].fin = fin, ![t].err = err, ![t].back = TRUE,
                               ![t].clean = fin]
         /\ crashes' = IF err THEN crashes + 1 ELSE crashes
    /\ UNCHANGED <<table, rows, meta, lock, pdVars, after, retries>>

-----------------------------------------------------------------------------
(* finishSchedulers                                                        *)

Unfinished(t) == {u \in rows \ {t} : meta[u].status < taskMetaStatusSwitchSkipped}

\* Mutated form: tasks that have not paused anything themselves are ignored.
MutSwitchBack(t, old) ==
    old /\ ~\E u \in Unfinished(t) : /\ meta[u].status = taskMetaStatusScheduleSet
                                     /\ meta[u].state = taskStateNormal

SwitchBack(t, old) ==
    old /\ ~\E u \in Unfinished(t) : meta[u].state = taskStateNormal
AllFinished(t, old) == old /\ Unfinished(t) = {}

\* restoreFn is nil: nothing is checked.
FinishNothing(t) ==
    /\ ~loc[t].undo
    /\ Goto(t, "finish", "mode")
    /\ loc' = [loc EXCEPT ![t].back = FALSE]
    /\ UNCHANGED <<table, rows, meta, lock, pdVars, after, retries, crashes>>

\* switchBack and allFinished are declared outside the closure.
FinishLocals(t) == [loc[t] EXCEPT !.back = SwitchBack(t, @), !.clean = AllFinished(t, @)]

FinishRow(t) ==
    [meta[t] EXCEPT
        !.status = IF ~loc[t].fin THEN @
                   ELSE IF FinishLocals(t).clean THEN taskMetaStatusSwitchBack
                   ELSE taskMetaStatusSwitchSkipped,
        !.state = IF loc[t].fin THEN taskStateNormal ELSE taskStateExited]

CheckAndFinishRestore(t) ==
    /\ table /\ lock = 0 /\ loc[t].undo
    /\ Goto(t, "finish", IF FinishLocals(t).back THEN "undo" ELSE "mode")
    /\ loc' = [loc EXCEPT ![t] = FinishLocals(t)]
    /\ meta' = IF t \in rows /\ meta[t].status < taskMetaStatusSwitchSkipped
               THEN [meta EXCEPT ![t] = FinishRow(t)] ELSE meta
    /\ after' = [after EXCEPT ![t] = {}]
    /\ UNCHANGED <<table, rows, lock, pdVars, retries, crashes>>

RetryFinish(t) ==
    /\ retries < MaxRetry
    /\ retries' = retries + 1
    /\ pc[t] = "finish" /\ table /\ lock = 0 /\ loc[t].undo
    /\ loc' = [loc EXCEPT ![t] = FinishLocals(t)]
    /\ UNCHANGED <<table, rows, meta, lock, pdVars, pc, after, crashes>>

\* The transaction fails for good: finishSchedulers returns without Close.
FinishFails(t) ==
    /\ ~table /\ loc[t].undo
    /\ Goto(t, "finish", "mode")
    /\ loc' = [loc EXCEPT ![t].back = FALSE, ![t].open = TRUE]
    /\ UNCHANGED <<table, rows, meta, lock, pdVars, after, retries, crashes>>

\* restoreFn: the goroutine is stopped, the schedulers are resumed and the
\* stored configuration is written back.
RestoreSchedulers(t) ==
    /\ Goto(t, "undo", IF loc[t].clean THEN "cleanup" ELSE "mode")
    /\ renew' = renew \ {t}
    /\ paused' = FALSE
    /\ pdCfg' = IF ttl THEN pdCfg ELSE loc[t].restore
    /\ UNCHANGED <<table, rows, meta, lock, ttl, mode, loc, after, retries, crashes>>

\* DROP TABLE task_meta; an error is only logged.
Cleanup(t) ==
    /\ Goto(t, "cleanup", "mode")
    /\ table' = FALSE /\ rows' = {}
    /\ UNCHANGED <<meta, lock, pdVars, loc, after, retries, crashes>>

\* Mutated form: taskMgr is not closed.
MutCancelPeriodic(t) ==
    /\ Goto(t, "mode", IF loc[t].back /\ loc[t].clean THEN "allmetas"
                       ELSE IF loc[t].err THEN "down" ELSE "normal")
    /\ mode' = IF loc[t].back THEN "normal" ELSE mode
    /\ UNCHANGED <<table, rows, meta, lock, ttl, pdCfg, paused, renew, loc, after, retries, crashes>>

\* taskMgr.Close and cancelFunc(switchBack): the periodic actions end.
CancelPeriodic(t) ==
    /\ Goto(t, "mode", IF loc[t].back /\ loc[t].clean THEN "allmetas"
                       ELSE IF loc[t].err THEN "down" ELSE "normal")
    /\ renew' = IF loc[t].open /\ ~loc[t].err THEN renew ELSE renew \ {t}
    /\ mode' = IF loc[t].back THEN "normal" ELSE mode
    /\ UNCHANGED <<table, rows, meta, lock, ttl, pdCfg, paused, loc, after, retries, crashes>>

\* DROP DATABASE unless table_meta (modelled in TableMeta) still has rows.
CleanupAllMetas(t) ==
    /\ Goto(t, "allmetas", IF loc[t].err THEN "down" ELSE "normal")
    /\ \/ table' = FALSE /\ rows' = {}
       \/ UNCHANGED <<table, rows>>
    /\ UNCHANGED <<meta, lock, pdVars, loc, after, retries, crashes>>

\* The step after restoreTables in Controller.Run.
SwitchToNormalMode(t) ==
    /\ Goto(t, "normal", "done")
    /\ mode' = "normal"
    /\ renew' = IF loc[t].open THEN renew \ {t} ELSE renew
    /\ UNCHANGED <<table, rows, meta, lock, ttl, pdCfg, paused, loc, after,
                   retries, crashes>>

Crash(t) ==
    /\ crashes < MaxCrash
    /\ pc[t] \notin {"down", "done"}
    /\ crashes' = crashes + 1
    /\ pc' = [pc EXCEPT ![t] = "down"]
    /\ renew' = renew \ {t}
    /\ lock' = IF lock = t THEN 0 ELSE lock
    /\ UNCHANGED <<table, rows, meta, ttl, pdCfg, paused, mode, loc, after, retries>>

Step(t) ==
    \/ Start(t) \/ BuilderInit(t) \/ CheckTaskExist(t) \/ InitTask(t)
    \/ PreCheckPass(t) \/ CleanupTask(t) \/ NoTable(t)
    \/ PauseNotNeeded(t) \/ PauseReuse(t) \/ RemoveSchedulersWithOrigin(t)
    \/ CommitPause(t) \/ RemoveSchedulersWithCfg(t)
    \/ SwitchToImportMode(t) \/ RenewPause(t) \/ ImportEnds(t)
    \/ FinishNothing(t) \/ FinishFails(t) \/ CheckAndFinishRestore(t) \/ RestoreSchedulers(t)
    \/ Cleanup(t) \/ CancelPeriodic(t) \/ CleanupAllMetas(t) \/ SwitchToNormalMode(t)

Next == \/ \E t \in Tasks : Step(t) \/ RetryPause(t) \/ RetryFinish(t) \/ Crash(t)
        \/ PauseExpires \/ ImportModeExpires

Spec == Init /\ [][Next]_vars

\* Tasks keep running (a crashed one is started again) and time passes in PD.
FairSpec == Spec /\ WF_vars(PauseExpires) /\ WF_vars(ImportModeExpires)
                 /\ \A t \in Tasks : WF_vars(Step(t)) /\ WF_vars(ImportEnds(t))

-----------------------------------------------------------------------------
(* Properties                                                              *)

\* Every variable has its type.
TypeOK ==
    /\ table \in BOOLEAN /\ rows \subseteq Tasks /\ lock \in Tasks \cup {0}
    /\ meta \in [Tasks -> TaskRow]
    /\ ttl \in BOOLEAN /\ pdCfg \in {0, 1} /\ paused \in BOOLEAN /\ renew \subseteq Tasks
    /\ mode \in {"normal", "import"}
    /\ pc \in [Tasks -> PCs] /\ loc \in [Tasks -> Locals]
    /\ after \in [Tasks -> SUBSET Tasks]
    /\ retries \in Nat /\ crashes \in Nat

Importing(t) == pc[t] = "run" /\ loc[t].undo

\* Nothing went wrong so far: no failed commit, crash or failed import.
Undisturbed == retries = 0 /\ crashes = 0

\* CheckAndFinishRestore: a task that is about to switch the cluster back has
\* left no registered, unfinished task behind that is importing, unless that task
\* registered after the decision was made, or is still marked as exited by an
\* earlier run (InitTask, which would reset the mark, is skipped on a restart).
SwitchBackIsSafe ==
    TypeOK /\ \A t, u \in Tasks :
        /\ pc[t] = "undo" /\ u # t /\ Importing(u)
        /\ u \in rows /\ meta[u].status < taskMetaStatusSwitchSkipped
        /\ meta[u].state = taskStateNormal
        => u \in after[t]

\* What is stored in pd_cfgs (and will be written back to PD by restoreFn) is
\* the configuration PD had before any import.  Where the configuration is
\* overwritten for good, it needs that the transaction of
\* CheckAndPausePdSchedulers is not cut short after it changed PD.
StoredConfigIsOriginal ==
    ttl \/ Undisturbed => \A t \in rows : meta[t].cfg \in {NoCfg, 0}

\* When every task has finished, one of them was the last: the metadata is
\* dropped, unless a failed attempt of the transaction left its "not yet" behind.
LastTaskCleansUp ==
    Undisturbed /\ (\A t \in Tasks : pc[t] = "done" /\ loc[t].fin) => ~table

\* In the end, whatever crashed, PD is back to its original configuration
\* with its schedulers running, and TiKV is in normal mode, provided that PD
\* pauses configurations for a time only.
Normal == ttl => ~paused /\ pdCfg = 0 /\ mode = "normal"
EventuallyNormal == <>[]Normal

=============================================================================
