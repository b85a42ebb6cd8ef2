----------------------------- MODULE TableMeta -----------------------------
(***************************************************************************)
(* Several Lightning instances ("tasks") import into one table of one TiDB *)
(* cluster and coordinate through the rows of the SQL table `table_meta`   *)
(* (pkg/lightning/restore/meta_manager.go, dbTableMetaMgr).  Each task     *)
(* walks through restoreTable (restore.go) and postProcess                 *)
(* (table_restore.go); every SQL transaction is one action, every crash    *)
(* point between two of them is reachable, and a transaction whose commit  *)
(* fails with a retryable error runs its closure again WITHOUT resetting   *)
(* the variables the closure captured.                                     *)
(*                                                                         *)
(* Checksums are modelled by what they count: a function from the origin   *)
(* of the data (0 for data that was in the table before, t for task t) to  *)
(* a number of KV pairs.  Adding checksums adds the counts.                *)
(***************************************************************************)
EXTENDS Integers, FiniteSets, FiniteSetsExt

CONSTANTS
    Tasks,        \* task ids: the rows of the table are read in this order
    RawRowIDMax,  \* row ids a task asks for (the last chunk's RowIDMax)
    UsedRowIDs,   \* row ids its data really uses
    Chunks,       \* KV pairs (import steps) of one task
    PreRows,      \* how many rows (one KV pair each) the table may hold before
    NeedAutoID,   \* the table has an auto row id, auto-inc or auto-random column
    Checksum,     \* post-restore.checksum: "off", "optional" or "required"
    MaxRetry,     \* bound: failed commits over a behaviour
    MaxCrash      \* bound: process crashes over a behaviour

ASSUME TableMetaAssumption ==
    /\ Tasks \subseteq Nat \ {0}
    /\ IsFiniteSet(Tasks)
    /\ RawRowIDMax \in Nat /\ UsedRowIDs \in 0..RawRowIDMax
    /\ Chunks \in Nat /\ PreRows \subseteq Nat
    /\ NeedAutoID \in BOOLEAN
    /\ Checksum \in {"off", "optional", "required"}
    /\ MaxRetry \in Nat /\ MaxCrash \in Nat

VARIABLES
    rows,     \* tasks that have a row in table_meta
    meta,     \* the content of the rows
    remote,   \* what the table in TiKV holds, per origin
    nextID,   \* SHOW TABLE NEXT_ROW_ID
    pc,       \* where each task is in restoreTable
    loc,      \* its local variables (closure variables and cp in memory)
    total,    \* totalKvs/totalBytes/totalChecksum of CheckAndUpdateLocalChecksum
    saved,    \* its durable checkpoint
    pend,     \* checkpoint updates sent to saveCpCh and not yet written
    retries, crashes,
    redone  \* the crashes of processes that were done with this table

vars == <<rows, meta, remote, nextID, pc, loc, total, saved, pend, retries, crashes, redone>>

-----------------------------------------------------------------------------
\* metaStatus, in the order the code compares it.
metaStatusInitial == 0
metaStatusRowIDAllocated == 1
metaStatusRestoreStarted == 2
metaStatusRestoreFinished == 3
metaStatusChecksuming == 4
metaStatusChecksumSkipped == 5
metaStatusFinished == 6

Origins == Tasks \cup {0}
KVChecksum == [Origins -> Nat]
NoChecksum == [o \in Origins |-> 0]
AddChecksum(a, b) == [o \in Origins |-> a[o] + b[o]]
HasKVs(c) == \E o \in Origins : c[o] > 0

MetaRow == [status : metaStatusInitial..metaStatusFinished,
            base : Nat, max : Nat, ckBase : KVChecksum, kvs : Nat]
NewRow == [status |-> metaStatusInitial, base |-> 0, max |-> 0,
           ckBase |-> NoChecksum, kvs |-> 0]

PCs == {"down", "init", "alloc", "baseck", "baseupd", "rebase", "engines", "restore",
        "alter", "check", "compare", "finish", "done", "failed", "invalid"}

\* cur, new, base, bck: curStatus, newStatus, newRowIDBase and the base
\* checksum read by AllocTableRowIDs; ret: the checksum it returns (NoChecksum
\* for nil); ck: cp.Checksum; need: needChecksum.
Locals == [cur : metaStatusInitial..metaStatusFinished,
           new : metaStatusInitial..metaStatusFinished,
           base : Nat, bck : KVChecksum, ret : KVChecksum, ck : KVChecksum,
           need : BOOLEAN]
NewLocals == [cur |-> metaStatusInitial, new |-> metaStatusRowIDAllocated,
              base |-> 0, bck |-> NoChecksum, ret |-> NoChecksum,
              ck |-> NoChecksum, need |-> TRUE]

Init ==
    /\ rows = {}
    /\ meta = [t \in Tasks |-> NewRow]
    /\ \E n \in PreRows : remote = [o \in Origins |-> IF o = 0 THEN n ELSE 0] /\ nextID = n + 1
    /\ pc = [t \in Tasks |-> "down"]
    /\ loc = [t \in Tasks |-> NewLocals]
    /\ total = [t \in Tasks |-> NoChecksum]
    /\ saved = [t \in Tasks |-> [engines |-> FALSE, base |-> 0,
                                 ck |-> NoChecksum, checksummed |-> FALSE]]
    /\ pend = [t \in Tasks |-> [ck |-> FALSE, checksummed |-> FALSE]]
    /\ retries = 0 /\ crashes = 0 /\ redone = 0

Goto(t, from, to) == pc[t] = from /\ pc' = [pc EXCEPT ![t] = to]

\* The rows a `SELECT ... FOR UPDATE` returns and the closures do not skip.
Live == {u \in rows : meta[u].status < metaStatusFinished}

-----------------------------------------------------------------------------
(* restoreTable: a checkpoint that holds engines skips the allocation.     *)
Start(t) ==
    /\ \/ pc[t] = "down"
       \/ pc[t] = "failed" /\ pend[t] = [ck |-> FALSE, checksummed |-> FALSE]
    /\ pc' = [pc EXCEPT ![t] = IF saved[t].engines THEN "restore" ELSE "init"]
    /\ loc' = [loc EXCEPT ![t] = [NewLocals EXCEPT !.base = saved[t].base,
                                                   !.ck = saved[t].ck]]
    /\ total' = [total EXCEPT ![t] = NoChecksum]
    /\ UNCHANGED <<rows, meta, remote, nextID, saved, pend, retries, crashes, redone>>

\* INSERT IGNORE: an existing row is kept as it is.
InitTableMeta(t) ==
    /\ Goto(t, "init", "alloc")
    /\ rows' = rows \cup {t}
    /\ meta' = IF t \in rows THEN meta ELSE [meta EXCEPT ![t] = NewRow]
    /\ UNCHANGED <<remote, nextID, loc, total, saved, pend, retries, crashes, redone>>

-----------------------------------------------------------------------------
(* AllocTableRowIDs: the closure of the transaction.                       *)

OwnAllocated(t) == t \in Live /\ meta[t].status >= metaStatusRowIDAllocated

\* The scan stops at the task's own row once that row is allocated.
Scanned(t) == IF OwnAllocated(t) THEN {u \in Live : u <= t} ELSE Live

\* Mutated form: a task may join while another one is checksuming.
MutAllocError(t) == OwnAllocated(t) /\ meta[t].max - meta[t].base # RawRowIDMax

AllocError(t) ==
    \/ \E u \in Scanned(t) : meta[u].status = metaStatusChecksuming
    \/ OwnAllocated(t) /\ meta[t].max - meta[t].base # RawRowIDMax

CurStatus(t) == IF t \in Live THEN meta[t].status ELSE loc[t].cur

\* maxRowIDMax at the end of the scan, as a singleton.
MaxRowIDMax(t) ==
    LET seen == {0} \cup {meta[u].max : u \in Scanned(t) \ {t}}
    IN {m \in seen : \A n \in seen : n <= m}

\* Mutated form: the id of TiDB is preferred to the rows.
MutRowIDBaseFromTiDB(t, m) ==
    IF CurStatus(t) = metaStatusInitial THEN nextID - 1
    ELSE IF OwnAllocated(t) THEN meta[t].base ELSE loc[t].base

\* newRowIDBase, given maxRowIDMax.
NewRowIDBase(t, m) ==
    IF CurStatus(t) = metaStatusInitial
    THEN IF NeedAutoID /\ m = 0 THEN nextID - 1 ELSE m
    ELSE IF OwnAllocated(t) THEN meta[t].base ELSE loc[t].base

NewStatus(t, m) ==
    IF \/ \E u \in Scanned(t) \ {t} : meta[u].status >= metaStatusRowIDAllocated
       \/ /\ CurStatus(t) = metaStatusInitial
          /\ NeedAutoID /\ NewRowIDBase(t, m) = 0
          /\ loc[t].new < metaStatusRestoreStarted
    THEN metaStatusRestoreStarted
    ELSE loc[t].new

AllocLocals(t, m) ==
    [loc[t] EXCEPT
        !.cur = IF CurStatus(t) = metaStatusInitial THEN NewStatus(t, m) ELSE CurStatus(t),
        !.new = NewStatus(t, m),
        !.base = NewRowIDBase(t, m),
        !.bck = IF t \in Live THEN meta[t].ckBase ELSE @]

\* The transaction commits.
AllocTableRowIDs(t) ==
    /\ pc[t] = "alloc" /\ ~AllocError(t)
    /\ \E m \in MaxRowIDMax(t) :
         /\ meta' = IF CurStatus(t) = metaStatusInitial /\ t \in rows
                    THEN [meta EXCEPT ![t].base = NewRowIDBase(t, m),
                                      ![t].max = NewRowIDBase(t, m) + RawRowIDMax,
                                      ![t].status = NewStatus(t, m)]
                    ELSE meta
         /\ loc' = [loc EXCEPT ![t] = AllocLocals(t, m)]
         /\ pc' = [pc EXCEPT ![t] = IF AllocLocals(t, m).cur < metaStatusRestoreStarted
                                    THEN "baseck" ELSE "rebase"]
    /\ UNCHANGED <<rows, remote, nextID, total, saved, pend, retries, crashes, redone>>

\* The commit fails with a retryable error: nothing is written, but the
\* captured variables keep what this attempt assigned to them.
AllocRetry(t) ==
    /\ pc[t] = "alloc" /\ ~AllocError(t)
    /\ retries < MaxRetry
    /\ retries' = retries + 1
    /\ \E m \in MaxRowIDMax(t) : loc' = [loc EXCEPT ![t] = AllocLocals(t, m)]
    /\ UNCHANGED <<rows, meta, remote, nextID, pc, total, saved, pend, crashes, redone>>

AllocFail(t) ==
    /\ AllocError(t)
    /\ Goto(t, "alloc", "failed")
    /\ UNCHANGED <<rows, meta, remote, nextID, loc, total, saved, pend, retries, crashes, redone>>

\* "need to do checksum and update checksum meta since we are the first one":
\* the checksum of the table, taken after the transaction has committed.
BaseChecksum(t) ==
    /\ Goto(t, "baseck", "baseupd")
    /\ loc' = IF /\ loc[t].base > 0 \/ ~NeedAutoID
                 /\ Checksum # "off"
                 /\ ~HasKVs(loc[t].bck)
              THEN [loc EXCEPT ![t].ret = IF remote # loc[t].bck THEN remote ELSE @]
              ELSE loc
    /\ UNCHANGED <<rows, meta, remote, nextID, total, saved, pend, retries, crashes, redone>>

\* UpdateTableBaseChecksum, or UpdateTableStatus(RestoreStarted).
UpdateTableBaseChecksum(t) ==
    /\ Goto(t, "baseupd", "rebase")
    /\ meta' = IF t \notin rows THEN meta
               ELSE [meta EXCEPT ![t].status = metaStatusRestoreStarted,
                                 ![t].ckBase = IF HasKVs(loc[t].ret)
                                               THEN loc[t].ret ELSE @]
    /\ UNCHANGED <<rows, remote, nextID, loc, total, saved, pend, retries, crashes, redone>>

\* The end of AllocTableRowIDs and RebaseChunkRowIDs: a base checksum is put
\* into the checkpoint through saveCpCh.
RebaseChunkRowIDs(t) ==
    /\ Goto(t, "rebase", "engines")
    /\ LET ret == IF HasKVs(loc[t].ret) THEN loc[t].ret ELSE loc[t].bck
       IN IF HasKVs(ret) /\ ret # loc[t].ck
          THEN /\ loc' = [loc EXCEPT ![t].ck = ret]
               /\ pend' = [pend EXCEPT ![t].ck = TRUE]
          ELSE UNCHANGED <<loc, pend>>
    /\ UNCHANGED <<rows, meta, remote, nextID, total, saved, retries, crashes, redone>>

\* The engines, with the rebased row ids, are written synchronously.
InsertEngineCheckpoints(t) ==
    /\ Goto(t, "engines", "restore")
    /\ saved' = [saved EXCEPT ![t].engines = TRUE, ![t].base = loc[t].base]
    /\ UNCHANGED <<rows, meta, remote, nextID, loc, total, pend, retries, crashes, redone>>

-----------------------------------------------------------------------------
(* restoreEngines: ingesting what was ingested before changes nothing, so  *)
(* only the first import of a KV pair is a step.                           *)
ImportEngine(t) ==
    /\ pc[t] = "restore" /\ remote[t] < Chunks
    /\ remote' = [remote EXCEPT ![t] = @ + 1]
    /\ UNCHANGED <<rows, meta, nextID, pc, loc, total, saved, pend, retries, crashes, redone>>

UpdateTableStatus(t) ==
    /\ remote[t] = Chunks
    /\ Goto(t, "restore", "alter")
    /\ meta' = IF t \in rows THEN [meta EXCEPT ![t].status = metaStatusRestoreFinished]
               ELSE meta
    /\ UNCHANGED <<rows, remote, nextID, loc, total, saved, pend, retries, crashes, redone>>

\* Mutated form: the next row id of the table is not raised.
MutAlterAutoIncrement(t) ==
    /\ Goto(t, "alter", IF saved[t].checksummed \/ Checksum = "off"
                        THEN "done" ELSE "check")
    /\ loc' = [loc EXCEPT ![t].new = metaStatusChecksuming, ![t].need = TRUE]
    /\ UNCHANGED <<rows, meta, remote, nextID, total, saved, pend, retries, crashes, redone>>

\* postProcess step 3: ALTER TABLE ... AUTO_INCREMENT only ever raises the id.
AlterAutoIncrement(t) ==
    /\ Goto(t, "alter", IF saved[t].checksummed \/ Checksum = "off"
                        THEN "done" ELSE "check")
    /\ nextID' = IF /\ NeedAutoID /\ ~saved[t].checksummed
                    /\ nextID <= saved[t].base + UsedRowIDs
                 THEN saved[t].base + UsedRowIDs + 1 ELSE nextID
    /\ loc' = [loc EXCEPT ![t].new = metaStatusChecksuming, ![t].need = TRUE]
    /\ UNCHANGED <<rows, meta, remote, total, saved, pend, retries, crashes, redone>>

-----------------------------------------------------------------------------
(* CheckAndUpdateLocalChecksum: the closure of the transaction.            *)

\* Mutated form: a task that restored its data does not end the scan.
MutStops(t) == {u \in Live : IF u = t THEN meta[u].status >= metaStatusChecksuming
                                      ELSE meta[u].status < metaStatusRestoreFinished}

\* The rows at which the scan ends: the own row once it is checksuming, and
\* any other row that is not skipped.
Stops(t) == {u \in Live : IF u = t THEN meta[u].status >= metaStatusChecksuming
                                   ELSE meta[u].status <= metaStatusChecksuming}
StopsAt(t, u) == u \in Stops(t) /\ \A v \in Stops(t) : u <= v

CheckError(t) == \E u \in Tasks \ {t} :
    StopsAt(t, u) /\ meta[u].status = metaStatusChecksuming
CheckEarly(t) == StopsAt(t, t)
CheckSkip(t) == \E u \in Tasks \ {t} :
    StopsAt(t, u) /\ meta[u].status < metaStatusChecksuming

\* The other rows whose checksums were added up before the scan ended.
Counted(t) == {u \in Live \ {t} : \A v \in Stops(t) : u < v}

CheckTotal(t) ==
    [o \in Origins |->
        total[t][o] + MapThenSumSet(LAMBDA u : meta[u].ckBase[o], Counted(t))
                    + (IF o \in Counted(t) THEN meta[o].kvs ELSE 0)]

CheckLocals(t) ==
    [loc[t] EXCEPT
        !.new = IF CheckEarly(t) THEN meta[t].status
                ELSE IF CheckSkip(t) THEN metaStatusChecksumSkipped ELSE @,
        !.need = IF CheckEarly(t) THEN meta[t].status = metaStatusChecksuming
                 ELSE IF CheckSkip(t) THEN FALSE ELSE @]

\* Mutated form: a task that skips the checksum finishes the table as well.
MutCheckFinishes(t) ==
    /\ ~CheckError(t)
    /\ Goto(t, "check", IF CheckLocals(t).need THEN "compare" ELSE "finish")
    /\ loc' = [loc EXCEPT ![t] = CheckLocals(t)]
    /\ total' = [total EXCEPT ![t] = CheckTotal(t)]
    /\ meta' = IF CheckEarly(t) \/ t \notin rows THEN meta
               ELSE [meta EXCEPT ![t].kvs = Chunks,
                                 ![t].status = CheckLocals(t).new]
    /\ UNCHANGED <<rows, remote, nextID, saved, pend, retries, crashes, redone>>

CheckAndUpdateLocalChecksum(t) ==
    /\ ~CheckError(t)
    /\ Goto(t, "check", IF CheckLocals(t).need THEN "compare" ELSE "done")
    /\ loc' = [loc EXCEPT ![t] = CheckLocals(t)]
    /\ total' = [total EXCEPT ![t] = CheckTotal(t)]
    /\ meta' = IF CheckEarly(t) \/ t \notin rows THEN meta
               ELSE [meta EXCEPT ![t].kvs = Chunks,
                                 ![t].status = CheckLocals(t).new]
    /\ UNCHANGED <<rows, remote, nextID, saved, pend, retries, crashes, redone>>

CheckRetry(t) ==
    /\ pc[t] = "check" /\ ~CheckError(t)
    /\ retries < MaxRetry
    /\ retries' = retries + 1
    /\ loc' = [loc EXCEPT ![t] = CheckLocals(t)]
    /\ total' = [total EXCEPT ![t] = CheckTotal(t)]
    /\ UNCHANGED <<rows, meta, remote, nextID, pc, saved, pend, crashes, redone>>

CheckFail(t) ==
    /\ CheckError(t)
    /\ Goto(t, "check", "failed")
    /\ UNCHANGED <<rows, meta, remote, nextID, loc, total, saved, pend, retries, crashes, redone>>

\* The checksum the task expects: its own data, the base and the other tasks.
LocalChecksum(t) ==
    LET own == [o \in Origins |-> IF o = t THEN Chunks ELSE 0]
    IN AddChecksum(own, AddChecksum(loc[t].ck, total[t]))

\* compareChecksum; a mismatch is saved as an invalid checkpoint.
CompareChecksum(t) ==
    /\ Goto(t, "compare",
            IF remote = LocalChecksum(t) \/ Checksum = "optional"
            THEN "finish" ELSE "invalid")
    /\ UNCHANGED <<rows, meta, remote, nextID, loc, total, saved, pend, retries, crashes, redone>>

FinishTable(t) ==
    /\ Goto(t, "finish", "done")
    /\ rows' = {u \in rows : meta[u].status \notin
                    {metaStatusChecksuming, metaStatusChecksumSkipped}}
    /\ pend' = [pend EXCEPT ![t].checksummed = TRUE]
    /\ UNCHANGED <<meta, remote, nextID, loc, total, saved, retries, crashes, redone>>

-----------------------------------------------------------------------------
\* listenCheckpointUpdates writes what was sent to saveCpCh.
FlushCheckpoint(t) ==
    /\ pend[t].ck \/ pend[t].checksummed
    /\ saved' = [saved EXCEPT ![t].ck = IF pend[t].ck THEN loc[t].ck ELSE @,
                              ![t].checksummed = @ \/ pend[t].checksummed]
    /\ pend' = [pend EXCEPT ![t] = [ck |-> FALSE, checksummed |-> FALSE]]
    /\ UNCHANGED <<rows, meta, remote, nextID, pc, loc, total, retries, crashes, redone>>

\* The process dies; what it had not written is lost.
Crash(t) ==
    /\ crashes < MaxCrash
    /\ pc[t] \notin {"down", "invalid"}
    /\ crashes' = crashes + 1
    /\ redone' = IF pc[t] = "done" THEN redone + 1 ELSE redone
    /\ pc' = [pc EXCEPT ![t] = "down"]
    /\ pend' = [pend EXCEPT ![t] = [ck |-> FALSE, checksummed |-> FALSE]]
    /\ UNCHANGED <<rows, meta, remote, nextID, loc, total, saved, retries>>

Step(t) ==
    \/ Start(t) \/ InitTableMeta(t)
    \/ AllocTableRowIDs(t) \/ AllocFail(t)
    \/ BaseChecksum(t) \/ UpdateTableBaseChecksum(t)
    \/ RebaseChunkRowIDs(t) \/ InsertEngineCheckpoints(t)
    \/ ImportEngine(t) \/ UpdateTableStatus(t) \/ AlterAutoIncrement(t)
    \/ CheckAndUpdateLocalChecksum(t) \/ CheckFail(t)
    \/ CompareChecksum(t) \/ FinishTable(t)
    \/ FlushCheckpoint(t)

Next == \E t \in Tasks : Step(t) \/ AllocRetry(t) \/ CheckRetry(t) \/ Crash(t)

Spec == Init /\ [][Next]_vars

\* Every task keeps going, and a task that stopped with an error is started
\* again: the errors of AllocTableRowIDs ask for exactly that ("please wait
\* unit the checksum is finished and try again").
FairSpec == Spec /\ \A t \in Tasks : WF_vars(Step(t))

-----------------------------------------------------------------------------
(* Properties.                                                             *)

\* Every variable has its type.
TypeOK ==
    /\ rows \subseteq Tasks
    /\ meta \in [Tasks -> MetaRow]
    /\ remote \in KVChecksum
    /\ nextID \in Nat \ {0}
    /\ pc \in [Tasks -> PCs]
    /\ loc \in [Tasks -> Locals]
    /\ saved \in [Tasks -> [engines : BOOLEAN, base : Nat, ck : KVChecksum,
                            checksummed : BOOLEAN]]
    /\ pend \in [Tasks -> [ck : BOOLEAN, checksummed : BOOLEAN]]
    /\ retries \in Nat /\ crashes \in Nat /\ redone \in Nat

\* "another task is checksuming, there must be something wrong!" names the
\* state that CheckAndUpdateLocalChecksum must exclude: two tasks that both
\* believe to be the last one.  No interleaving, crash, restart or retried
\* commit leads to two checksuming rows.
AtMostOneChecksuming ==
    \A t, u \in rows :
        /\ meta[t].status = metaStatusChecksuming
        /\ meta[u].status = metaStatusChecksuming
        => t = u

\* The ranges AllocTableRowIDs hands out to tasks whose rows are in the meta
\* table at the same time never overlap.
RowRangesDisjoint ==
    \A t, u \in rows :
        /\ t # u
        /\ meta[t].status >= metaStatusRowIDAllocated
        /\ meta[u].status >= metaStatusRowIDAllocated
        => meta[t].max <= meta[u].base \/ meta[u].max <= meta[t].base

\* The row ids the imported data uses differ between any two tasks, also when
\* one of them finished and its row was deleted before the other allocated,
\* and differ from the ids of the rows that were there before the import, as
\* long as no commit is retried with the stale variables of a failed one, and
\* no process that was done with the table finishes it again: without a row of
\* its own it would delete the rows of tasks that others still have to see.
UsedRowIDsDisjoint ==
    NeedAutoID /\ retries = 0 /\ redone = 0 =>
      \A t \in Tasks : saved[t].engines =>
        /\ saved[t].base >= remote[0]
        /\ \A u \in Tasks \ {t} : saved[u].engines =>
             \/ saved[t].base + UsedRowIDs <= saved[u].base
             \/ saved[u].base + UsedRowIDs <= saved[t].base

\* While a task computes the checksum of the table (its row is checksuming),
\* no task adds data to the table: the checksum is not of a moving target.
FrozenWhileChecksuming ==
    [][(\E t \in rows : meta[t].status = metaStatusChecksuming)
            => remote' = remote]_vars

\* When a task deletes the finished rows (FinishTable), every task that has a
\* row and started to import has all of its data in the table (unless a commit
\* was retried, or a process died after it was done with the table: restarted
\* before its last checkpoint was saved it checks and finishes the table again).
FinishCoversAllTasks ==
    [][\A t \in Tasks : FinishTable(t) /\ retries = 0 /\ redone = 0 =>
         \A u \in rows : saved[u].engines => remote[u] = Chunks]_vars

\* Nothing that makes a mismatch possible has happened: no crash, no retried
\* commit, and the table was empty (a task may import into a table with rows, of
\* a finished third task, say, before the first task has taken their checksum).
Undisturbed == remote[0] = 0 /\ retries = 0 /\ crashes = 0

\* Once every task is done with the table, one of them has compared the
\* checksums after the last import and cleaned up: no row is left that would
\* keep CleanupAllMetas from dropping the metadata (unless a commit was retried).
LastTaskCleansUp ==
    retries = 0 /\ (\A t \in Tasks : pc[t] = "done") /\ Checksum # "off" => rows = {}

\* The variables keep their types, the row ids that tasks use in one table are
\* disjoint, and the task that leaves last removes what the tasks share
\* (AllocTableRowIDs, RebaseChunkRowIDs, FinishTable).
TableMetaIsSafe == TypeOK /\ UsedRowIDsDisjoint /\ LastTaskCleansUp

\* Every task gets through and an empty table is verified in the end, unless a
\* crash or a retried commit intervenes: no two tasks block each other for
\* ever, and no task finds a checksum mismatch (it would stay "invalid"), so
\* what CheckAndUpdateLocalChecksum adds up from the other rows is what those
\* tasks put into the table.
Verified == Undisturbed => rows = {} /\ \A t \in Tasks : pc[t] = "done"
EventuallyVerified == <>[]Verified

-----------------------------------------------------------------------------
(* The inductive invariant behind AtMostOneChecksuming, RowRangesDisjoint  *)
(* and FrozenWhileChecksuming (proved in TableMetaProofs).                 *)

\* What a task's place in restoreTable and its durable checkpoint say about
\* its own row: while the engines are not saved the row exists from
\* InitTableMeta on and is at most restore_started.
ProgressInv ==
    \A t \in Tasks :
        /\ meta[t].status < metaStatusFinished
        /\ pc[t] \in {"init", "alloc"} =>
              ~saved[t].engines /\ loc[t].new \in {metaStatusRowIDAllocated,
                                                  metaStatusRestoreStarted}
        /\ pc[t] \in {"alloc", "baseck", "baseupd", "rebase", "engines"} => t \in rows
        /\ pc[t] \in {"baseck", "baseupd"} => meta[t].status = metaStatusRowIDAllocated
        /\ pc[t] \in {"rebase", "engines"} => meta[t].status = metaStatusRestoreStarted
        /\ pc[t] \in {"baseck", "baseupd", "rebase", "engines"} => ~saved[t].engines
        /\ pc[t] \in {"restore", "alter", "check", "compare", "finish"} => saved[t].engines
        /\ pc[t] = "check" => loc[t].new \in {metaStatusChecksuming, metaStatusChecksumSkipped}
        /\ pc[t] \in {"alter", "check", "compare", "finish"} => remote[t] = Chunks
        /\ t \in rows => IF saved[t].engines
                         THEN meta[t].status >= metaStatusRowIDAllocated
                         ELSE meta[t].status <= metaStatusRestoreStarted

\* A task that may still add data has a row that says restore_started.
ImportingInv ==
    \A t \in Tasks : saved[t].engines /\ remote[t] # Chunks =>
        t \in rows /\ meta[t].status = metaStatusRestoreStarted

\* While a row is checksuming no row belongs to a task that is importing or
\* has been promised row ids.
ChecksumingExcludes ==
    \A t, u \in rows : meta[t].status = metaStatusChecksuming =>
        meta[u].status \notin {metaStatusRowIDAllocated, metaStatusRestoreStarted}

\* A task that may still write (its row is allocated or restore_started, or
\* its checkpoint says so) never coexists with a checksuming row, whatever
\* crashes, restarts and retried commits came before.
TableMetaInv ==
    /\ ProgressInv /\ ImportingInv /\ ChecksumingExcludes
    /\ AtMostOneChecksuming /\ RowRangesDisjoint

=============================================================================
