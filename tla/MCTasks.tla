---- MODULE MCTasks ----
(* The tasks of BR: a backup (Backup) and the backup of one of its ranges            *)
(* (BackupRange), a full restore (RestorePipeline) and a restore of a log             *)
(* (LogRestore).  A behaviour is of one component.                                    *)
EXTENDS MCBackupRange, TLC

VARIABLES
  part,  \* the component the behaviour is of
  task, luck, attempt, pc, result, success, cancelled, jobs, wr, meta, store, pd, ddlLost,
  conf, ch, pipeErrCh, finish, pipeTodo, cached, batch, goal, hasTable, rules, restored,
  checking, checked, mismatch, mode, removed, raced, fails, cancels, plan, main, tidb,
  rows, tb, lock, failed

\* what the refinement of BackupRange assumes of its ranges
ASSUME RangesAssumption == FromAKey

\* tables and groups of regions; faults, a second attempt and a moving safe point
Task(v2, last, sum, groups, of, tables, ddls) ==
  [v2 |-> v2, last |-> last, ts |-> 2, checksum |-> sum, sched |-> FALSE, groups |-> groups,
   of |-> of, tables |-> tables, ddls |-> ddls, again |-> FALSE, gc |-> FALSE,
   raw |-> FALSE]
Luck(f, c, k) == [fail |-> f, crash |-> c, cancel |-> k]
BackupTasks ==
  {[task |-> Task(TRUE, 0, TRUE, <<2, 1>>, <<1, 1>>, 1, 0), luck |-> Luck(2, 0, 0)],
   [task |-> Task(TRUE, 0, TRUE, <<2, 1>>, <<1, 2>>, 2, 0), luck |-> Luck(1, 0, 1)],
   [task |-> Task(FALSE, 0, TRUE, <<3, 2>>, <<1, 2>>, 2, 0), luck |-> Luck(1, 0, 0)],
   [task |-> [Task(FALSE, 0, FALSE, <<3>>, <<1>>, 0, 0) EXCEPT !.raw = TRUE, !.sched = TRUE], luck |-> Luck(1, 0, 0)],
   [task |-> Task(TRUE, 1, TRUE, <<2>>, <<1>>, 1, 3), luck |-> Luck(2, 0, 0)],
   [task |-> Task(FALSE, 1, FALSE, <<1>>, <<1>>, 1, 2), luck |-> Luck(0, 0, 1)],
   [task |-> [Task(FALSE, 0, FALSE, <<1>>, <<1>>, 1, 0) EXCEPT !.again = TRUE], luck |-> Luck(1, 1, 0)],
   [task |-> [Task(FALSE, 0, FALSE, <<1>>, <<1>>, 1, 0) EXCEPT !.gc = TRUE, !.sched = TRUE], luck |-> Luck(2, 0, 0)],
   [task |-> [Task(FALSE, 1, FALSE, <<1>>, <<1>>, 1, 1) EXCEPT !.gc = TRUE], luck |-> Luck(2, 0, 0)],
   [task |-> [Task(TRUE, 2, FALSE, <<1>>, <<1>>, 1, 0) EXCEPT !.gc = TRUE], luck |-> Luck(0, 0, 0)],
   [task |-> Task(FALSE, 0, FALSE, <<>>, <<>>, 0, 0), luck |-> Luck(1, 0, 0)]}
BK == INSTANCE Backup WITH
  ChCap <- 2, SizeLimit <- 1, Concurrency <- 2, Factor <- 3, MaxTS <- 3,
  Tasks <- BackupTasks

Restore(ranges, isOnline, nFails, nCancels) ==
  [ranges |-> ranges, online |-> isOnline, fails |-> nFails, cancels |-> nCancels]

\* Two tables, one cut in two batches, online and without faults; one table cut
\* in two with a failing step; a small one offline with a failing step; an empty
\* one online, and databases without tables offline, with a cancellation.
RestorePlans ==
  {Restore(<<1, 3>>, TRUE, 0, 0), Restore(<<3>>, TRUE, 1, 0), Restore(<<1>>, FALSE, 1, 0),
   Restore(<<0>>, TRUE, 0, 1), Restore(<<>>, FALSE, 0, 1)}
RP == INSTANCE RestorePipeline WITH
  Threshold <- 2, Plans <- RestorePlans, errCh <- pipeErrCh, todo <- pipeTodo

\* small logs; the file that is still written sorts last
CurrentFile == 1000
DDL(ts, ty, n) == [kind |-> "ddl", ts |-> ts, type |-> ty, name |-> n]
Row(ts, n, k, p, v, g) == [kind |-> "row", ts |-> ts, name |-> n, key |-> k, pre |-> p, new |-> v, gone |-> g]
Ins(ts, n, k, v) == Row(ts, n, k, "none", v, "none")
Upd(ts, n, k, p, v) == Row(ts, n, k, p, v, "none")
Del(ts, n, k, v) == Row(ts, n, k, "none", "none", v)
File(n, es) == [name |-> n, events |-> es]
t1 == <<"d", "t">>
u1 == <<"d", "u">>
There(n, id) == [name |-> n, id |-> id, ver |-> 1]
Plan(ns, ds, fs, s, e, ts, rs, f) ==
  [names |-> ns, ddls |-> ds, files |-> fs, match |-> {ns[id] : id \in DOMAIN ns},
   start |-> s, end |-> e, resolved |-> 20, now |-> 30, dbs |-> {"d"}, tabs |-> ts, rows |-> rs, fail |-> f]

\* two tables of one schema, columns added, rows in two files
Alter(n, ts) == DDL(ts, "alter", n)
RowsT == {File(4, <<Ins(3, t1, 1, "a"), Upd(4, t1, 1, "a", "b")>>),
          File(CurrentFile, <<Ins(6, t1, 2, "a"), Upd(7, t1, 2, "a", "a"), Del(8, t1, 1, "b"), Ins(9, t1, 3, "c")>>)}
RowsU == {File(CurrentFile, <<Ins(5, u1, 1, "a"), Ins(6, u1, 2, "b"), Del(7, u1, 2, "b")>>)}
Old == {<<1, "r", 1, <<"z", 1>>>>, <<1, "i", "z", <<1>>>>}

MCLogPlans == {
  Plan((1 :> t1), {File(4, <<Alter(t1, 4)>>), File(6, <<Alter(t1, 6), Alter(t1, 8)>>)}, (1 :> RowsT), 1, 0,
       {There(t1, 1)}, {}, 1),
  Plan((1 :> t1), {File(6, <<Alter(t1, 6)>>)}, (1 :> RowsT), 4, 8, {There(t1, 1)},
       {<<1, "r", 1, <<"a", 1>>>>, <<1, "i", "a", <<1>>>>}, 0),
  Plan((1 :> t1), {}, (1 :> RowsT), 5, 7, {There(t1, 1)}, Old, 0),
  Plan((1 :> t1), {}, (1 :> RowsT), 1, 0, {}, {}, 0),
  [Plan((1 :> t1), {}, (1 :> RowsT), 4, 0, {There(t1, 1)}, {}, 0) EXCEPT !.resolved = 3],
  [Plan((1 :> t1), {}, (1 :> RowsT), 1, 0, {There(t1, 1)}, {}, 0) EXCEPT !.match = {}],
  \* created, dropped and created again: two ids
  Plan((1 :> t1) @@ (2 :> t1),
       {File(2, <<DDL(2, "create", t1), DDL(5, "drop", t1)>>), File(6, <<DDL(6, "create", t1)>>)},
       (1 :> {File(4, <<Ins(3, t1, 1, "a")>>)}) @@ (2 :> {File(9, <<Ins(7, t1, 1, "b"), Upd(9, t1, 1, "b", "c")>>)}),
       1, 0, {}, {}, 0),
  \* truncated
  Plan((2 :> t1), {File(3, <<DDL(3, "truncate", t1)>>)}, (2 :> {File(CurrentFile, <<Ins(4, t1, 1, "a")>>)}),
       1, 0, {There(t1, 1)}, Old, 0),
  \* the schema is dropped between rows, and created again
  Plan((1 :> t1), {File(5, <<DDL(5, "dropdb", <<"d", "">>), DDL(6, "createdb", <<"d", "">>), DDL(6, "modifydb", <<"d", "">>),
                             DDL(7, "create", t1)>>)},
       (1 :> {File(CurrentFile, <<Ins(3, t1, 1, "a"), Ins(8, t1, 2, "b")>>)}), 1, 0, {There(t1, 1)}, Old, 1),
  Plan((1 :> t1), {File(5, <<DDL(5, "createdb", <<"d", "">>)>>)}, (1 :> RowsT), 1, 0, {}, {}, 0),
  \* two tables and one lock
  Plan((1 :> t1) @@ (2 :> u1), {File(4, <<Alter(t1, 4), Alter(u1, 6)>>), File(7, <<DDL(7, "alter", t1)>>)},
       (1 :> RowsT) @@ (2 :> RowsU), 1, 0, {There(t1, 1), There(u1, 2)}, {}, 2),
  Plan((1 :> t1) @@ (2 :> u1), {File(6, <<DDL(6, "create", u1)>>)}, (1 :> RowsT) @@ (2 :> RowsU),
       1, 0, {There(t1, 1), There(u1, 2)}, {}, 0)}
LR == INSTANCE LogRestore WITH
  FlushKVPairs <- 2, LogPlans <- MCLogPlans

\* the variables of the other components, which stay 0
RangeIdle ==
  <<task, luck, attempt, pc, result, success, cancelled, jobs, wr, meta, store, pd,
  ddlLost, conf, ch, pipeErrCh, finish, pipeTodo, cached, batch, goal, hasTable, rules, restored,
  checking, checked, mismatch, mode, removed, raced, fails, cancels, plan, main, tidb,
  rows, tb, lock, failed>>
BackupIdle ==
  <<conf, ch, pipeErrCh, finish, pipeTodo, cached, batch, goal, hasTable, rules, restored,
  checking, checked, mismatch, mode, removed, raced, fails, cancels, plan, main, tidb,
  rows, tb, lock, failed>>
RestoreIdle ==
  <<task, luck, attempt, success, jobs, wr, meta, store, pd, ddlLost, plan, main, tidb,
  rows, tb, lock, failed>>
LogIdle ==
  <<task, luck, attempt, pc, success, cancelled, jobs, wr, meta, store, pd, ddlLost, conf,
  ch, pipeErrCh, finish, pipeTodo, cached, batch, goal, hasTable, rules, restored, checking,
  checked, mismatch, mode, removed, raced, cancels>>

RunVars == <<part,
  vars, task, luck, attempt, pc, result, success, cancelled, jobs, wr, meta, store,
  pd, ddlLost, conf, ch, pipeErrCh, finish, pipeTodo, cached, batch, goal, hasTable, rules,
  restored, checking, checked, mismatch, mode, removed, raced, fails, cancels, plan, main,
  tidb, rows, tb, lock, failed>>

RunInit ==
  \/ /\ part = "range" /\ Init
     /\ task = 0 /\ luck = 0 /\ attempt = 0 /\ pc = 0 /\ result = 0 /\ success = 0
     /\ cancelled = 0 /\ jobs = 0 /\ wr = 0 /\ meta = 0 /\ store = 0 /\ pd = 0
     /\ ddlLost = 0 /\ conf = 0 /\ ch = 0 /\ pipeErrCh = 0 /\ finish = 0 /\ pipeTodo = 0
     /\ cached = 0 /\ batch = 0 /\ goal = 0 /\ hasTable = 0 /\ rules = 0 /\ restored = 0
     /\ checking = 0 /\ checked = 0 /\ mismatch = 0 /\ mode = 0 /\ removed = 0
     /\ raced = 0 /\ fails = 0 /\ cancels = 0 /\ plan = 0 /\ main = 0 /\ tidb = 0
     /\ rows = 0 /\ tb = 0 /\ lock = 0 /\ failed = 0
  \/ /\ part = "backup" /\ BK!Init
     /\ BackupInit(CHOOSE p \in MCBackupPlans : TRUE)
     /\ regions = 0 /\ kvs = 0 /\ trouble = 0
     /\ conf = 0 /\ ch = 0 /\ pipeErrCh = 0 /\ finish = 0 /\ pipeTodo = 0 /\ cached = 0
     /\ batch = 0 /\ goal = 0 /\ hasTable = 0 /\ rules = 0 /\ restored = 0
     /\ checking = 0 /\ checked = 0 /\ mismatch = 0 /\ mode = 0 /\ removed = 0
     /\ raced = 0 /\ fails = 0 /\ cancels = 0 /\ plan = 0 /\ main = 0 /\ tidb = 0
     /\ rows = 0 /\ tb = 0 /\ lock = 0 /\ failed = 0
  \/ /\ part = "restore" /\ RP!Init
     /\ BackupInit(CHOOSE p \in MCBackupPlans : TRUE)
     /\ regions = 0 /\ kvs = 0 /\ trouble = 0
     /\ task = 0 /\ luck = 0 /\ attempt = 0 /\ success = 0 /\ jobs = 0 /\ wr = 0
     /\ meta = 0 /\ store = 0 /\ pd = 0 /\ ddlLost = 0 /\ plan = 0 /\ main = 0
     /\ tidb = 0 /\ rows = 0 /\ tb = 0 /\ lock = 0 /\ failed = 0
  \/ /\ part = "log" /\ LR!Init
     /\ BackupInit(CHOOSE p \in MCBackupPlans : TRUE)
     /\ regions = 0 /\ kvs = 0 /\ trouble = 0
     /\ task = 0 /\ luck = 0 /\ attempt = 0 /\ pc = 0 /\ success = 0 /\ cancelled = 0
     /\ jobs = 0 /\ wr = 0 /\ meta = 0 /\ store = 0 /\ pd = 0 /\ ddlLost = 0 /\ conf = 0
     /\ ch = 0 /\ pipeErrCh = 0 /\ finish = 0 /\ pipeTodo = 0 /\ cached = 0 /\ batch = 0
     /\ goal = 0 /\ hasTable = 0 /\ rules = 0 /\ restored = 0 /\ checking = 0
     /\ checked = 0 /\ mismatch = 0 /\ mode = 0 /\ removed = 0 /\ raced = 0
     /\ cancels = 0

RunNext ==
  \/ part = "range" /\ Next /\ UNCHANGED <<part, RangeIdle>>
  \/ part = "backup" /\ BK!Next /\ UNCHANGED <<part, BackupIdle, vars>>
  \/ part = "restore" /\ RP!Next /\ UNCHANGED <<part, RestoreIdle, vars>>
  \/ part = "log" /\ LR!Next /\ UNCHANGED <<part, LogIdle, vars>>

taskVars == BK!vars
restoreVars == RP!vars
logVars == LR!vars
\* The goroutines of the task that can go on do, a stream of a store is answered or
\* fails, and TiKV leaves import mode by itself.
RunSpec ==
  /\ RunInit /\ [][RunNext]_RunVars
  /\ WF_vars(part = "range" /\ Main)
  /\ \A p \in {1, 2} : WF_vars(part = "range" /\ Worker(p))
  /\ WF_taskVars(part = "backup" /\ BK!Main) /\ WF_taskVars(part = "backup" /\ BK!Writer)
  /\ WF_taskVars(part = "backup" /\ \E j \in DOMAIN jobs : BK!Job(j))
  /\ WF_restoreVars(part = "restore" /\ RP!Work) /\ WF_restoreVars(part = "restore" /\ RP!TiKVTimeout)
  /\ WF_logVars(part = "log" /\ LR!LogStep)

\* A backup reported as successful can be read back from the storage: the backupmeta
\* with its metafiles holds every file, schema and DDL job once (MetaWriter, RunBackup).
BackupIsComplete == part = "backup" => BK!BackupIsComplete

\* A path holds one backup, and GC passes the safe point of a running backup only when
\* PD had refused it or updates failed in a row (SetLockFile, StartServiceSafePointKeeper).
BackupIsGuarded == part = "backup" => BK!OneBackupPerPath /\ BK!SafePointHeld

\* A restore reported as successful has restored every range of every table and checked
\* each of them (RunRestore, Batcher, tikvSender).
SuccessIsComplete == part = "restore" => RP!SuccessIsComplete

\* Files are ingested in the mode the restore asked for, and a table is checked once,
\* after all of it was restored (RestorePreWork, GoValidateChecksum).
RestoreIsOrdered == part = "restore" => RP!InRestoreMode /\ RP!ChecksumAfterRestore


\* Every task returns, whatever fails and whenever it is cancelled, with the cluster
\* back in normal mode, unless it runs into one of the known endless waits.
TasksReturn ==
  <>[](CASE part = "range" -> Returned
         [] part = "backup" -> BK!Returned
         [] part = "restore" -> RP!Returned
         [] part = "log" -> LR!Returned)
====
