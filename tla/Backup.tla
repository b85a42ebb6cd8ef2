---- MODULE Backup ----
(***************************************************************************)
(* A backup task of BR (task.RunBackup, and RunBackupRaw, which has one    *)
(* range and neither lock file, safe point nor schemas): the target path,  *)
(* the service safe point and its keeper, the three stages whose results   *)
(* go through the meta writer (DDL jobs, data files, schemas), the final   *)
(* fast checksum, and what a crash, a failed write, a cancellation or a    *)
(* second attempt at the same path leaves behind.                          *)
(*                                                                         *)
(* BackupRange is what RangeBackup promises: it fails, or it hands over    *)
(* the files of the regions of its range.  The files of one region are one *)
(* item <<range, n>>.  The checksum of a table is the set of its items.    *)
(***************************************************************************)
EXTENDS Integers, Sequences, FiniteSets, SequencesExt, FiniteSetsExt

CONSTANTS
  Tasks,        \* what is backed up and what goes wrong
  ChCap,        \* MaxBatchSize, the capacity of metasCh
  SizeLimit,    \* metafileSizeLimit, in items
  Concurrency,  \* goroutines of a stage
  Factor,       \* preUpdateServiceSafePointFactor: ticks in a TTL
  MaxTS         \* how far the GC safe point goes

VARIABLES
  task,      \* v2: UseBackupMetaV2; last: LastBackupTS or 0; ts: BackupTS;
             \* checksum; sched: RemoveSchedulers; groups: the number of items
             \* of each range; of: its table; tables; ddls: the number of jobs;
             \* again: a second attempt is made; gc: GC runs; raw: RunBackupRaw
  luck,      \* bound: failures, crashes and cancellations left, and GC runs
  attempt, pc, result,
  success,   \* summary.SetSuccessStatus
  cancelled, \* ctx is done
  jobs,      \* the goroutines of a stage
  wr,        \* MetaWriter: its goroutine, metasCh and metafiles
  meta,      \* MetaWriter.backupMeta
  store,     \* the external storage
  pd,        \* gc: the GC safe point; svc: BR's service safe point is set; age:
             \* ticks since it was; sp: what the keeper holds; due: a tick of
             \* the keeper is; missed: updates failed in a row; on: it runs;
             \* refused: PD did not take it
  ddlLost    \* a DDL job met the error of a flush

runVars == <<attempt, pc, result, success, cancelled>>
writerVars == <<jobs, wr, meta, ddlLost>>
vars == <<task, luck, runVars, writerVars, store, pd>>

Op == {"ddl", "data", "schema"}
Ranges == 1..Len(task.groups)
ItemsOf(r) == [k \in 1..task.groups[r] |-> <<r, k>>]
SumOf(t) == UNION {Range(ItemsOf(r)) : r \in {r \in Ranges : task.of[r] = t}}
SkipChecksum == ~task.checksum \/ task.last > 0 \/ task.raw
Schema(t) == [table |-> t, sum |-> IF SkipChecksum THEN {} ELSE SumOf(t)]

NoMeta == [stamped |-> FALSE, v2 |-> FALSE, ddl |-> <<>>, data |-> <<>>, schema |-> <<>>,
           index |-> [op \in Op |-> <<>>]]
NoWriter == [at |-> "gone", ch |-> <<>>, buf |-> [op \in Op |-> <<>>]]
NoKeeper == [gc |-> 0, svc |-> FALSE, age |-> 0, sp |-> 0, due |-> FALSE, missed |-> 0,
             on |-> FALSE, refused |-> FALSE]

Init ==
  \E t \in Tasks :
    /\ task = t.task /\ luck = t.luck
    /\ attempt = 1 /\ pc = "start" /\ result = "none" /\ success = FALSE /\ cancelled = FALSE
    /\ jobs = <<>> /\ wr = NoWriter /\ meta = NoMeta /\ ddlLost = FALSE
    /\ store = [lock |-> FALSE, meta |-> {}, files |-> <<>>, by |-> {}]
    /\ pd = NoKeeper

Bad(kind) == luck[kind] > 0 /\ luck' = [luck EXCEPT ![kind] = @ - 1]
Fine == UNCHANGED luck

----------------------------------------------------------------------------
(* Returning, crashing, starting again.                                    *)

\* the deferred functions stop the keeper and put the schedulers back; PD keeps
\* the service safe point for the rest of its TTL
Return(r) ==
  /\ pc' = "done" /\ result' = r
  /\ pd' = [pd EXCEPT !.on = FALSE, !.due = FALSE]
Error == Return("error") /\ UNCHANGED success
Running == pc \notin {"done", "hang"}

Crash ==
  /\ Running /\ Bad("crash") /\ Return("crash")
  /\ UNCHANGED <<task, attempt, success, cancelled, writerVars, store>>
Cancel ==
  /\ Running /\ Bad("cancel") /\ cancelled' = TRUE
  /\ UNCHANGED <<task, attempt, pc, result, success, writerVars, store, pd>>
Again ==
  /\ pc = "done" /\ task.again /\ attempt = 1
  /\ attempt' = 2 /\ pc' = "start" /\ result' = "none" /\ success' = FALSE /\ cancelled' = FALSE
  /\ jobs' = <<>> /\ wr' = NoWriter /\ meta' = NoMeta /\ ddlLost' = FALSE
  /\ pd' = [NoKeeper EXCEPT !.gc = pd.gc, !.svc = pd.svc, !.age = pd.age, !.sp = pd.sp]
  /\ UNCHANGED <<task, luck, store>>

----------------------------------------------------------------------------
(* Before the first stage.                                                 *)

Step(from, to) ==
  pc = from /\ pc' = to /\ UNCHANGED <<task, attempt, result, success, cancelled, writerVars>>
Leave(from) ==
  pc = from /\ Error /\ UNCHANGED <<task, attempt, cancelled, writerVars>>
Fails(from) == Leave(from) /\ (Bad("fail") \/ (cancelled /\ Fine)) /\ UNCHANGED store

\* SetStorage: the path has been used already
Used == store.meta # {} \/ store.lock
AfterStorage == IF task.raw THEN "sched" ELSE "lock"
SetStorage ==
  \/ ~Used /\ Step("start", AfterStorage) /\ Fine /\ UNCHANGED <<store, pd>>
  \/ Used /\ Leave("start") /\ Fine /\ UNCHANGED store
  \/ Fails("start")
SetLockFile ==
  \/ /\ Step("lock", "ts") /\ Fine /\ UNCHANGED pd
     /\ store' = [store EXCEPT !.lock = TRUE, !.by = @ \cup {attempt}]
  \/ Fails("lock")

\* CheckGCSafePoint: a PD that does not answer passes
Checked(ts) == (ts > pd.gc /\ Fine) \/ Bad("fail")
Exceeded(ts) == ts <= pd.gc
\* the safe point: of the last backup if there is one
SafePoint == IF task.last > 0 THEN task.last ELSE task.ts

GetTS ==
  \/ Checked(task.ts) /\ Step("ts", "keeper") /\ UNCHANGED <<store, pd>>
  \/ Exceeded(task.ts) /\ Leave("ts") /\ Fine /\ UNCHANGED store
  \/ Fails("ts")
\* StartServiceSafePointKeeper
KeeperCheck ==
  \/ Checked(SafePoint) /\ Step("keeper", "register") /\ UNCHANGED <<store, pd>>
  \/ Exceeded(SafePoint) /\ Leave("keeper") /\ Fine /\ UNCHANGED store
\* updateServiceSafePoint: PD takes no service safe point the GC has passed,
\* which is only logged
MutRegistered(sp) ==
  IF sp - 1 >= pd.gc
  THEN [pd EXCEPT !.svc = TRUE, !.sp = sp, !.age = 0, !.missed = 0, !.due = FALSE, !.on = TRUE]
  ELSE [pd EXCEPT !.refused = TRUE, !.missed = 0, !.due = FALSE, !.on = TRUE]
Registered(sp) ==
  IF sp - 1 >= pd.gc
  THEN [pd EXCEPT !.svc = TRUE, !.sp = sp - 1, !.age = 0, !.missed = 0, !.due = FALSE, !.on = TRUE]
  ELSE [pd EXCEPT !.refused = TRUE, !.missed = 0, !.due = FALSE, !.on = TRUE]
Register ==
  \/ Step("register", "sched") /\ Fine /\ pd' = Registered(SafePoint) /\ UNCHANGED store
  \/ Fails("register")

\* when the schedulers cannot be removed, the error returned is the nil one of
\* the step before
RemoveSchedulers ==
  \/ Step("sched", "build") /\ Fine /\ UNCHANGED <<store, pd>>
  \/ /\ pc = "sched" /\ task.sched /\ Bad("fail") /\ Return("ok")
     /\ UNCHANGED <<task, attempt, success, cancelled, writerVars, store>>

----------------------------------------------------------------------------
(* The stages.                                                             *)

\* the goroutines of a stage; WriteBackupDDLJobs runs in the main one
JobsOf(op) ==
  CASE op = "ddl" -> <<[at |-> "send", left |-> [i \in 1..task.ddls |-> i]]>>
    [] op = "data" -> [r \in Ranges |-> [at |-> "wait", left |-> ItemsOf(r)]]
    [] op = "schema" -> [t \in 1..task.tables |-> [at |-> "wait", left |-> <<Schema(t)>>]]
\* StartWriteMetasAsync: new channels
StartStage(op) ==
  /\ pc' = op /\ jobs' = JobsOf(op)
  /\ wr' = [wr EXCEPT !.at = "loop", !.ch = <<>>]

\* BuildBackupRangeAndSchema, and what follows it
Build ==
  \/ /\ pc = "build" /\ ~task.raw /\ task.tables = 0 /\ StartStage("schema")
     /\ meta' = [meta EXCEPT !.stamped = TRUE] /\ Fine
     /\ UNCHANGED <<task, attempt, result, success, cancelled, store, pd, ddlLost>>
  \/ /\ pc = "build" /\ ~task.raw /\ task.tables > 0 /\ task.last = 0 /\ StartStage("data") /\ Fine
     /\ UNCHANGED <<task, attempt, result, success, cancelled, store, pd, meta, ddlLost>>
  \/ /\ pc = "build" /\ task.tables > 0 /\ task.last > 0 /\ task.ts > task.last
     /\ Checked(task.last) /\ StartStage("ddl")
     /\ UNCHANGED <<task, attempt, result, success, cancelled, store, pd, meta, ddlLost>>
  \/ /\ task.tables > 0 /\ task.last > 0 /\ (task.ts <= task.last \/ Exceeded(task.last))
     /\ Leave("build") /\ Fine /\ UNCHANGED store
  \/ Fails("build")
\* RunBackupRaw: one range
BuildRaw ==
  /\ pc = "build" /\ task.raw /\ StartStage("data") /\ Fine
  /\ UNCHANGED <<task, attempt, result, success, cancelled, store, pd, meta, ddlLost>>

Sent(j) == jobs[j].at = "send" /\ jobs[j].left = <<>>
Over(j) == jobs[j].at = "failed" \/ Sent(j)
Broken == \E j \in DOMAIN jobs : jobs[j].at = "failed"
JobVars == <<task, runVars, meta, pd>>

JobStarts(j) ==
  /\ jobs[j].at = "wait"
  /\ Cardinality({i \in DOMAIN jobs : jobs[i].at # "wait" /\ ~Over(i)}) < Concurrency
  /\ jobs' = [jobs EXCEPT ![j].at = "work"] /\ Fine
  /\ UNCHANGED <<JobVars, wr, store, ddlLost>>
\* BackupRange, or the checksum of a table; another's failure, and a
\* cancellation, end them (a schema without checksum has nothing to end)
JobWorks(j) ==
  /\ jobs[j].at = "work"
  /\ \/ /\ jobs' = [jobs EXCEPT ![j].at = "send"] /\ Fine
        /\ store' = IF pc = "data" THEN [store EXCEPT !.by = @ \cup {attempt}] ELSE store
     \/ /\ pc = "data" \/ ~SkipChecksum
        /\ Bad("fail") \/ ((Broken \/ cancelled) /\ Fine)
        /\ jobs' = [jobs EXCEPT ![j].at = "failed"] /\ UNCHANGED store
  /\ UNCHANGED <<JobVars, wr, ddlLost>>
\* MetaWriter.Send: into the channel; or the error of a flush; or, when the
\* writer is gone, the nil of its closed error channel
JobSends(j) ==
  /\ jobs[j].at = "send" /\ jobs[j].left # <<>> /\ Fine
  /\ \/ /\ Len(wr.ch) < ChCap
        /\ wr' = [wr EXCEPT !.ch = Append(@, Head(jobs[j].left))]
        /\ jobs' = [jobs EXCEPT ![j].left = Tail(@)] /\ UNCHANGED ddlLost
     \/ /\ wr.at = "err" /\ wr' = [wr EXCEPT !.at = "loop"]
        /\ IF pc = "ddl" THEN jobs' = [jobs EXCEPT ![j].left = Tail(@)] /\ ddlLost' = TRUE
           ELSE jobs' = [jobs EXCEPT ![j].at = "failed"] /\ UNCHANGED ddlLost
     \/ /\ wr.at = "gone" /\ jobs' = [jobs EXCEPT ![j].left = Tail(@)] /\ UNCHANGED <<wr, ddlLost>>
  /\ UNCHANGED <<JobVars, store>>

\* the stage is over: an error of a goroutine, or FinishWriteMetas closes metasCh
Join ==
  /\ pc \in Op /\ \A j \in DOMAIN jobs : Over(j)
  /\ IF Broken THEN Error ELSE pc' = "close " \o pc /\ UNCHANGED <<result, success, pd>>
  /\ Fine /\ UNCHANGED <<task, attempt, cancelled, writerVars, store>>

----------------------------------------------------------------------------
(* MetaWriter.                                                             *)

Closing == pc \in {"close ddl", "close data", "close schema"}
OpNow == CASE pc \in {"ddl", "close ddl"} -> "ddl"
           [] pc \in {"data", "close data"} -> "data"
           [] OTHER -> "schema"

AppendItem(buf, op, x) == [buf EXCEPT ![op] = Append(@, x)]
NeedFlush(buf, op) == Len(buf[op]) > SizeLimit
\* flushMetasV2 with the items of op: a metafile of its own
MutFlushed(op, buf) ==
  /\ store' = [store EXCEPT !.files = Append(@, wr.buf[op]), !.by = @ \cup {attempt}]
  /\ meta' = [meta EXCEPT !.index[op] = Append(@, Len(store.files) + 1)]
  /\ wr' = [wr EXCEPT !.buf = [o \in Op |-> <<>>], !.ch = Tail(@)]
Flushed(op, buf) ==
  /\ store' = [store EXCEPT !.files = Append(@, buf[op]), !.by = @ \cup {attempt}]
  /\ meta' = [meta EXCEPT !.index[op] = Append(@, Len(store.files) + 1)]
  /\ wr' = [wr EXCEPT !.buf = [o \in Op |-> <<>>], !.ch = Tail(@)]
Fetch ==
  /\ wr.at = "loop" /\ wr.ch # <<>>
  /\ LET op == OpNow
         buf == AppendItem(wr.buf, op, Head(wr.ch))
     IN IF task.v2 /\ NeedFlush(buf, op)
        THEN \/ Flushed(op, buf) /\ Fine
             \/ /\ Bad("fail") /\ UNCHANGED <<store, meta>>
                /\ wr' = [wr EXCEPT !.at = "err", !.buf = buf, !.ch = Tail(@)]
        ELSE /\ wr' = [wr EXCEPT !.buf = buf, !.ch = Tail(@)]
             /\ Fine /\ UNCHANGED <<store, meta>>
  /\ UNCHANGED <<task, runVars, jobs, pd, ddlLost>>
\* metasCh is closed and empty, or ctx is done
WriterExits ==
  /\ wr.at = "loop" /\ ((Closing /\ wr.ch = <<>>) \/ cancelled)
  /\ wr' = [wr EXCEPT !.at = "gone"] /\ Fine
  /\ UNCHANGED <<task, runVars, jobs, meta, store, pd, ddlLost>>
Writer == (pc \in Op \/ Closing) /\ (Fetch \/ WriterExits)

----------------------------------------------------------------------------
(* FinishWriteMetas.                                                       *)

AfterClose ==
  CASE pc = "close ddl" -> "data stage"
    [] pc = "close data" -> IF task.raw THEN "fast" ELSE "schema stage"
    [] OTHER -> IF task.tables = 0 THEN "nothing" ELSE "fast"
\* the last metafile of version 2
FinishV2 ==
  /\ Closing /\ wr.at = "gone" /\ task.v2 /\ wr.buf[OpNow] # <<>>
  /\ \/ /\ Fine /\ UNCHANGED <<pc, result, success, pd, jobs, ddlLost>>
        /\ store' = [store EXCEPT !.files = Append(@, wr.buf[OpNow]), !.by = @ \cup {attempt}]
        /\ meta' = [meta EXCEPT !.index[OpNow] = Append(@, Len(store.files) + 1)]
        /\ wr' = [wr EXCEPT !.buf = [o \in Op |-> <<>>]]
     \/ Bad("fail") /\ Error /\ UNCHANGED <<store, writerVars>>
  /\ UNCHANGED <<task, attempt, cancelled>>
\* flushBackupMeta; RunBackup stamps the meta with the versions after the data,
\* RunBackupRaw before it finishes
RawStamp == task.raw
FinalMeta ==
  IF task.v2 THEN [meta EXCEPT !.v2 = TRUE]
  ELSE [meta EXCEPT ![OpNow] = wr.buf[OpNow], !.stamped = @ \/ RawStamp]
FlushBackupMeta ==
  /\ Closing /\ wr.at = "gone" /\ (task.v2 => wr.buf[OpNow] = <<>>)
  /\ \/ /\ Fine /\ store' = [store EXCEPT !.meta = {FinalMeta}, !.by = @ \cup {attempt}]
        /\ meta' = [FinalMeta EXCEPT !.stamped = @ \/ pc = "close data"]
        /\ pc' = AfterClose /\ UNCHANGED <<result, success, pd, jobs, wr, ddlLost>>
     \/ Bad("fail") /\ Error /\ UNCHANGED <<store, writerVars>>
  /\ UNCHANGED <<task, attempt, cancelled>>

NextStage ==
  /\ \/ pc = "data stage" /\ StartStage("data")
     \/ pc = "schema stage" /\ StartStage("schema")
  /\ Fine /\ UNCHANGED <<task, attempt, result, success, cancelled, meta, ddlLost, store, pd>>
\* nothing to back up: the error of FinishWriteMetas, and no success status
Nothing ==
  /\ pc = "nothing" /\ Return("ok") /\ Fine
  /\ UNCHANGED <<task, attempt, success, cancelled, writerVars, store>>

----------------------------------------------------------------------------
(* FastChecksum, with MetaReader.                                          *)

\* what the meta holds of a kind, with the metafiles it points to
Read(m, op) == m[op] \o FlattenSeq([i \in 1..Len(m.index[op]) |-> store.files[m.index[op][i]]])
ReadDDLs(m) == Read(m, "ddl")
FilesOf(m, t) == SelectSeq(Read(m, "data"), LAMBDA x : task.of[x[1]] = t)
Matches(m, s) == Range(FilesOf(m, s.table)) = s.sum /\ Len(FilesOf(m, s.table)) = Cardinality(s.sum)
Good == \A i \in 1..Len(Read(meta, "schema")) : Matches(meta, Read(meta, "schema")[i])
Succeed == Return("ok") /\ success' = TRUE
FastChecksum ==
  /\ pc = "fast"
  /\ \/ (SkipChecksum \/ Good) /\ Succeed /\ Fine
     \/ ~SkipChecksum /\ ~Good /\ Error /\ Fine
     \/ ~SkipChecksum /\ cancelled /\ Error /\ Fine
     \* a metafile cannot be read: the error waits for a receiver that is not
     \* there, unless the reader of the schemas sees its channel closed first
     \/ /\ ~SkipChecksum /\ task.v2 /\ Bad("fail")
        /\ \/ pc' = "hang" /\ UNCHANGED <<result, success, pd>>
           \/ Succeed
  /\ UNCHANGED <<task, attempt, cancelled, writerVars, store>>

----------------------------------------------------------------------------
(* The keeper, PD and GC.                                                  *)

PDVars == <<task, attempt, success, cancelled, writerVars, store>>
\* a third of the TTL passes
TimePasses ==
  /\ pd.on /\ ~pd.due /\ task.gc
  /\ pd' = [pd EXCEPT !.due = TRUE, !.age = IF @ < Factor THEN @ + 1 ELSE @]
  /\ UNCHANGED <<PDVars, pc, result, luck>>
KeeperUpdates ==
  /\ pd.on /\ pd.due
  /\ \/ pd' = Registered(SafePoint) /\ Fine
     \/ Bad("fail") /\ pd' = [pd EXCEPT !.due = FALSE, !.missed = @ + 1]
  /\ UNCHANGED <<PDVars, pc, result>>
\* every few seconds: log.Panic
KeeperPanics ==
  /\ pd.on /\ Exceeded(SafePoint) /\ Return("panic") /\ Fine
  /\ UNCHANGED PDVars
Expires ==
  /\ pd.svc /\ pd.age >= Factor /\ pd' = [pd EXCEPT !.svc = FALSE]
  /\ UNCHANGED <<PDVars, pc, result, luck>>
GC ==
  /\ task.gc /\ pc # "done"
  /\ \E v \in (pd.gc + 1)..MaxTS : (pd.svc => v <= pd.sp) /\ pd' = [pd EXCEPT !.gc = v]
  /\ UNCHANGED <<PDVars, pc, result, luck>>
Environment == TimePasses \/ KeeperUpdates \/ KeeperPanics \/ Expires \/ GC

----------------------------------------------------------------------------
Main ==
  \/ SetStorage \/ SetLockFile \/ GetTS \/ KeeperCheck \/ Register \/ RemoveSchedulers
  \/ Build \/ BuildRaw \/ Join \/ FinishV2 \/ FlushBackupMeta \/ NextStage \/ Nothing \/ FastChecksum
Job(j) == pc \in Op /\ (JobStarts(j) \/ JobWorks(j) \/ JobSends(j))

Next ==
  \/ Main \/ Writer \/ (\E j \in DOMAIN jobs : Job(j))
  \/ Environment \/ Crash \/ Cancel \/ Again

\* goroutines that can run do; the first attempt need not be followed by another
Fair == WF_vars(Main) /\ WF_vars(Writer) /\ WF_vars(\E j \in DOMAIN jobs : Job(j))
Spec == Init /\ [][Next]_vars
FairSpec == Spec /\ Fair

----------------------------------------------------------------------------
(* Properties.                                                             *)

Once(s, all) == Range(s) = all /\ Len(s) = Cardinality(all)
\* A backup reported as successful can be read back from the storage: the
\* backupmeta with its metafiles holds every file of every range, every schema
\* and every DDL job once, in whatever batches they were flushed (MetaWriter,
\* RunBackup).  Not claimed after a cancellation, when Send drops what it is
\* given, and for DDL jobs when a flush failed.
BackupIsComplete ==
  success /\ ~cancelled =>
    \E m \in store.meta :
      /\ m.stamped
      /\ Once(Read(m, "data"), UNION {Range(ItemsOf(r)) : r \in Ranges})
      /\ Once(Read(m, "schema"), {Schema(t) : t \in 1..task.tables})
      /\ ddlLost \/ Once(ReadDDLs(m), IF task.last > 0 THEN 1..task.ddls ELSE {})

\* What is on the storage was written by one attempt: wherever the first one
\* stopped or crashed, a second one at the same path is refused once anything
\* has been written (SetStorage, SetLockFile).  A raw backup sets no lock.
OneBackupPerPath == task.raw \/ Cardinality(store.by) <= 1

\* GC passes the safe point of a running backup only when PD had refused it
\* already, or two updates failed in a row (StartServiceSafePointKeeper).
SafePointHeld == pd.on /\ Exceeded(SafePoint) => pd.refused \/ pd.missed >= 2

\* RunBackup returns, unless the writer waits to report a failed flush that no
\* Send is left to receive, or FastChecksum waits for a reader that failed.
WriterStuck == Closing /\ wr.at = "err"
Returned == pc = "done" \/ pc = "hang" \/ WriterStuck
RunReturns == <>[]Returned
====
