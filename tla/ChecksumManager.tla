---- MODULE ChecksumManager ----
(***************************************************************************)
(* The post process of the tables of an import - auto increment, checksum, *)
(* analyze - run by several workers, with the manager that keeps the       *)
(* snapshot of a running checksum from being garbage collected: a service  *)
(* safe point in PD that has to be renewed (PD 4 and later), or a longer   *)
(* tikv_gc_life_time (earlier).                                            *)
(***************************************************************************)
EXTENDS Integers, Sequences, FiniteSets, FiniteSetsExt, Bags, BagsExt

CONSTANTS
  Plans,      \* what happens: see MCChecksumManager
  Tables,
  Layout,     \* of a table: its physical ids and its indices, public or not
  MaxNow,     \* bound of the clock, in periods of the safe point keeper
  TTL,        \* serviceSafePointTTL in these periods: preUpdateServiceSafePointFactor
  LongLife,   \* defaultGCLifeTime
  MaxErrorRetry, MinConcurrency

VARIABLES
  plan,
  now,
  gc,        \* the cluster is garbage collected up to here
  lifeTime,  \* tikv_gc_life_time
  service,   \* the service safe point in PD: its ts, 0 for none, and its age
  heap,      \* tableGCSafeTS
  current,   \* currentTS
  keeper,    \* the goroutine of start: "off", "idle", "due", or the ts it sends
  running,   \* runningJobs
  oriLife,   \* oriGCLifeTime
  unrestored,\* an update of tikv_gc_life_time failed
  slots,     \* checksumWorks
  job,
  sharedErr, \* err of restoreTables
  restoreErr,
  crashed

vars == <<plan, now, gc, lifeTime, service, heap, current, keeper, running, oriLife, unrestored, slots, job,
          sharedErr, restoreErr, crashed>>
gcVars == <<gc, lifeTime, service, heap, current, keeper, running, oriLife, unrestored>>
endVars == <<sharedErr, restoreErr, crashed>>

\* a request scans the records, or one index, of one physical table
TableRequest(id) == <<id, 0>>
IndexRequest(id, i) == <<id, i>>
\* buildRequest: indices that are not public are left out
BuildRequest(t, id) ==
  {TableRequest(id)} \cup {IndexRequest(id, i) : i \in {x \in DOMAIN Layout[t].indices : Layout[t].indices[x]}}
\* buildChecksumRequest: the table and its partitions
Requests(t) == UNION {BuildRequest(t, id) : id \in Layout[t].ids}

\* the tables of the last round have been altered in the first
NewJob == [pc |-> IF plan.atLast THEN "apply" ELSE "alter", ts |-> 0, todo |-> {}, got |-> EmptyBag, tries |-> 0, conc |-> 0, failed |-> FALSE]

Init ==
  /\ plan \in Plans
  /\ now = 1 /\ gc = 0 /\ lifeTime = plan.life /\ service = [ts |-> 0, age |-> 0]
  /\ heap = {} /\ current = 0 /\ keeper = "off" /\ running = 0 /\ oriLife = 0 /\ unrestored = FALSE
  /\ slots = plan.slots /\ job = [t \in Tables |-> NewJob]
  /\ sharedErr = "nil" /\ restoreErr = "nil" /\ crashed = FALSE

At(t, pc) == ~crashed /\ job[t].pc = pc
Goto(t, pc) == job' = [job EXCEPT ![t].pc = pc]

\* postProcess returns: its error goes to the err all workers share, or to one of
\* the worker's own
Returned(j, failed) == [j EXCEPT !.pc = "returned", !.failed = failed]
Return(t, failed) == job' = [job EXCEPT ![t] = Returned(@, failed)]

\* a step of a service may fail while the plan has faults left
Faulty == plan.faults > 0 /\ plan' = [plan EXCEPT !.faults = @ - 1]

\* alter table auto_increment, under alterTableLock
AlterAutoIncrement(t) ==
  /\ At(t, "alter")
  /\ \/ Goto(t, "apply") /\ UNCHANGED plan
     \/ Faulty /\ Return(t, TRUE)
  /\ UNCHANGED <<now, slots>> /\ UNCHANGED gcVars /\ UNCHANGED endVars

\* checksumWorks.Apply; without checksums the table is analyzed next
ApplyWorker(t) ==
  /\ At(t, "apply") /\ slots > 0 /\ slots' = slots - 1
  /\ Goto(t, IF plan.level = "off" THEN "analyze" ELSE "check")
  /\ UNCHANGED <<plan, now>> /\ UNCHANGED gcVars /\ UNCHANGED endVars
\* the deferred Recycle
Recycle(t) == slots + 1

\* CheckAndUpdateLocalChecksum: an error, another task checksums, or this one does
CheckLocal(t) ==
  /\ At(t, "check")
  /\ \/ Goto(t, "add") /\ UNCHANGED <<plan, slots>>
     \/ Return(t, FALSE) /\ slots' = Recycle(t) /\ UNCHANGED plan
     \/ Faulty /\ Return(t, TRUE) /\ slots' = Recycle(t)
  /\ UNCHANGED now /\ UNCHANGED gcVars /\ UNCHANGED endVars

----------------------------------------------------------------------------
(* gcTTLManager                                                            *)

\* external: PD takes a service safe point that is not behind the collection, and
\* says nothing when it does not
PDUpdate(ts) == service' = IF ts >= gc THEN [ts |-> ts, age |-> 0] ELSE service
Top(h) == Min({j.ts : j \in h})

\* the ts of the job is read off the clock; the first job starts the keeper
AddCall(t) ==
  /\ At(t, "add") /\ plan.v4
  /\ job' = [job EXCEPT ![t].pc = "lock", ![t].ts = now]
  /\ keeper' = IF keeper = "off" THEN "idle" ELSE keeper
  /\ UNCHANGED <<plan, now, gc, lifeTime, service, heap, current, running, oriLife, unrestored, slots>> /\ UNCHANGED endVars
\* the rest of addOneJob, under the lock: PD is told when the top of the heap falls
AddJob(t) ==
  /\ At(t, "lock")
  /\ LET h == heap \cup {[table |-> t, ts |-> job[t].ts]} IN
     /\ heap' = h /\ current' = Top(h)
     /\ IF heap = {} \/ Top(h) < Top(heap)
        THEN \/ PDUpdate(Top(h)) /\ Goto(t, "tso") /\ UNCHANGED plan
             \/ Faulty /\ Goto(t, "nil") /\ UNCHANGED service
        ELSE Goto(t, "tso") /\ UNCHANGED <<service, plan>>
  /\ UNCHANGED <<now, gc, lifeTime, keeper, running, oriLife, unrestored, slots>> /\ UNCHANGED endVars

\* updateGCTTL of the keeper: currentTS is read under the lock and sent without it
KeeperReads ==
  /\ keeper = "due" /\ ~crashed /\ keeper' = IF current > 0 THEN "send" ELSE "idle"
  /\ UNCHANGED <<plan, now, gc, lifeTime, service, heap, current, running, oriLife, unrestored, slots, job>>
  /\ UNCHANGED endVars
KeeperSends ==
  /\ keeper = "send" /\ ~crashed /\ keeper' = "idle"
  /\ \/ PDUpdate(current) /\ UNCHANGED plan
     \/ Faulty /\ UNCHANGED service
  /\ UNCHANGED <<now, gc, lifeTime, heap, current, running, oriLife, unrestored, slots, job>> /\ UNCHANGED endVars

----------------------------------------------------------------------------
(* gcLifeTimeManager                                                       *)

\* addOneJob: the first job saves the life time and raises it to the default
AddLife(t) ==
  /\ At(t, "add") /\ ~plan.v4
  /\ IF running > 0
     THEN running' = running + 1 /\ Goto(t, "tso") /\ UNCHANGED <<plan, lifeTime, oriLife, unrestored>>
     ELSE /\ oriLife' = lifeTime
          /\ \/ running' = 1 /\ lifeTime' = Max({lifeTime, LongLife}) /\ Goto(t, "tso") /\ UNCHANGED <<plan, unrestored>>
             \/ Faulty /\ Goto(t, "nil") /\ lifeTime' \in {lifeTime, Max({lifeTime, LongLife})}
                /\ unrestored' = TRUE /\ UNCHANGED running
  /\ UNCHANGED <<now, gc, service, heap, current, keeper, slots>> /\ UNCHANGED endVars
\* removeOneJob, deferred: the last job puts it back; gcTTLManager's is never called
RemoveLife(t) ==
  /\ At(t, "remove")
  /\ IF plan.v4 THEN UNCHANGED <<running, lifeTime, unrestored, plan>>
     ELSE /\ running' = running - 1
          /\ IF running > 1 THEN UNCHANGED <<lifeTime, unrestored, plan>>
             ELSE \/ lifeTime' = oriLife /\ UNCHANGED <<unrestored, plan>>
                  \/ Faulty /\ unrestored' = TRUE /\ UNCHANGED lifeTime
  /\ Goto(t, IF job[t].failed THEN "nil" ELSE "compare")
  /\ UNCHANGED <<now, gc, service, heap, current, keeper, oriLife, slots>> /\ UNCHANGED endVars

----------------------------------------------------------------------------
(* The checksum itself.                                                    *)

\* checksumDB: the snapshot, and the requests of the executor
GetTS(t) ==
  /\ At(t, "tso")
  /\ job' = [job EXCEPT ![t] = [@ EXCEPT !.pc = "exec", !.ts = now, !.todo = Requests(t), !.conc = plan.conc]]
  /\ UNCHANGED <<plan, now, slots>> /\ UNCHANGED gcVars /\ UNCHANGED endVars
\* Execute starts again, with half the concurrency
Retry(j, t) ==
  [j EXCEPT !.tries = @ + 1, !.todo = Requests(t), !.got = EmptyBag,
            !.conc = IF @ > MinConcurrency THEN Max({@ \div 2, MinConcurrency}) ELSE @]
\* one request: its answer is added, or the whole execution fails
Execute(t) ==
  /\ At(t, "exec")
  /\ IF job[t].todo = {} THEN Goto(t, "remove") /\ UNCHANGED plan
     ELSE \/ /\ LET r == CHOOSE r \in job[t].todo : \A q \in job[t].todo : r[1] < q[1] \/ (r[1] = q[1] /\ r[2] <= q[2]) IN
                  job' = [job EXCEPT ![t].todo = @ \ {r}, ![t].got = @ (+) SetToBag({r})]
             /\ UNCHANGED plan
          \/ Faulty /\ IF job[t].tries + 1 < MaxErrorRetry
                       THEN job' = [job EXCEPT ![t] = Retry(@, t)]
                       ELSE job' = [job EXCEPT ![t].pc = "remove", ![t].failed = TRUE]
          \* not retryable
          \/ Faulty /\ job' = [job EXCEPT ![t].pc = "remove", ![t].failed = TRUE]
  /\ UNCHANGED <<now, slots>> /\ UNCHANGED gcVars /\ UNCHANGED endVars
\* DoChecksum failed: its error is overwritten by compareChecksum, which looks into
\* the result that is nil
CompareNil(t) ==
  /\ At(t, "nil") /\ crashed' = TRUE
  /\ UNCHANGED <<plan, now, slots, job, sharedErr, restoreErr>> /\ UNCHANGED gcVars
\* compareChecksum and FinishTable: with "optional" a mismatch is skipped
Compare(t) ==
  /\ At(t, "compare")
  /\ \/ Goto(t, "analyze") /\ UNCHANGED <<plan, slots>>
     \/ Faulty /\ IF plan.level = "optional" THEN Goto(t, "analyze") /\ UNCHANGED slots
                  ELSE Return(t, TRUE) /\ slots' = Recycle(t)
  /\ UNCHANGED now /\ UNCHANGED gcVars /\ UNCHANGED endVars
Analyze(t) ==
  /\ At(t, "analyze") /\ slots' = Recycle(t)
  /\ \/ Return(t, FALSE) /\ UNCHANGED plan
     \/ Faulty /\ Return(t, plan.analyze = "required")
  /\ UNCHANGED now /\ UNCHANGED gcVars /\ UNCHANGED endVars

\* restoreErr.Set keeps the first error
SetErr(e) == restoreErr' = IF restoreErr = "nil" THEN e ELSE restoreErr
ErrOf(t) == IF job[t].failed THEN "error" ELSE "nil"
\* a worker of restoreTable sets its own err; one of the last round assigns the err
\* of restoreTables, which its goroutine shares
Assign(t) ==
  /\ At(t, "returned")
  /\ IF plan.atLast THEN sharedErr' = ErrOf(t) /\ Goto(t, "set") /\ UNCHANGED restoreErr
     ELSE SetErr(ErrOf(t)) /\ Goto(t, "done") /\ UNCHANGED sharedErr
  /\ UNCHANGED <<plan, now, slots, crashed>> /\ UNCHANGED gcVars
SetShared(t) ==
  /\ At(t, "set") /\ SetErr(sharedErr) /\ Goto(t, "done")
  /\ UNCHANGED <<plan, now, slots, sharedErr, crashed>> /\ UNCHANGED gcVars

----------------------------------------------------------------------------
(* Time, the expiry of a service safe point (when it is older than its     *)
(* TTL) and the garbage collector: external.                               *)

\* time that matters: a snapshot is read; everything else takes less than a period
Tick ==
  /\ \E t \in Tables : At(t, "exec")
  /\ \A t \in Tables : job[t].pc \notin {"lock", "tso", "nil"}
  /\ now < MaxNow /\ keeper \in {"off", "idle"} /\ now' = now + 1
  /\ keeper' = IF keeper = "idle" THEN "due" ELSE keeper
  /\ service' = IF service.ts = 0 THEN service
                ELSE IF service.age + 1 > TTL THEN [ts |-> 0, age |-> 0] ELSE [service EXCEPT !.age = @ + 1]
  /\ UNCHANGED <<plan, gc, lifeTime, heap, current, running, oriLife, unrestored, slots, job>> /\ UNCHANGED endVars
Collect ==
  LET upTo == Min({now - lifeTime} \cup (IF service.ts = 0 THEN {} ELSE {service.ts})) IN
  /\ upTo > gc /\ gc' = upTo
  /\ UNCHANGED <<plan, now, lifeTime, service, heap, current, keeper, running, oriLife, unrestored, slots, job>>
  /\ UNCHANGED endVars

TableStep(t) ==
  \/ AlterAutoIncrement(t) \/ ApplyWorker(t) \/ CheckLocal(t) \/ AddCall(t) \/ AddJob(t) \/ AddLife(t) \/ RemoveLife(t)
  \/ GetTS(t) \/ Execute(t) \/ CompareNil(t) \/ Compare(t) \/ Analyze(t) \/ Assign(t) \/ SetShared(t)
Next == (\E t \in Tables : TableStep(t)) \/ KeeperReads \/ KeeperSends \/ Tick \/ Collect
Spec == Init /\ [][Next]_vars
FairSpec == Spec /\ \A t \in Tables : WF_vars(TableStep(t))

----------------------------------------------------------------------------
(* Properties.                                                             *)

\* The snapshot a checksum reads is not collected while it is read: neither by a
\* renewal that crossed a new job, a failed one, nor the end of another table's
\* checksum.
SnapshotKept == \A t \in Tables : job[t].pc = "exec" => gc <= job[t].ts

\* A checksum that succeeds has summed up every key range of the table once, however
\* often the executor started again.
ChecksumCovers == \A t \in Tables : job[t].pc = "compare" => job[t].got = SetToBag(Requests(t))

\* When the last checksum is over tikv_gc_life_time is what it was, unless an update
\* of it failed; while one runs it is the longer one.
LifeTimeRestored ==
  /\ (running = 0 /\ ~unrestored) => lifeTime = plan.life
  /\ (running > 0 /\ ~unrestored) => lifeTime = Max({plan.life, LongLife})
  /\ running = Cardinality({t \in Tables : ~plan.v4 /\ job[t].pc \in {"tso", "exec", "remove"}})

\* The post process of every table returns: no table waits forever for a worker.
AllDone == crashed \/ \A t \in Tables : job[t].pc = "done"
PostProcessReturns == <>[]AllDone

Mismatched(t) == job[t].failed /\ job[t].got = SetToBag(Requests(t))
\* "if checksum fails, lightning will exit with failure" (tidb-lightning.toml): the
\* error of a table whose checksum does not match is the error of restoreTables.
FailureReported ==
  (\A t \in Tables : job[t].pc = "done") => ((\E t \in Tables : Mismatched(t)) => restoreErr = "error")
====
