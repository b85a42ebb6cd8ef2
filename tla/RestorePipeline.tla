--------------------------- MODULE RestorePipeline ---------------------------
(***************************************************************************)
(* `br restore`: RunRestore (pkg/task/restore.go) and the goroutines that  *)
(* create the tables, attach their ranges, batch them (Batcher), split and *)
(* restore the batches (tikvSender), release the restored tables           *)
(* (contextCleaner, brContextManager) and validate their checksums, with   *)
(* the switch of TiKV to import mode and of PD's schedulers around them.   *)
(*                                                                         *)
(* A goroutine is a name with a program counter.  Channels are queues; the *)
(* ones with room for 1024 elements are unbounded here.  The ranges of a   *)
(* table are restored in order, so that a number of ranges is enough.      *)
(***************************************************************************)
EXTENDS Integers, Sequences, FiniteSets, SequencesExt

CONSTANTS
  Plans,        \* what to restore, how, and the faults to expect
  Threshold     \* Batcher.batchSizeThreshold

VARIABLES
  conf,         \* the plan: the ranges of each table, RestoreConfig.Online, and
                \* bounds on failing steps and cancellations from outside
  pc,           \* the goroutines' program counters
  ch,           \* the channels between them
  errCh,        \* an error waits in errCh
  finish,       \* the finish channel holds a value
  result,       \* what RunRestore returns
  cancelled,    \* ctx.Done() is closed
  todo,         \* tables not created yet
  cached,       \* Batcher.cachedTables
  batch,        \* the batch the send worker is about to send
  goal,         \* the SendType the send worker is about
  hasTable,     \* brContextManager.hasTable
  rules,        \* the tables PD has a placement rule for
  restored,     \* ranges restored, by table
  checking, checked,   \* tables whose checksum is computed, is right
  mismatch,     \* a checksum failed
  mode,         \* the mode of TiKV
  removed,      \* PD's schedulers are removed
  raced,        \* RunRestore found an error and the end of the pipeline together
  fails, cancels

flow == <<todo, cached, batch, goal>>
outcome == <<restored, checking, checked, mismatch>>
cluster == <<hasTable, rules, mode, removed>>
ends == <<finish, result, raced>>
budget == <<fails, cancels>>
vars == <<conf, pc, ch, errCh, cancelled, flow, outcome, cluster, ends, budget>>

Goroutines == {"main", "create", "validate", "feed", "auto", "send", "split", "restore",
               "clean", "check", "switch"}
Channels == {"table", "range", "send", "in", "mid", "restored", "out"}

plan == conf.ranges
Tables == DOMAIN plan
online == conf.online
Size == FoldLeft(LAMBDA n, e : n + e.n, 0, cached)

----------------------------------------------------------------------------
(* Goroutines and channels.                                                *)

\* The process ends when RunRestore has returned.
Alive == pc["main"] \notin {"crashed", "returned"}
At(g, l) == Alive /\ pc[g] = l
Goto(g, l) == pc' = [pc EXCEPT ![g] = l] /\ UNCHANGED errCh

\* Send an error to errCh.  RunRestore, once it waits in its select, receives it
\* at once; before and after, the error stays in the channel, which has room.
GotoErr(g, l) ==
  IF pc["main"] = "select" THEN pc' = [pc EXCEPT ![g] = l, !["main"] = "error"] /\ UNCHANGED errCh
  ELSE pc' = [pc EXCEPT ![g] = l] /\ errCh' = TRUE

Ready(c) == ch[c].q # <<>>
Ended(c) == ch[c].q = <<>> /\ ~ch[c].open
Pushed(h, c, x) == [h EXCEPT ![c].q = Append(@, x)]
Popped(h, c) == [h EXCEPT ![c].q = Tail(@)]
Closed(h, c) == [h EXCEPT ![c].open = FALSE]

\* A step fails for a reason of its own, or because the context is cancelled.
MayFail == (fails < conf.fails /\ fails' = fails + 1) \/ (cancelled /\ UNCHANGED fails)

----------------------------------------------------------------------------
(* GoCreateTables and GoValidateFileRanges.                                *)

CreateTable(t) ==
  /\ pc["create"] \in {"run", "failed"} /\ Alive /\ t \in todo
  /\ todo' = todo \ {t} /\ ch' = Pushed(ch, "table", t)
  /\ UNCHANGED <<conf, pc, errCh, cancelled, cached, batch, goal, outcome, cluster, ends, budget>>

\* The first error cancels the group's context; tables on their way may still come.
CreateFails ==
  /\ At("create", "run") /\ todo # {} /\ MayFail /\ Goto("create", "failed")
  /\ UNCHANGED <<conf, ch, cancelled, flow, outcome, cluster, ends, cancels>>

CreateEnds ==
  /\ \/ At("create", "run") /\ todo = {} /\ Goto("create", "dead")
     \/ At("create", "failed") /\ GotoErr("create", "dead")
  /\ ch' = Closed(ch, "table")
  /\ UNCHANGED <<conf, cancelled, flow, outcome, cluster, ends, budget>>

ValidateTable ==
  /\ At("validate", "run") /\ Ready("table")
  /\ \/ /\ ch' = Popped(Pushed(ch, "range", Head(ch["table"].q)), "table")
        /\ UNCHANGED <<pc, errCh, fails>>
     \/ /\ fails < conf.fails /\ fails' = fails + 1
        /\ ch' = Closed(Popped(ch, "table"), "range") /\ GotoErr("validate", "dead")
  /\ UNCHANGED <<conf, cancelled, flow, outcome, cluster, ends, cancels>>

ValidateEnds ==
  /\ At("validate", "run")
  /\ \/ Ended("table") /\ Goto("validate", "dead")
     \/ cancelled /\ GotoErr("validate", "dead")
  /\ ch' = Closed(ch, "range")
  /\ UNCHANGED <<conf, cancelled, flow, outcome, cluster, ends, budget>>

----------------------------------------------------------------------------
(* restoreTableStream: Batcher.Add and Batcher.Close.                      *)

\* Add, sendIfFull and the check of asyncSend
FeedAdd ==
  /\ At("feed", "run") /\ Ready("range") /\ ch' = Popped(ch, "range")
  /\ LET t == Head(ch["range"].q)
     IN /\ cached' = Append(cached, [t |-> t, n |-> plan[t]])
        /\ Goto("feed", IF Size + plan[t] >= Threshold /\ ~Ready("send") THEN "put" ELSE "run")
  /\ UNCHANGED <<conf, cancelled, todo, batch, goal, outcome, cluster, ends, budget>>

SendCap == 2
Put(g, type, l) ==
  /\ Len(ch["send"].q) < SendCap /\ ch' = Pushed(ch, "send", type) /\ Goto(g, l)
  /\ UNCHANGED <<conf, cancelled, flow, outcome, cluster, ends, budget>>

FeedPut == At("feed", "put") /\ Put("feed", "until", "run")

FeedEnds ==
  /\ At("feed", "run")
  /\ \/ Ended("range") /\ Goto("feed", "join")
     \/ cancelled /\ GotoErr("feed", "join")
  /\ UNCHANGED <<conf, ch, cancelled, flow, outcome, cluster, ends, budget>>

\* joinAutoCommitWorker, an unbuffered send received only in the worker's select,
\* and the last request of waitUntilSendDone
Join ==
  /\ At("feed", "join") /\ pc["auto"] = "wait"
  /\ Len(ch["send"].q) < SendCap /\ ch' = Pushed(ch, "send", "close")
  /\ pc' = [pc EXCEPT !["feed"] = "wait", !["auto"] = "dead"] /\ UNCHANGED errCh
  /\ UNCHANGED <<conf, cancelled, flow, outcome, cluster, ends, budget>>

\* everythingIsDone.Wait, then close outCh and sendCh
FeedClose ==
  /\ At("feed", "wait") /\ pc["send"] = "dead" /\ pc["clean"] \in {"closing", "dead"}
  /\ ch' = Closed(Closed(ch, "out"), "send") /\ Goto("feed", "dead")
  /\ UNCHANGED <<conf, cancelled, flow, outcome, cluster, ends, budget>>

\* autoCommitWorker
AutoTick ==
  /\ At("auto", "wait") /\ Size > 0 /\ ~Ready("send") /\ Goto("auto", "put")
  /\ UNCHANGED <<conf, ch, cancelled, flow, outcome, cluster, ends, budget>>
AutoPut == At("auto", "put") /\ Put("auto", "all", "wait")
AutoEnds ==
  /\ At("auto", "wait") /\ cancelled /\ GotoErr("auto", "dead")
  /\ UNCHANGED <<conf, ch, cancelled, flow, outcome, cluster, ends, budget>>

----------------------------------------------------------------------------
(* sendWorker: drainRanges, brContextManager.Enter, RestoreBatch.          *)

NoBatch == [part |-> [t \in Tables |-> 0], to |-> {}, blank |-> {}]

\* What drainRanges takes: whole tables while they fit, then the beginning of
\* the next one.  It returns the batch and what is left in cachedTables.
Upto(i) == FoldLeft(LAMBDA n, e : n + e.n, 0, SubSeq(cached, 1, i))
Over == {i \in DOMAIN cached : Upto(i) > Threshold}
Cut == IF Over = {} THEN Len(cached) + 1 ELSE CHOOSE i \in Over : \A j \in Over : i <= j
Drained(i) == IF i < Cut THEN cached[i].n ELSE IF i = Cut THEN Threshold - Upto(i - 1) ELSE 0
\* Mutant: a table that is drained in part is called blank.
MutdrainRanges ==
  [taken |-> [part  |-> [t \in Tables |-> IF \E i \in DOMAIN cached : cached[i].t = t
                            THEN Drained(CHOOSE i \in DOMAIN cached : cached[i].t = t) ELSE 0],
              to    |-> {cached[i].t : i \in DOMAIN cached \cap 1 .. Cut},
              blank |-> {cached[i].t : i \in DOMAIN cached \cap 1 .. Cut}],
   left  |-> [i \in 1 .. Len(cached) - Cut + 1 |->
                [cached[Cut - 1 + i] EXCEPT !.n = @ - Drained(Cut - 1 + i)]]]
drainRanges ==
  [taken |-> [part  |-> [t \in Tables |-> IF \E i \in DOMAIN cached : cached[i].t = t
                            THEN Drained(CHOOSE i \in DOMAIN cached : cached[i].t = t) ELSE 0],
              to    |-> {cached[i].t : i \in DOMAIN cached \cap 1 .. Cut},
              blank |-> {cached[i].t : i \in 1 .. Cut - 1}],
   left  |-> [i \in 1 .. Len(cached) - Cut + 1 |->
                [cached[Cut - 1 + i] EXCEPT !.n = @ - Drained(Cut - 1 + i)]]]

SendRecv ==
  /\ At("send", "recv") /\ Ready("send")
  /\ goal' = Head(ch["send"].q) /\ ch' = Popped(ch, "send") /\ Goto("send", "loop")
  /\ UNCHANGED <<conf, cancelled, todo, cached, batch, outcome, cluster, ends, budget>>

\* one round of sendUntil; SendAllThenClose closes the sender's input at the end
SendLoop ==
  /\ At("send", "loop")
  /\ IF Size > (IF goal = "until" THEN Threshold ELSE 0)
     THEN /\ batch' = drainRanges.taken /\ cached' = drainRanges.left
          /\ Goto("send", "enter") /\ UNCHANGED ch
     ELSE /\ IF goal = "close" THEN ch' = Closed(ch, "in") /\ Goto("send", "close")
             ELSE UNCHANGED ch /\ Goto("send", "recv")
          /\ UNCHANGED <<batch, cached>>
  /\ UNCHANGED <<conf, cancelled, todo, goal, outcome, cluster, ends, budget>>

\* The tables Enter sees for the first time
New == batch.to \ hasTable

\* Enter: the map, then splitPrepareWork for the tables that are new in it, which
\* does nothing offline; then RestoreBatch
Enter ==
  /\ At("send", "enter")
  /\ hasTable' = hasTable \cup batch.to
  /\ IF online /\ New # {}
     THEN batch' = [batch EXCEPT !.to = New] /\ UNCHANGED ch /\ Goto("send", "prepare")
     ELSE batch' = NoBatch /\ ch' = Pushed(ch, "in", batch) /\ Goto("send", "loop")
  /\ UNCHANGED <<conf, cancelled, todo, cached, goal, outcome, rules, mode, removed, ends, budget>>

\* SetupPlacementRules and WaitPlacementSchedule: a failure leaves any of the rules
Prepare ==
  /\ At("send", "prepare") /\ batch' = NoBatch
  /\ \/ /\ rules' = rules \cup batch.to /\ ch' = Pushed(ch, "in", batch)
        /\ Goto("send", "loop") /\ UNCHANGED fails
     \/ /\ MayFail /\ GotoErr("send", "loop") /\ UNCHANGED ch
        /\ \E some \in SUBSET batch.to : rules' = rules \cup some
  /\ UNCHANGED <<conf, cancelled, todo, cached, goal, outcome, hasTable, mode, removed, ends, cancels>>

\* tikvSender.Close: wait for both workers
SenderClose ==
  /\ At("send", "close") /\ pc["split"] = "dead" /\ pc["restore"] = "dead" /\ Goto("send", "dead")
  /\ UNCHANGED <<conf, ch, cancelled, flow, outcome, cluster, ends, budget>>

----------------------------------------------------------------------------
(* splitWorker, restoreWorker, contextCleaner.                             *)

\* a worker ends, and closes the channel after it
End(g, c, next) ==
  /\ At(g, "run") /\ (cancelled \/ Ended(c)) /\ ch' = Closed(ch, next) /\ Goto(g, "dead")
  /\ UNCHANGED <<conf, cancelled, flow, outcome, cluster, ends, budget>>
\* EmitError, and the end of the worker.  Mutant: it ends without the error.
MutEmitError(g, c, next) ==
  /\ MayFail /\ ch' = Closed(Popped(ch, c), next) /\ Goto(g, "dead")
  /\ UNCHANGED <<conf, cancelled, flow, outcome, cluster, ends, cancels>>
EmitError(g, c, next) ==
  /\ MayFail /\ ch' = Closed(Popped(ch, c), next) /\ GotoErr(g, "dead")
  /\ UNCHANGED <<conf, cancelled, flow, outcome, cluster, ends, cancels>>

\* A batch stays in the channel it came from until the worker is done with it.
SplitRanges ==
  /\ At("split", "run") /\ Ready("in")
  /\ \/ /\ ch' = Popped(Pushed(ch, "mid", Head(ch["in"].q)), "in") /\ UNCHANGED <<pc, errCh>>
        /\ UNCHANGED <<conf, cancelled, flow, outcome, cluster, ends, budget>>
     \/ EmitError("split", "in", "mid")
SplitEnds == End("split", "in", "mid")

RestoreFiles ==
  /\ At("restore", "run") /\ Ready("mid")
  /\ \/ LET b == Head(ch["mid"].q)
        IN /\ restored' = [t \in Tables |-> restored[t] + b.part[t]]
           /\ ch' = Popped(Pushed(ch, "restored", b.blank), "mid") /\ UNCHANGED <<pc, errCh>>
           /\ UNCHANGED <<conf, cancelled, flow, checking, checked, mismatch, cluster, ends, budget>>
     \/ EmitError("restore", "mid", "restored")
RestoreEnds == End("restore", "mid", "restored")

\* Leave: splitPostWork, which only logs a failure, then the map, then outCh
Leave ==
  /\ At("clean", "run") /\ Ready("restored") /\ Goto("clean", "leave")
  /\ \/ rules' = rules \ Head(ch["restored"].q) /\ UNCHANGED fails
     \/ online /\ Head(ch["restored"].q) # {} /\ MayFail /\ UNCHANGED rules
  /\ UNCHANGED <<conf, ch, cancelled, flow, outcome, hasTable, mode, removed, ends, cancels>>
LeaveEmit ==
  /\ At("clean", "leave") /\ Goto("clean", "run")
  /\ LET blank == Head(ch["restored"].q)
     IN /\ hasTable' = hasTable \ blank
        /\ ch' = [Popped(ch, "restored") EXCEPT !["out"].q = @ \o SetToSeq(blank)]
  /\ UNCHANGED <<conf, cancelled, flow, outcome, rules, mode, removed, ends, budget>>

CleanEnds ==
  /\ At("clean", "run") /\ (cancelled \/ Ended("restored")) /\ Goto("clean", "closing")
  /\ UNCHANGED <<conf, ch, cancelled, flow, outcome, cluster, ends, budget>>
\* manager.Close
ManagerClose ==
  /\ At("clean", "closing") /\ Goto("clean", "dead") /\ rules' = rules \ hasTable
  /\ UNCHANGED <<conf, ch, cancelled, flow, outcome, hasTable, mode, removed, ends, budget>>

\* hasTable is a Go map without a lock: the runtime may end a process in which
\* the send worker and the cleaner are in it at the same time.
ConcurrentMap ==
  /\ At("send", "enter") /\ pc["clean"] = "leave" /\ Head(ch["restored"].q) # {}
  /\ Goto("main", "crashed")
  /\ UNCHANGED <<conf, ch, cancelled, flow, outcome, cluster, ends, budget>>

----------------------------------------------------------------------------
(* GoValidateChecksum.                                                     *)

\* its select goes on after ctx.Done(), sending errors until the stream ends
Validating == Alive /\ pc["check"] \in {"run", "seen"}

CheckTake ==
  /\ Validating /\ Ready("out")
  /\ checking' = checking \cup {Head(ch["out"].q)} /\ ch' = Popped(ch, "out")
  /\ UNCHANGED <<conf, pc, errCh, cancelled, flow, restored, checked, mismatch, cluster, ends, budget>>

\* execChecksum
Checksum(t) ==
  /\ Alive /\ t \in checking /\ checking' = checking \ {t}
  /\ \/ /\ restored[t] = plan[t] /\ checked' = checked \cup {t} /\ UNCHANGED <<mismatch, fails>>
     \/ /\ (MayFail \/ (restored[t] # plan[t] /\ UNCHANGED fails))
        /\ mismatch' = TRUE /\ UNCHANGED checked
  /\ UNCHANGED <<conf, pc, ch, errCh, cancelled, flow, restored, cluster, ends, cancels>>

CheckCancelled ==
  /\ At("check", "run") /\ cancelled /\ GotoErr("check", "seen")
  /\ UNCHANGED <<conf, ch, cancelled, flow, outcome, cluster, ends, budget>>

CheckEnds ==
  /\ Validating /\ Ended("out") /\ checking = {}
  /\ IF mismatch THEN GotoErr("check", "finish") ELSE Goto("check", "finish")
  /\ UNCHANGED <<conf, ch, cancelled, flow, outcome, cluster, ends, budget>>

Finish ==
  /\ At("check", "finish")
  /\ IF pc["main"] = "select"
     THEN pc' = [pc EXCEPT !["check"] = "dead", !["main"] = "ok"] /\ UNCHANGED finish
     ELSE pc' = [pc EXCEPT !["check"] = "dead"] /\ finish' = TRUE
  /\ UNCHANGED <<conf, ch, errCh, cancelled, flow, outcome, cluster, result, raced, budget>>

----------------------------------------------------------------------------
(* RunRestore, from the start of GoCreateTables.                           *)

\* restorePreWork.  An error of RemoveSchedulers returns before the post-work is
\* deferred, and without the undo function of what was removed.
PreWork ==
  /\ At("main", "prework")
  /\ \/ /\ online /\ Goto("main", "resetts") /\ UNCHANGED <<removed, result, fails>>
     \/ /\ ~online /\ removed' = TRUE /\ UNCHANGED <<result, fails, errCh>>
        /\ pc' = [pc EXCEPT !["main"] = "resetts", !["switch"] = "request"]
     \/ /\ ~online /\ MayFail /\ removed' \in BOOLEAN /\ result' = "refused" /\ UNCHANGED errCh
        /\ pc' = [pc EXCEPT !["main"] = "return", !["switch"] = "request"]
  /\ UNCHANGED <<conf, ch, cancelled, flow, outcome, hasTable, rules, mode, finish, raced, cancels>>

\* ResetTS, then NewTiKVSender, NewBatcher, EnableAutoCommit, restoreTableStream
\* and GoValidateChecksum.
StartPipeline ==
  /\ At("main", "resetts")
  /\ \/ /\ pc' = [pc EXCEPT !["main"] = "enter", !["feed"] = "run", !["auto"] = "wait", !["send"] = "recv",
                           !["split"] = "run", !["restore"] = "run", !["clean"] = "run", !["check"] = "run"]
        /\ UNCHANGED <<errCh, fails>>
     \/ MayFail /\ Goto("main", "error")
  /\ UNCHANGED <<conf, ch, cancelled, flow, outcome, cluster, ends, cancels>>

\* The select on errCh and finish: it waits only when neither is ready.
Select ==
  /\ At("main", "enter")
  /\ \/ errCh /\ Goto("main", "error")
     \/ finish /\ Goto("main", "ok")
     \/ ~errCh /\ ~finish /\ Goto("main", "select")
  /\ raced' = (errCh /\ finish)
  /\ UNCHANGED <<conf, ch, cancelled, flow, outcome, cluster, finish, result, budget>>

\* restorePostWork: SwitchToNormalMode closes switchCh and sends the request,
\* then the schedulers are restored.
PostWork ==
  /\ Alive /\ pc["main"] \in {"ok", "error"} /\ result' = pc["main"]
  /\ Goto("main", IF online THEN "return" ELSE "normal")
  /\ UNCHANGED <<conf, ch, cancelled, flow, outcome, cluster, finish, raced, budget>>
SwitchToNormal ==
  /\ At("main", "normal") /\ mode' = "normal" /\ Goto("main", "schedulers")
  /\ UNCHANGED <<conf, ch, cancelled, flow, outcome, hasTable, rules, removed, ends, budget>>
RestoreSchedulers ==
  /\ At("main", "schedulers") /\ removed' = FALSE /\ Goto("main", "return")
  /\ UNCHANGED <<conf, ch, cancelled, flow, outcome, hasTable, rules, mode, ends, budget>>
\* the deferred cancel
Return ==
  /\ At("main", "return") /\ cancelled' = TRUE /\ Goto("main", "returned")
  /\ UNCHANGED <<conf, ch, flow, outcome, cluster, ends, budget>>

\* SwitchToImportMode's goroutine: the first request, then one every tick until
\* the context or switchCh ends it; a request of a cancelled context may fail.
SwitchRequest ==
  /\ pc["switch"] = "request" /\ Goto("switch", "wait")
  /\ mode' = "import" \/ (cancelled /\ UNCHANGED mode)
  /\ UNCHANGED <<conf, ch, cancelled, flow, outcome, hasTable, rules, removed, ends, budget>>
SwitchTick ==
  /\ At("switch", "wait") /\ Goto("switch", "request")
  /\ UNCHANGED <<conf, ch, cancelled, flow, outcome, cluster, ends, budget>>
SwitchStop ==
  /\ At("switch", "wait") /\ (cancelled \/ pc["main"] \in {"normal", "schedulers"})
  /\ Goto("switch", "dead")
  /\ UNCHANGED <<conf, ch, cancelled, flow, outcome, cluster, ends, budget>>

\* TiKV leaves import mode by itself when it is not asked again in ten minutes.
TiKVTimeout ==
  /\ mode = "import" /\ (pc["switch"] = "dead" \/ ~Alive)
  /\ mode' = "normal"
  /\ UNCHANGED <<conf, pc, ch, errCh, cancelled, flow, outcome, hasTable, rules, removed, ends, budget>>

\* the caller cancels the context of RunRestore
Cancel ==
  /\ Alive /\ ~cancelled /\ cancels < conf.cancels /\ cancels' = cancels + 1 /\ cancelled' = TRUE
  /\ UNCHANGED <<conf, pc, ch, errCh, flow, outcome, cluster, ends, fails>>

----------------------------------------------------------------------------
Init ==
  /\ conf \in Plans
  /\ pc = [g \in Goroutines |-> IF g = "main" THEN "prework"
                                ELSE IF g \in {"create", "validate"} THEN "run" ELSE "off"]
  /\ ch = [c \in Channels |-> [q |-> <<>>, open |-> TRUE]]
  /\ errCh = FALSE /\ finish = FALSE /\ result = "none" /\ cancelled = FALSE /\ raced = FALSE
  /\ todo = Tables /\ cached = <<>> /\ goal = "none"
  /\ batch = NoBatch
  /\ hasTable = {} /\ rules = {} /\ mode = "normal" /\ removed = FALSE
  /\ restored = [t \in Tables |-> 0] /\ checking = {} /\ checked = {} /\ mismatch = FALSE
  /\ fails = 0 /\ cancels = 0

Create == (\E t \in Tables : CreateTable(t)) \/ CreateFails \/ CreateEnds
Validate == ValidateTable \/ ValidateEnds
Feed == FeedAdd \/ FeedPut \/ FeedEnds \/ Join \/ FeedClose
Auto == AutoTick \/ AutoPut \/ AutoEnds
Send == SendRecv \/ SendLoop \/ Enter \/ Prepare \/ SenderClose
Split == SplitRanges \/ SplitEnds
Restore == RestoreFiles \/ RestoreEnds
Clean == Leave \/ LeaveEmit \/ CleanEnds \/ ManagerClose
Check == CheckTake \/ (\E t \in Tables : Checksum(t)) \/ CheckCancelled \/ CheckEnds \/ Finish
Main == PreWork \/ StartPipeline \/ Select \/ PostWork \/ SwitchToNormal \/ RestoreSchedulers \/ Return
Work == Create \/ Validate \/ Feed \/ Auto \/ Send \/ Split \/ Restore \/ Clean \/ Check \/ Main
Next ==
  \/ Work \/ SwitchRequest \/ SwitchTick \/ SwitchStop \/ TiKVTimeout \/ ConcurrentMap \/ Cancel

Spec == Init /\ [][Next]_vars

\* Some goroutine that can go on does, and TiKV's own timeout fires.
FairSpec == Spec /\ WF_vars(Work) /\ WF_vars(TiKVTimeout)

----------------------------------------------------------------------------
(* Properties.                                                             *)

\* The batches between Batcher.Send and the end of RestoreFiles.
Pending == ToSet(ch["in"].q) \cup ToSet(ch["mid"].q)

TypeOK ==
  /\ pc \in [Goroutines -> STRING] /\ DOMAIN ch = Channels
  /\ \A c \in Channels : ch[c].open \in BOOLEAN
  /\ {errCh, finish, cancelled, raced, mismatch, removed} \subseteq BOOLEAN
  /\ result \in {"none", "ok", "error", "refused"} /\ mode \in {"normal", "import"}
  /\ todo \cup hasTable \cup rules \cup checking \cup checked \subseteq Tables
  /\ \A i \in DOMAIN cached : cached[i].t \in Tables /\ cached[i].n \in 0 .. plan[cached[i].t]
  /\ \A t \in Tables : restored[t] + batch.part[t] <= plan[t]

\* RunRestore succeeds only when every range of every table is restored and the
\* checksum of every table with data was right: what the split, restore, feed and
\* checksum goroutines meet reaches its select before the end of the pipeline does.
\* Left out: the context is cancelled, or the select finds both and picks either.
SuccessIsComplete ==
  /\ TypeOK
  /\ result = "ok" /\ ~raced /\ ~cancelled =>
       \A t \in Tables : restored[t] = plan[t] /\ (plan[t] > 0 => t \in checked)

\* No goroutine has reported an error yet.
NoError == ~errCh /\ pc["main"] # "error" /\ result # "error"

\* Online restore: while ranges of a table are split and restored, its placement
\* rule is in force: the cleaner takes it away only after the last of its
\* batches, although batches of other tables are being sent at the same time.
InRestoreMode ==
  online /\ NoError /\ pc["clean"] \notin {"closing", "dead"} =>
    \A b \in Pending : {t \in Tables : b.part[t] > 0} \subseteq rules

\* A table reaches the checksum once, and only when all its ranges are restored.
ChecksumAfterRestore == NoError =>
  /\ \A t \in ToSet(ch["out"].q) \cup checking : restored[t] = plan[t] /\ t \notin checked
  /\ Len(ch["out"].q) = Cardinality(ToSet(ch["out"].q)) /\ checking \cap ToSet(ch["out"].q) = {}

\* RunRestore returns whatever fails and whenever it is cancelled, although
\* goroutines may be left blocked; TiKV ends up in normal mode, also when a request
\* for import mode was under way, and the schedulers of PD are removed for good
\* only by a process that died or that failed to remove them all.
Returned ==
  ~Alive /\ mode = "normal" /\ (removed => result = "refused" \/ pc["main"] = "crashed")
Returns == <>[]Returned
============================================================================
