---- MODULE LightningServer ----
(***************************************************************************)
(* The lightning process: the loop that takes tasks from the config list   *)
(* and runs them (or the one task of a run without server mode), the HTTP  *)
(* handlers that queue, move, delete, pause and resume, the progress the   *)
(* web interface shows, and the signal handler that stops it all.  The     *)
(* pauser is used through what it promises, module Gate.                   *)
(***************************************************************************)
EXTENDS Integers, Sequences, FiniteSets, SequencesExt, Gate

CONSTANTS
  Clock,         \* the values time.Now takes
  Requests,      \* bound: HTTP requests of each client
  Clients,
  Steps          \* the steps of Controller.Run

VARIABLES
  serverMode,
  list,      \* config.List: the queued ids
  lastID,
  popper,    \* goroutine of Pop: "off", "waiting", or sending the id it took, lock held
  loop,      \* where the main goroutine is
  task,      \* the task it has in hand, 0 for none
  curTask,   \* l.curTask
  cancel,    \* l.cancel: the task it cancels, 0 for nil
  done,      \* the tasks whose context is done
  step,      \* the step of Controller.Run
  err,       \* what run returns: "none", "nil", "error"
  httpUp,    \* the HTTP server takes requests
  shut,      \* l.ctx is done
  stopper,   \* the signal handler: "idle", "cancelled", "draining", "over"
  handler,   \* what each client waits for: nothing, or a DELETE half done
  left,      \* the requests each client still makes
  progress,  \* web.currentProgress
  fate       \* of every id: "none", "queued", "taken", "ran", "deleted", "lost"

serverVars == <<serverMode, list, lastID, popper, loop, task, curTask, cancel, done, step, err, httpUp, shut,
                stopper, handler, left, progress, fate, paused, held>>

NoHandler == [id |-> 0, gotCancel |-> FALSE]
Ids == 1 .. Cardinality(Clock) + Requests * Cardinality(Clients) + 1

Init ==
  /\ serverMode \in BOOLEAN
  /\ list = <<>> /\ lastID = 0 /\ popper = (IF serverMode THEN "waiting" ELSE "off")
  /\ loop = (IF serverMode THEN "pop" ELSE "start") /\ task = (IF serverMode THEN 0 ELSE 1)
  /\ curTask = 0 /\ cancel = 0 /\ done = {} /\ step = 0 /\ err = "none"
  /\ httpUp = TRUE /\ shut = FALSE /\ stopper = "idle"
  /\ handler = [c \in Clients |-> NoHandler] /\ left = [c \in Clients |-> Requests]
  /\ progress = [status |-> "none", message |-> "none", tables |-> 0, checkpoints |-> {}]
  /\ fate = [id \in Ids |-> IF ~serverMode /\ id = 1 THEN "taken" ELSE "none"]
  /\ GateInit

Request(c) == httpUp /\ loop # "exit" /\ handler[c] = NoHandler /\ left[c] > 0 /\ left' = [left EXCEPT ![c] = @ - 1]
\* the lock of the list is free
ListLock == popper \in {"off", "waiting"}
LoopVars == <<loop, task, curTask, step, err, progress>>
StopVars == <<httpUp, shut, stopper, serverMode>>

\* Push: ids grow even when the clock does not
NewID(now) == IF now <= lastID THEN lastID + 1 ELSE now

\* List.Remove, MoveToFront and MoveToBack of a task that is there
RemoveTask(id) == Remove(list, id)
MoveToFront(id) == <<id>> \o Remove(list, id)
MoveToBack(id) == Append(Remove(list, id), id)

\* the progress: a new task keeps the tables and the message of the one before
BroadcastStartTask == [progress EXCEPT !.status = "running", !.checkpoints = {}]
BroadcastInitProgress == [progress EXCEPT !.tables = task]
BroadcastTableCheckpoint == [progress EXCEPT !.checkpoints = @ \cup {progress.tables}]
BroadcastEndTask == [progress EXCEPT !.status = "completed", !.message = err]

\* handlePostTask of a valid configuration
Post(c) ==
  /\ Request(c) /\ serverMode /\ ListLock
  /\ \E now \in Clock :
       /\ lastID' = NewID(now) /\ list' = Append(list, NewID(now)) /\ fate' = [fate EXCEPT ![NewID(now)] = "queued"]
  /\ UNCHANGED <<popper, cancel, done, handler, paused, held>> /\ UNCHANGED LoopVars /\ UNCHANGED StopVars

\* mutant: whatever runs is cancelled
MutTakeCancel(c, id) ==
  LET mine == cancel # 0 IN
  /\ handler' = [handler EXCEPT ![c] = [id |-> id, gotCancel |-> mine]]
  /\ cancel' = IF mine THEN 0 ELSE cancel
  /\ done' = IF mine THEN done \cup {cancel} ELSE done
\* the first half of handleDeleteOneTask: l.cancel is taken under cancelLock if it is
\* the task's, and called
TakeCancel(c, id) ==
  LET mine == cancel # 0 /\ curTask = id IN
  /\ handler' = [handler EXCEPT ![c] = [id |-> id, gotCancel |-> mine]]
  /\ cancel' = IF mine THEN 0 ELSE cancel
  /\ done' = IF mine THEN done \cup {cancel} ELSE done
Delete(c) ==
  /\ Request(c)
  /\ \E id \in {i \in Ids : fate[i] # "none"} : TakeCancel(c, id)
  /\ UNCHANGED <<list, lastID, popper, fate, paused, held>> /\ UNCHANGED LoopVars /\ UNCHANGED StopVars
\* the second half: else it is removed from the list
DeleteEnds(c) ==
  /\ handler[c] # NoHandler /\ handler' = [handler EXCEPT ![c] = NoHandler]
  /\ LET id == handler[c].id
         listed == serverMode /\ id \in Range(list) IN
     IF handler[c].gotCancel \/ ~serverMode THEN UNCHANGED <<list, fate>>
     ELSE /\ ListLock
          /\ list' = IF listed THEN RemoveTask(id) ELSE list
          /\ fate' = IF listed THEN [fate EXCEPT ![id] = "deleted"] ELSE fate
  /\ UNCHANGED <<lastID, popper, cancel, done, left, paused, held>> /\ UNCHANGED LoopVars /\ UNCHANGED StopVars

\* handlePatchOneTask: MoveToFront and MoveToBack
Patch(c) ==
  /\ Request(c) /\ serverMode /\ ListLock
  /\ \E id \in Range(list) : list' \in {MoveToFront(id), MoveToBack(id)}
  /\ UNCHANGED <<lastID, popper, cancel, done, handler, fate, paused, held>> /\ UNCHANGED LoopVars /\ UNCHANGED StopVars

HandlePause(c) ==
  /\ Request(c) /\ Pause
  /\ UNCHANGED <<list, lastID, popper, cancel, done, handler, fate>> /\ UNCHANGED LoopVars /\ UNCHANGED StopVars
HandleResume(c) ==
  /\ Request(c) /\ Resume
  /\ UNCHANGED <<list, lastID, popper, cancel, done, handler, fate>> /\ UNCHANGED LoopVars /\ UNCHANGED StopVars

\* a signal: Stop cancels the task l.cancel is about, if there is one
Stop ==
  /\ stopper = "idle" /\ loop # "exit" /\ stopper' = "cancelled"
  /\ done' = IF cancel # 0 THEN done \cup {cancel} ELSE done
  /\ UNCHANGED <<list, lastID, popper, cancel, handler, left, fate, httpUp, shut, serverMode, paused, held>>
  /\ UNCHANGED LoopVars
\* server.Shutdown: no new requests, then the ones under way are waited for
Shutdown ==
  /\ \/ stopper = "cancelled" /\ httpUp' = FALSE /\ stopper' = "draining" /\ UNCHANGED shut
     \/ stopper = "draining" /\ handler = [c \in Clients |-> NoHandler] /\ shut' = TRUE /\ stopper' = "over" /\ UNCHANGED httpUp
  /\ UNCHANGED <<list, lastID, popper, cancel, done, handler, left, fate, serverMode, paused, held>> /\ UNCHANGED LoopVars

\* the goroutine of Pop takes the front, and sends it with the lock held
PopFront ==
  /\ popper = "waiting" /\ list # <<>> /\ loop # "exit"
  /\ popper' = "sending" /\ task' = Head(list) /\ list' = Tail(list)
  /\ UNCHANGED <<lastID, loop, curTask, cancel, done, step, err, handler, left, progress, fate, paused, held>>
  /\ UNCHANGED StopVars
\* Pop returns: the task, or l.ctx is done
PopReturns ==
  /\ loop = "pop"
  /\ \/ popper = "sending" /\ popper' = "off" /\ loop' = "start" /\ fate' = [fate EXCEPT ![task] = "taken"] /\ UNCHANGED task
     \/ shut /\ loop' = "exit"
        /\ fate' = (IF popper = "sending" THEN [fate EXCEPT ![task] = "lost"] ELSE fate) /\ task' = 0 /\ UNCHANGED popper
  /\ UNCHANGED <<list, lastID, curTask, cancel, done, step, err, handler, left, progress, paused, held>>
  /\ UNCHANGED StopVars

\* run: from here the task can be cancelled
RunStart ==
  /\ loop = "start" /\ loop' = "load" /\ cancel' = task /\ curTask' = task
  /\ progress' = BroadcastStartTask
  /\ UNCHANGED <<list, lastID, popper, task, done, step, err, handler, left, fate, paused, held>> /\ UNCHANGED StopVars
\* the configuration is registered, the source is loaded, the requirements and the
\* checkpoint schema are checked, the controller is made
RunLoad ==
  /\ loop = "load"
  /\ \/ err' = "error" /\ loop' = "end" /\ UNCHANGED <<progress, step>>
     \/ task \notin done /\ loop' = "steps" /\ step' = 1 /\ progress' = BroadcastInitProgress /\ UNCHANGED err
     \/ err' = "error" /\ loop' = "end" /\ progress' = BroadcastInitProgress /\ UNCHANGED step
  /\ UNCHANGED <<list, lastID, popper, task, curTask, cancel, done, handler, left, fate, paused, held>> /\ UNCHANGED StopVars
Restoring == Steps[step] = "restoreTables"
\* Controller.Run: the steps one after the other; a cancelled one ends it without an
\* error, a failed one with its error; tables are restored while the gate is open
RunStep ==
  /\ loop = "steps"
  /\ \/ /\ Restoring => (task \notin held /\ ~paused)
        /\ IF step = Len(Steps) THEN loop' = "end" /\ err' = "nil" /\ UNCHANGED step
           ELSE step' = step + 1 /\ UNCHANGED <<loop, err>>
        /\ progress' = IF Restoring THEN BroadcastTableCheckpoint ELSE progress
     \/ task \notin held /\ err' = "error" /\ loop' = "end" /\ UNCHANGED <<step, progress>>
     \/ task \in done /\ err' = "nil" /\ loop' = "end" /\ UNCHANGED <<step, progress>>
  /\ IF task \in held THEN GiveUp(task) ELSE UNCHANGED <<paused, held>>
  /\ UNCHANGED <<list, lastID, popper, task, curTask, cancel, done, handler, left, fate>> /\ UNCHANGED StopVars
\* the encode loop waits at the gate
WaitAtGate ==
  /\ loop = "steps" /\ Restoring /\ task \notin held /\ Hold(task)
  /\ UNCHANGED <<list, lastID, popper, task, curTask, cancel, done, step, err, handler, left, progress, fate, loop>>
  /\ UNCHANGED StopVars
\* the deferred end of run, and what RunServer and main make of its error
RunEnd ==
  /\ loop = "end" /\ done' = done \cup {task} /\ cancel' = 0
  /\ progress' = BroadcastEndTask
  /\ fate' = [fate EXCEPT ![task] = "ran"] /\ task' = 0 /\ step' = 0
  /\ IF serverMode
     THEN /\ loop' = "pop" /\ popper' = "waiting"
          /\ IF err = "error" THEN Pause ELSE UNCHANGED <<paused, held>>
     ELSE loop' = "exit" /\ UNCHANGED <<popper, paused, held>>
  /\ err' = "none"
  /\ UNCHANGED <<list, lastID, curTask, handler, left>> /\ UNCHANGED StopVars

MainStep == PopFront \/ PopReturns \/ RunStart \/ RunLoad \/ RunStep \/ RunEnd
Handle(c) == Post(c) \/ Delete(c) \/ Patch(c) \/ HandlePause(c) \/ HandleResume(c)
Next ==
  \/ MainStep \/ WaitAtGate \/ Stop \/ Shutdown
  \/ \E c \in Clients : Handle(c) \/ DeleteEnds(c)
Spec == Init /\ [][Next]_serverVars
FairSpec ==
  /\ Spec /\ WF_serverVars(MainStep) /\ WF_serverVars(Shutdown)
  /\ \A c \in Clients : WF_serverVars(DeleteEnds(c))

----------------------------------------------------------------------------
(* Properties.                                                             *)


\* A task's context is cancelled because of this task or of everybody: a DELETE of
\* another task, however it interleaves with the end of one task and the start of
\* the next, leaves it alone.
CancelsWanted ==
  \A id \in done' \ done : loop = "end" \/ stopper' # stopper \/ \E c \in Clients : handler'[c].id = id
OnlyWantedCancelled == [][CancelsWanted]_serverVars

\* What may keep the process after a signal: the signal came before run put the
\* cancel function in place, and the task waits at a closed gate nobody can open.
SignalMissed == task \notin done /\ paused
\* A signal ends the process: the running task is cancelled, or finishes, and Pop
\* gives up, whatever handlers were under way.
Exited == stopper = "over" => loop = "exit" \/ SignalMissed
StopExits == <>[]Exited

\* A queued task leaves the queue: it runs or is deleted, unless the process stops or
\* an error or a user has closed the gate for the task before it.
Drained == \A id \in Ids : fate[id] # "queued" \/ stopper # "idle" \/ paused
QueueDrains == <>[]Drained
====
