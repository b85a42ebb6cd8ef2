---- MODULE MCServer ----
(* The Lightning process: the pauser of its pipelines (Pauser), the server that runs   *)
(* tasks one after the other (LightningServer) and the checksums of the imported       *)
(* tables (ChecksumManager).  A behaviour is of one component.                         *)
EXTENDS Pauser, Sequences

CONSTANTS
  Clock, ClientRequests, Clients,                                  \* LightningServer
  Tables, MaxNow, TTL, LongLife, MaxErrorRetry, MinConcurrency     \* ChecksumManager

VARIABLES
  part,  \* the component the behaviour is of
  paused, held, serverMode, list, lastID, popper, loop, task, curTask, cancel, done, step,
  err, httpUp, shut, stopper, handler, left, progress, fate, plan, now, gc, lifeTime,
  service, heap, current, keeper, running, oriLife, unrestored, slots, job, sharedErr,
  restoreErr, crashed

\* three of the steps of a task; tables are restored in the second
TaskSteps == <<"restoreSchema", "restoreTables", "cleanCheckpoints">>
LS == INSTANCE LightningServer WITH
  Goroutines <- {1}, Requests <- ClientRequests, Steps <- TaskSteps
CMPlans == INSTANCE MCChecksumManager WITH
  Layout <- {}, Plans <- {}
CM == INSTANCE ChecksumManager WITH
  Layout <- CMPlans!MCLayout, Plans <- CMPlans!MCPlans

\* the variables of the other components, which stay 0
PauserIdle ==
  <<paused, held, serverMode, list, lastID, popper, loop, task, curTask, cancel, done,
  step, err, httpUp, shut, stopper, handler, left, progress, fate, plan, now, gc, lifeTime,
  service, heap, current, keeper, running, oriLife, unrestored, slots, job, sharedErr,
  restoreErr, crashed>>
ServerIdle ==
  <<plan, now, gc, lifeTime, service, heap, current, keeper, running, oriLife, unrestored,
  slots, job, sharedErr, restoreErr, crashed>>
ChecksumIdle ==
  <<paused, held, serverMode, list, lastID, popper, loop, task, curTask, cancel, done,
  step, err, httpUp, shut, stopper, handler, left, progress, fate>>

RunVars == <<part,
  pauserVars, paused, held, serverMode, list, lastID, popper, loop, task, curTask, cancel,
  done, step, err, httpUp, shut, stopper, handler, left, progress, fate, plan, now, gc,
  lifeTime, service, heap, current, keeper, running, oriLife, unrestored, slots, job,
  sharedErr, restoreErr, crashed>>

RunInit ==
  \/ /\ part = "pauser" /\ PauserInit
     /\ paused = 0 /\ held = 0 /\ serverMode = 0 /\ list = 0 /\ lastID = 0 /\ popper = 0
     /\ loop = 0 /\ task = 0 /\ curTask = 0 /\ cancel = 0 /\ done = 0 /\ step = 0
     /\ err = 0 /\ httpUp = 0 /\ shut = 0 /\ stopper = 0 /\ handler = 0 /\ left = 0
     /\ progress = 0 /\ fate = 0 /\ plan = 0 /\ now = 0 /\ gc = 0 /\ lifeTime = 0
     /\ service = 0 /\ heap = 0 /\ current = 0 /\ keeper = 0 /\ running = 0
     /\ oriLife = 0 /\ unrestored = 0 /\ slots = 0 /\ job = 0 /\ sharedErr = 0
     /\ restoreErr = 0 /\ crashed = 0
  \/ /\ part = "server" /\ LS!Init
     /\ PauserInit
     /\ plan = 0 /\ now = 0 /\ gc = 0 /\ lifeTime = 0 /\ service = 0 /\ heap = 0
     /\ current = 0 /\ keeper = 0 /\ running = 0 /\ oriLife = 0 /\ unrestored = 0
     /\ slots = 0 /\ job = 0 /\ sharedErr = 0 /\ restoreErr = 0 /\ crashed = 0
  \/ /\ part = "checksum" /\ CM!Init
     /\ PauserInit
     /\ paused = 0 /\ held = 0 /\ serverMode = 0 /\ list = 0 /\ lastID = 0 /\ popper = 0
     /\ loop = 0 /\ task = 0 /\ curTask = 0 /\ cancel = 0 /\ done = 0 /\ step = 0
     /\ err = 0 /\ httpUp = 0 /\ shut = 0 /\ stopper = 0 /\ handler = 0 /\ left = 0
     /\ progress = 0 /\ fate = 0

RunNext ==
  \/ part = "pauser" /\ PauserNext /\ UNCHANGED <<part, PauserIdle>>
  \/ part = "server" /\ LS!Next /\ UNCHANGED <<part, ServerIdle, pauserVars>>
  \/ part = "checksum" /\ CM!Next /\ UNCHANGED <<part, ChecksumIdle, pauserVars>>

serverVars == LS!serverVars
checksumVars == CM!vars
\* A call that was made goes on, and so do the main goroutine of the server, its
\* shutdown, a DELETE that has cancelled a task, and the checksum of each table.
RunSpec ==
  /\ RunInit /\ [][RunNext]_RunVars
  /\ \A p \in Goroutines : WF_pauserVars(part = "pauser" /\ PauserStep(p))
  /\ WF_serverVars(part = "server" /\ LS!MainStep) /\ WF_serverVars(part = "server" /\ LS!Shutdown)
  /\ \A c \in Clients : WF_serverVars(part = "server" /\ LS!DeleteEnds(c))
  /\ \A t \in Tables : WF_checksumVars(part = "checksum" /\ CM!TableStep(t))


\* A task's context is cancelled because of this task or of everybody: a DELETE of another
\* task leaves it alone (handleDeleteOneTask, Stop).
OnlyWantedCancelled == [][part = "server" => LS!CancelsWanted]_serverVars


\* Calls of the pauser return; a signal ends the server and a queued task leaves the queue;
\* the post process of every table returns (Pauser, Lightning.RunServer, postProcess).
ServerSettles ==
  <>[](CASE part = "pauser" -> Settled
         [] part = "server" -> LS!Exited /\ LS!Drained
         [] part = "checksum" -> CM!AllDone)
====
