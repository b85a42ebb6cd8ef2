---- MODULE MCImportMeta ----
(* Two tasks that import into one cluster: the rows of one table in table_meta   *)
(* (TableMeta) or the rows of task_meta (TaskMeta).  A behaviour is of one of     *)
(* the two components; the variables of the other one do not change.              *)
EXTENDS TableMeta

CONSTANTS PauseTTL, GracefulExit  \* TaskMeta

VARIABLES
  part,  \* the component the behaviour is of
  table, taskRows, taskMeta, lock, pdCfg, paused, renew, ttl, mode, taskPc, taskLoc, after,
  taskRetries, taskCrashes

TM == INSTANCE TaskMeta WITH
  rows <- taskRows, meta <- taskMeta, pc <- taskPc, loc <- taskLoc, retries <- taskRetries,
  crashes <- taskCrashes

\* the variables of the other components, which stay 0
TableMetaIdle ==
  <<table, taskRows, taskMeta, lock, pdCfg, paused, renew, ttl, mode, taskPc, taskLoc,
  after, taskRetries, taskCrashes>>

RunVars == <<part,
  vars, table, taskRows, taskMeta, lock, pdCfg, paused, renew, ttl, mode, taskPc, taskLoc,
  after, taskRetries, taskCrashes>>

RunInit ==
  \/ /\ part = "tableMeta" /\ Init
     /\ table = 0 /\ taskRows = 0 /\ taskMeta = 0 /\ lock = 0 /\ pdCfg = 0 /\ paused = 0
     /\ renew = 0 /\ ttl = 0 /\ mode = 0 /\ taskPc = 0 /\ taskLoc = 0 /\ after = 0
     /\ taskRetries = 0 /\ taskCrashes = 0
  \/ /\ part = "taskMeta" /\ TM!Init
     /\ Init /\ nextID = 1

RunNext ==
  \/ part = "tableMeta" /\ Next /\ UNCHANGED <<part, TableMetaIdle>>
  \/ part = "taskMeta" /\ TM!Next /\ UNCHANGED <<part, vars>>

taskVars == TM!vars
\* Every task keeps going and is started again when it stopped; time passes in PD.
RunSpec ==
  /\ RunInit /\ [][RunNext]_RunVars
  /\ WF_taskVars(part = "taskMeta" /\ TM!PauseExpires)
  /\ WF_taskVars(part = "taskMeta" /\ TM!ImportModeExpires)
  /\ \A t \in Tasks :
       /\ WF_vars(part = "tableMeta" /\ Step(t))
       /\ WF_taskVars(part = "taskMeta" /\ TM!Step(t))
       /\ WF_taskVars(part = "taskMeta" /\ TM!ImportEnds(t))

\* The cluster is switched back to normal by the last task only, to the values it had
\* before the first, and that task drops the shared tables (CheckAndPausePdSchedulers,
\* CheckAndFinishRestore, CleanupAllMetas).
TaskMetaIsSafe ==
  part = "taskMeta" => TM!SwitchBackIsSafe /\ TM!StoredConfigIsOriginal /\ TM!LastTaskCleansUp

\* Tasks that keep running verify the table, and leave the cluster in normal mode
\* (postProcess, cleanup after restoreTables).
ImportSettles ==
  <>[](CASE part = "tableMeta" -> Verified [] part = "taskMeta" -> TM!Normal)
====
