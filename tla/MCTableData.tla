---- MODULE MCTableData ----
(* The checkpoints of a table (Checkpoints), the data files it is cut from          *)
(* (TableRegions) and the SSTs its rows are compacted into (SSTMerge).  A           *)
(* behaviour is of one component; the variables of the others do not change.        *)
EXTENDS Checkpoints, Folds, Functions, Sequences

CONSTANTS
  Keys, MaxRows, MaxAppend, Prealloc, Limits, MergeWidth,  \* SSTMerge
  Workers                                                  \* TableRegions

VARIABLES
  part,  \* the component the behaviour is of
  limit, writeBatch, batchCount, isWriteBatchSorted, appended, ssts, pc, iters, key,
  lastKey, out, merged, source, loaded, data, caller, next, fileChan, fileClosed,
  resultChan, errChan, worker, collector, collected, ctxDone

SM == INSTANCE SSTMerge

\* small sources: files, and how they are filtered, routed and cut
File(path, kind, d, name, k, rows) ==
  [path |-> path, kind |-> kind, db |-> d, name |-> name, key |-> k, rows |-> rows,
   size |-> FoldFunction(+, 0, rows)]
DB(path, d) == File(path, "db", d, 0, 0, <<>>)
Schema(path, d, name) == File(path, "table", d, name, 0, <<>>)

Cfg(columns, strict, header) == [columns |-> columns, strict |-> strict, header |-> header, regionSize |-> 4]
All == (1 .. 3) \X (0 .. 3)
Keep == [t \in All |-> t]
\* shards 1 and 2 go to database 3, table 1
Merge == [t \in All |-> IF t[1] \in {1, 2} /\ t[2] = 1 THEN <<3, 1>> ELSE t]

\* a table of three files, found in another order than their keys
OneTable(lines) ==
  <<DB(1, 1), Schema(2, 1, 1), File(3, "csv", 1, 1, 2, lines), File(4, "csv", 1, 1, 1, <<3, 2>>),
    File(5, "parquet", 1, 1, 3, <<2, 2>>)>>
\* two sharded tables, a view, a table of its own and a table without a schema
Shards ==
  <<DB(1, 1), DB(2, 2), Schema(3, 1, 1), Schema(4, 2, 1), Schema(5, 1, 2), File(6, "view", 1, 2, 0, <<>>),
    File(7, "csv", 1, 1, 1, <<2, 2, 2>>), File(8, "sql", 2, 1, 1, <<3, 4>>), File(9, "csv", 2, 3, 1, <<2>>)>>
Plan(files, filter, route, cfg, bad) ==
  [files |-> files, filter |-> filter, route |-> route, cfg |-> cfg, batches |-> <<3, 5, 6>>, bad |-> bad]
MCSources ==
  {Plan(OneTable(lines), All, <<>>, cfg, bad) :
     lines \in {<<2, 2, 2, 2, 3>>, <<2, 3, 2, 4, 2>>, <<6, 2, 5>>},
     cfg \in {Cfg(1, TRUE, FALSE), Cfg(1, TRUE, TRUE), Cfg(1, FALSE, TRUE)}, bad \in {{}, {4}, {3, 5}}}
  \cup {Plan(Shards, f, r, Cfg(1, TRUE, FALSE), {}) : f \in {All, All \ {<<2, 3>>}}, r \in {<<>>, Keep, Merge}}
  \cup {Plan(Shards, All, [Keep EXCEPT ![<<2, 1>>] = <<>>], Cfg(1, TRUE, FALSE), {}),
        Plan(Append(Shards, Schema(10, 1, 2)), All, <<>>, Cfg(1, TRUE, FALSE), {}),
        Plan(Append(Shards, File(10, "view", 2, 3, 0, <<>>)), All, Merge, Cfg(1, TRUE, FALSE), {})}
TR == INSTANCE TableRegions WITH
  Sources <- MCSources

\* the variables of the other components, which stay 0
CheckpointsIdle ==
  <<limit, writeBatch, batchCount, isWriteBatchSorted, appended, ssts, pc, iters, key,
  lastKey, out, merged, source, loaded, data, caller, next, fileChan, fileClosed,
  resultChan, errChan, worker, collector, collected, ctxDone>>
MergeIdle ==
  <<source, loaded, data, caller, next, fileChan, fileClosed, resultChan, errChan, worker,
  collector, collected, ctxDone>>
RegionsIdle ==
  <<limit, writeBatch, batchCount, isWriteBatchSorted, appended, ssts, pc, iters, key,
  lastKey, out, merged>>

RunVars == <<part,
  vars, limit, writeBatch, batchCount, isWriteBatchSorted, appended, ssts, pc, iters, key,
  lastKey, out, merged, source, loaded, data, caller, next, fileChan, fileClosed,
  resultChan, errChan, worker, collector, collected, ctxDone>>

RunInit ==
  \/ /\ part = "checkpoints" /\ Init
     /\ limit = 0 /\ writeBatch = 0 /\ batchCount = 0 /\ isWriteBatchSorted = 0
     /\ appended = 0 /\ ssts = 0 /\ pc = 0 /\ iters = 0 /\ key = 0 /\ lastKey = 0
     /\ out = 0 /\ merged = 0 /\ source = 0 /\ loaded = 0 /\ data = 0 /\ caller = 0
     /\ next = 0 /\ fileChan = 0 /\ fileClosed = 0 /\ resultChan = 0 /\ errChan = 0
     /\ worker = 0 /\ collector = 0 /\ collected = 0 /\ ctxDone = 0
  \/ /\ part = "merge" /\ SM!Init
     /\ Init /\ driver = "mysql"
     /\ source = 0 /\ loaded = 0 /\ data = 0 /\ caller = 0 /\ next = 0 /\ fileChan = 0
     /\ fileClosed = 0 /\ resultChan = 0 /\ errChan = 0 /\ worker = 0 /\ collector = 0
     /\ collected = 0 /\ ctxDone = 0
  \/ /\ part = "regions" /\ TR!Init
     /\ Init /\ driver = "mysql"
     /\ limit = 0 /\ writeBatch = 0 /\ batchCount = 0 /\ isWriteBatchSorted = 0
     /\ appended = 0 /\ ssts = 0 /\ pc = 0 /\ iters = 0 /\ key = 0 /\ lastKey = 0
     /\ out = 0 /\ merged = 0

RunNext ==
  \/ part = "checkpoints" /\ Next /\ UNCHANGED <<part, CheckpointsIdle>>
  \/ part = "merge" /\ SM!Next /\ UNCHANGED <<part, MergeIdle, vars>>
  \/ part = "regions" /\ TR!Next /\ UNCHANGED <<part, RegionsIdle, vars>>

mergeVars == SM!vars
regionVars == TR!vars
\* The goroutines that save, wait, merge and cut are always scheduled again.
RunSpec ==
  /\ RunInit /\ [][RunNext]_RunVars
  /\ WF_vars(part = "checkpoints" /\ Saver) /\ WF_vars(part = "checkpoints" /\ WaitDone)
  /\ WF_mergeVars(part = "merge" /\ (SM!OpenIters \/ SM!MergeStep))
  /\ WF_regionVars(part = "regions" /\ TR!Caller) /\ WF_regionVars(part = "regions" /\ TR!Collector)
  /\ \A w \in Workers : WF_regionVars(part = "regions" /\ TR!Worker(w))


\* Every data file of the source is loaded for one table, and the regions of a table
\* cut its files without loss or overlap, with row ids that do not collide, in
\* whatever order the workers read the files (mdLoaderSetup.setup, MakeTableRegions).
SourceIsCut == part = "regions" => TR!SourceIsLoaded /\ TR!TableIsCut

\* waitCheckpointFinish and MakeTableRegions return, and so does mergeSSTs as long as no
\* key is written twice.
TableDataSettles ==
  []<>(CASE part = "checkpoints" -> life # "waiting"
         [] part = "merge" -> ~SM!MergeRuns
         [] part = "regions" -> TR!Returned)
====
