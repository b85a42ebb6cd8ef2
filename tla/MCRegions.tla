---- MODULE MCRegions ----
(* What works on the regions of the TiKV cluster (RegionCluster): the import of      *)
(* an engine (RangeImport), of backed up files (FileImport) and of the rows of a log  *)
(* (LogIngest), and the collection of duplicate rows (DuplicateRows).  A behaviour is *)
(* of one component.                                                                  *)
EXTENDS Integers, Sequences, FiniteSets, SequencesExt, FiniteSetsExt

VARIABLES
  part,  \* the component the behaviour is of
  regions, kvs, trouble, ranges, plan, pc, unfinished, finished, sp, wk, metErr, result,
  cancelled, backup, groups, im, failed, pairs, remain, todo, at, idx, waiting, handles,
  tryTimes, db, shrunk

RegionPlans == INSTANCE MCRegionPlans WITH
  FilePlans <- {}, KeyEnd <- 12, PageLimit <- 2, Width <- 3, SplitSizeBytes <- 2,
  SplitRetryTimes <- 2, SplitRequests <- 2, ScatterAttempts <- 2, ImportRetryTimes <- 2,
  DownloadRetryTimes <- 2, PoolSize <- 2
RI == INSTANCE RangeImport WITH
  KeyEnd <- 5, PageLimit <- 2, RegionKeys <- 2, MaxRetry <- 2, SplitRetryTimes <- 2,
  RangeConcurrency <- 2, IngestConcurrency <- 2, Workers <- {1, 2},
  Plans <- RegionPlans!MCEnginePlans
FI == INSTANCE FileImport WITH
  KeyEnd <- 12, PageLimit <- 2, Width <- 3, SplitSizeBytes <- 2, SplitRetryTimes <- 2,
  SplitRequests <- 2, ScatterAttempts <- 2, ImportRetryTimes <- 2, DownloadRetryTimes <- 2,
  PoolSize <- 2, FilePlans <- RegionPlans!MCFilePlans
LI == INSTANCE LogIngest WITH
  KeyEnd <- 14, PageLimit <- 2, MaxRetry <- 2, BatchPairs <- 2, RegionMax <- 4,
  IngestConcurrency <- 4, Workers <- {1, 2}, WritePlans <- RegionPlans!MCWritePlans
DRPlans == INSTANCE MCDuplicateRows WITH
  Handle <- {}, Plans <- {}, KeyEnd <- 7, PageLimit <- 9, RowStart <- 3,
  RegionConcurrency <- 1, MaxRetryTimes <- 2, MaxGetRequestKeyCount <- 2
DR == INSTANCE DuplicateRows WITH
  KeyEnd <- 7, PageLimit <- 9, RowStart <- 3, RegionConcurrency <- 1, MaxRetryTimes <- 2,
  MaxGetRequestKeyCount <- 2, Handle <- DRPlans!MCHandle, Plans <- DRPlans!MCPlans

\* the variables of the other components, which stay 0
ImportIdle ==
  <<backup, groups, im, failed, pairs, remain, todo, at, idx, waiting, handles, tryTimes,
  db, shrunk>>
FilesIdle ==
  <<plan, unfinished, finished, wk, metErr, cancelled, pairs, remain, todo, at, idx,
  waiting, handles, tryTimes, db, shrunk>>
LogIdle ==
  <<ranges, unfinished, finished, sp, metErr, cancelled, backup, groups, im, at, idx,
  waiting, handles, tryTimes, db, shrunk>>
DuplicatesIdle ==
  <<ranges, pc, finished, sp, wk, metErr, cancelled, backup, groups, im, failed, pairs,
  remain>>

RunVars == <<part,
  regions, kvs, trouble, ranges, plan, pc, unfinished, finished, sp, wk, metErr, result,
  cancelled, backup, groups, im, failed, pairs, remain, todo, at, idx, waiting, handles,
  tryTimes, db, shrunk>>

RunInit ==
  \/ /\ part = "import" /\ RI!Init
     /\ backup = 0 /\ groups = 0 /\ im = 0 /\ failed = 0 /\ pairs = 0 /\ remain = 0
     /\ todo = 0 /\ at = 0 /\ idx = 0 /\ waiting = 0 /\ handles = 0 /\ tryTimes = 0
     /\ db = 0 /\ shrunk = 0
  \/ /\ part = "files" /\ FI!Init
     /\ plan = 0 /\ unfinished = 0 /\ finished = 0 /\ wk = 0 /\ metErr = 0
     /\ cancelled = 0 /\ pairs = 0 /\ remain = 0 /\ todo = 0 /\ at = 0 /\ idx = 0
     /\ waiting = 0 /\ handles = 0 /\ tryTimes = 0 /\ db = 0 /\ shrunk = 0
  \/ /\ part = "log" /\ LI!Init
     /\ ranges = 0 /\ unfinished = 0 /\ finished = 0 /\ sp = 0 /\ metErr = 0
     /\ cancelled = 0 /\ backup = 0 /\ groups = 0 /\ im = 0 /\ at = 0 /\ idx = 0
     /\ waiting = 0 /\ handles = 0 /\ tryTimes = 0 /\ db = 0 /\ shrunk = 0
  \/ /\ part = "duplicates" /\ DR!Init
     /\ ranges = 0 /\ pc = 0 /\ finished = 0 /\ sp = 0 /\ wk = 0 /\ metErr = 0
     /\ cancelled = 0 /\ backup = 0 /\ groups = 0 /\ im = 0 /\ failed = 0 /\ pairs = 0
     /\ remain = 0

RunNext ==
  \/ part = "import" /\ RI!Next /\ UNCHANGED <<part, ImportIdle>>
  \/ part = "files" /\ FI!Next /\ UNCHANGED <<part, FilesIdle>>
  \/ part = "log" /\ LI!Next /\ UNCHANGED <<part, LogIdle>>
  \/ part = "duplicates" /\ DR!Next /\ UNCHANGED <<part, DuplicatesIdle>>
  \/ part = "duplicates" /\ DR!Returned /\ UNCHANGED RunVars

importVars == RI!vars
filesVars == FI!vars
logVars == LI!vars
duplicatesVars == DR!vars
\* Some goroutine of the component that can go on does.
RunSpec ==
  /\ RunInit /\ [][RunNext]_RunVars
  /\ WF_importVars(part = "import" /\ (RI!MainStep \/ \E w \in {1, 2} : RI!WorkerStep(w)))
  /\ WF_filesVars(part = "files" /\ (FI!MainStep \/ \E g \in DOMAIN im : FI!ImportStep(g)))
  /\ WF_logVars(part = "log" /\ result = "none" /\ LI!WriteStep)
  /\ WF_duplicatesVars(part = "duplicates" /\ DR!Manager)

\* A finished range, and the whole engine when ImportEngine succeeds, is in TiKV with
\* both column families (writeAndIngestByRange, ImportEngine, unfinishedRanges).
EngineIsImported == part = "import" => RI!FinishedIsIngested /\ RI!ImportIsComplete

\* A restore of files writes pairs of the backup only, under their new keys, and when it
\* succeeds all of them (RewriteFileKeys, FileImporter.Import).
FilesAreRestored == part = "files" => FI!OnlyWantedPairs /\ FI!RestoreIsComplete

\* The rows of a log are in TiKV when writeRows succeeds (writeRows, writeAndIngestByRange).
LogRowsWritten == part = "log" => LI!RowsWritten

\* Collecting without an error misses no duplicate row but for known cases
\* (CollectDuplicateRowsFromTiKV, CollectDuplicateRowsFromLocalIndex).
DuplicatesCollected == part = "duplicates" => DR!DuplicatesCollected

\* ImportEngine, the import of files, writeRows and the collection of
\* duplicates return, whatever fails and however the regions change.
RequestsReturn ==
  <>[](CASE part = "import" -> RI!Returned
         [] part = "files" -> FI!Returned
         [] part = "log" -> LI!Returned
         [] part = "duplicates" -> DR!Returned)
====
