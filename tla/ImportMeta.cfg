\* Two tasks that crash, fail, restart and retry a commit, on either kind of PD.
SPECIFICATION RunSpec
CONSTANTS
  Tasks = {1, 2}
  RawRowIDMax = 2
  UsedRowIDs = 1
  Chunks = 2
  PreRows = {0, 1}
  NeedAutoID = TRUE
  Checksum = "required"
  MaxRetry = 1
  MaxCrash = 1
  PauseTTL = {TRUE, FALSE}
  GracefulExit = TRUE
INVARIANTS AtMostOneChecksuming RowRangesDisjoint TableMetaIsSafe TaskMetaIsSafe
PROPERTIES FrozenWhileChecksuming FinishCoversAllTasks ImportSettles
CHECK_DEADLOCK FALSE
