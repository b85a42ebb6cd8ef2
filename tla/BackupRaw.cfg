SPECIFICATION FairSpec
CONSTANTS
  KeyEnd = 4
  PageLimit = 2
  RetryTimes = 2
  MaxSleeps = 2
  Cap = 2
  BackupPlans <- RawPlans
CHECK_DEADLOCK TRUE
INVARIANT RetriedAtFineGrained
