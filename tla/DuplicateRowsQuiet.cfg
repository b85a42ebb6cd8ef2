\* the local index, without faults
SPECIFICATION FairSpec
CONSTANTS
  KeyEnd = 7
  PageLimit = 9
  RowStart = 3
  Handle <- MCHandle
  RegionConcurrency = 1
  MaxRetryTimes = 2
  MaxGetRequestKeyCount = 2
  Plans <- QuietPlans
INVARIANT AllDuplicatesStored
CHECK_DEADLOCK FALSE
