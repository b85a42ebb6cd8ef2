SPECIFICATION RunSpec
CONSTANTS
  KeyEnd = 4
  PageLimit = 2
  RetryTimes = 2
  MaxSleeps = 2
  Cap = 2
  BackupPlans <- MCBackupPlans
CHECK_DEADLOCK FALSE
INVARIANTS TreeDisjoint BackupIsComplete BackupIsGuarded SuccessIsComplete RestoreIsOrdered 
PROPERTIES BacksUpRange TasksReturn
