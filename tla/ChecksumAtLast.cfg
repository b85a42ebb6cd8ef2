SPECIFICATION Spec
CONSTANTS
  Plans <- AtLastPlans
  Tables = {1, 2}
  Layout <- MCLayout
  MaxNow = 5
  TTL = 3
  LongLife = 8
  MaxErrorRetry = 2
  MinConcurrency = 4
CHECK_DEADLOCK FALSE
INVARIANT FailureReported
