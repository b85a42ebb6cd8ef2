SPECIFICATION FairSpec
CONSTANTS
  e1 = e1
  e2 = e2
  Engines = {e1, e2}
  Recovered = {{}, {e2}}
  NRows = 1
  MaxQuota = 1
  MaxFlush = 1
INVARIANTS RowsKept
PROPERTY EnginesFinish
