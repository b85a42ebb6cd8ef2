SPECIFICATION RunSpec
CONSTANTS
  Drivers = {"mysql", "file", "glue"}
  NEngines = 2
  MaxPos = 1
  MaxTrouble = 1
  MaxCtl = 1
  Keys = {1, 2, 3, 4}
  MaxRows = 5
  MaxAppend = 2
  Prealloc = 4
  Limits = {0, 1}
  MergeWidth = 2
  Workers = {w1, w2}
INVARIANTS CheckpointsAreSound  SourceIsCut
PROPERTIES ProgressKept TableDataSettles
CHECK_DEADLOCK FALSE
