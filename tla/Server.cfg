SPECIFICATION RunSpec
CONSTANTS
  Goroutines = {1, 2, 3}
  Calls = 2
  Clock = {1, 2}
  ClientRequests = 2
  Clients = {1, 2}
  Tables = {1, 2}
  MaxNow = 4
  TTL = 3
  LongLife = 8
  MaxErrorRetry = 2
  MinConcurrency = 4
CHECK_DEADLOCK FALSE
  
PROPERTIES IsAGate OnlyWantedCancelled ServerSettles
