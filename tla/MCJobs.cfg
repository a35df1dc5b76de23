SPECIFICATION MCSpec
CONSTANTS
  Logs = {l1}
  EbusWorkers = {e1, e2}
  JobWorkers = {j1, j2}
  BatchSize = 2
  MaxTop = 3
  MaxFail = 1
  LastRow = 3
  FetchSize = 1
  Readers = 2
  MaxFetch = 3
  MaxRefused = 1
INVARIANTS SingleApplier NoLostWakeup ViewUsable 
PROPERTIES EventuallyApplied EveryFetchAnswered
CHECK_DEADLOCK FALSE
