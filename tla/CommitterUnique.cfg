SPECIFICATION FairSpec
CONSTANTS
  Logs = {l1, l2}
  EbusWorkers = {e1}
  JobWorkers = {j1}
  BatchSize = 2
  MaxTop = 1
  MaxFail = 0
PROPERTIES EventuallyApplied
CHECK_DEADLOCK FALSE
