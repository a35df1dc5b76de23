SPECIFICATION FairSpec
CONSTANTS
  Writers = {c1}
  Threads = {c1}
  Clients = {c1}
  Ids = {0, 1}
  MaxId = 2
  Tables = {t1}
  Ranges = {1, 2}
  BatchSize = 2
  MaxTop = 2
  MaxFail = 0
  MaxOpenFail = 0
  MaxRestart = 1
PROPERTIES EventuallyApplied
CHECK_DEADLOCK FALSE
