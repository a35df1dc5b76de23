SPECIFICATION FairSpec
CONSTANTS
  Workers = {w1}
  BatchSize = 1
  MaxTop = 2
  MaxFault = 0
PROPERTIES EventuallyApplied
CHECK_DEADLOCK FALSE
