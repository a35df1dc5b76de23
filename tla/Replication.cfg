SPECIFICATION FairSpec
CONSTANTS
  Workers = {w1, w2}
  BatchSize = 1
  MaxTop = 2
  MaxFault = 1
INVARIANTS
  ClaimedIsCovered
  CopyOfLog
  RequestsAreServed

  
CHECK_DEADLOCK FALSE
