SPECIFICATION MCSpec
CONSTANTS
  Callers = {c1, c2, c3}
  Slots = {v1, v2}
  NumberSpace = 3
  MaxCalls = 3
  MaxSessions = 2
  MaxFail = 1
  n1 = n1
  n2 = n2
  Nodes = {n1, n2}
  DialPlans <- Plans
  MaxSocks = 3
  MaxFaults = 1
INVARIANTS
  
  
  
  ChannelPerEnd
  OrphanNeedsCause
PROPERTIES
  EveryCallReturns
  
CHECK_DEADLOCK FALSE
