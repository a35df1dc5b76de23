SPECIFICATION ServersSpec
CONSTANTS
  Servers = {s1, s2}
  MaxOps = 2
INVARIANT Converged
CHECK_DEADLOCK FALSE
