SPECIFICATION MCSpec
CONSTANTS
  Nodes = {1, 2, 3, 4}
  Starts <- Clusters
  MaxChanges = 2
  MayRestart = {3}
  LastNode = 3
INVARIANT NumbersUnique
CHECK_DEADLOCK FALSE
