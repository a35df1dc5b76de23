SPECIFICATION MCSpec
CONSTANTS
  Nodes = {1, 2, 3, 4}
  Starts <- Clusters
  MaxChanges = 2
  MayRestart = {3}
  LastNode = 3
INVARIANTS
  LinksAreReal
  ViewsAgree
  RoutesSpan
PROPERTIES
  NumbersKept
  GossipEnds
  ReturnsTree
CHECK_DEADLOCK FALSE
