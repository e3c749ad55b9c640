SPECIFICATION FairSpec
CONSTANTS
  n1 = n1
  e1 = e1
  f = f
  Id = {n1, e1}
  Edge = {e1}
  View = {f}
  MaxLog = 3
  MaxOpen = 2
INVARIANTS ViewAgreesWithLog QuiescentViewIsApplied
PROPERTIES CursorNeverRegresses FollowerCatchesUp
CHECK_DEADLOCK FALSE
