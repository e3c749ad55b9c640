SPECIFICATION Views
CONSTANTS
  None = None
  asker = asker
  reader = reader
  Node = {1, 2, 3, 4, 5, 6}
  NodeType <- MCNodeType
  Graph <- MCGraph
  Query <- MCQuery
  Caller = asker
  Reader = {reader}
  Asked <- MCAsked
  Written = {2}
  Capacity = 2
  MaxState = 1
  MaxViews = 2
INVARIANT DfsAgreesWithBfs
CHECK_DEADLOCK FALSE
