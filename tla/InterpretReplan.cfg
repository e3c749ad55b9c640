SPECIFICATION Spec
CONSTANTS
  root = root
  a = a
  b = b
  None = None
  Run = {root, a, b}
  Root = root
  Policy <- MCPolicy
  Turn <- MCTurn
  Budget = {1}
  Backstop = 2
  MaxStarts = 2
  MaxCancels = 1
INVARIANTS ReplanFollowsFailure
CHECK_DEADLOCK FALSE
