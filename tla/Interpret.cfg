SPECIFICATION FairSpec
CONSTANTS
  root = root
  a = a
  b = b
  None = None
  Run = {root, a, b}
  Root = root
  Policy <- MCPolicy
  Turn <- MCTurn
  Budget = {1}
  Backstop = 2
  MaxStarts = 2
  MaxCancels = 1
INVARIANTS StepBudgetHolds ProgressIsDurable TokenBudgetEndsSegment TreeBounded PlansAreEarned
PROPERTIES CancelIsKept RunsReturn
CHECK_DEADLOCK FALSE
