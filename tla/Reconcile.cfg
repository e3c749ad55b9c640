SPECIFICATION FairSpec
CONSTANTS
  k1 = k1
  k2 = k2
  None = None
  Key = {k1, k2}
  Handled = {k1, k2}
  Converging = {k1}
  MaxAttempts = 2
  MaxRetries = 1
  DeadLetter = "memory"
  StreamSurvives = TRUE
  CursorStore = FALSE
  MaxWrites = 2
  MaxRuns = 1
  MaxSweeps = 2
  MaxDrains = 1
INVARIANTS QueueGuarded NothingForgotten FirstIdleIsQuiet ConvergedWhenIdle
PROPERTY RunReturns
CHECK_DEADLOCK FALSE
