SPECIFICATION Spec
CONSTANTS
  k1 = k1
  k2 = k2
  None = None
  Key = {k1, k2}
  Handled = {k1, k2}
  Converging = {}
  MaxAttempts = 2
  MaxRetries = 1
  DeadLetter = "memory"
  StreamSurvives = FALSE
  CursorStore = FALSE
  MaxWrites = 2
  MaxRuns = 2
  MaxSweeps = 1
  MaxDrains = 1
INVARIANTS IdleIsQuiet
CHECK_DEADLOCK FALSE
