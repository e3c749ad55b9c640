SPECIFICATION Seams
CONSTANTS
  d1 = d1
  d2 = d2
  None = None
  Absent = Absent
  Driver = {d1, d2}
  MessageId = {1, 2, 3}
  SummaryId = {1, 2, 3}
  Role = {"assistant", "tool"}
  Spoken = {"assistant"}
  TailKeep = 1
  Policy <- MCPolicy
  Script <- MCScript
  Response <- MCResponse
  Invocation = {1, 2}
  Tool <- MCTool
  Tick = {0, 1, 3}
  Thread = {1, 2, 3}
  MaxCounter = 1
  Millis = {0, 1, 2}
  LastMillis = 2
INVARIANTS OneSummaryEach SummaryCoversRest AssembledIsSent PartialTurnIsPrefix OneHonestResult RealTimeOrder
PROPERTIES SummaryRefSettles WakesInOrder InvocationEnds
CHECK_DEADLOCK FALSE
