SPECIFICATION FairSpec
CONSTANTS
  o1 = o1
  o2 = o2
  None = None
  Observer = {o1, o2}
  MaxLog = 4
  MaxOpen = 2
INVARIANTS DeliveredInOrder NothingLost ResumeLosesNothing
PROPERTY EventuallyDelivered
CHECK_DEADLOCK FALSE
