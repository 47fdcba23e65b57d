CONSTANTS
  Pages = {p1, p2}
  ChanCap = 1
  MaxRuns = 2
SPECIFICATION Spec
INVARIANTS OneRunAtATime NoSendOnClosed
PROPERTIES StopFreesTheSlot
CHECK_DEADLOCK FALSE
