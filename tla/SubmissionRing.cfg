SPECIFICATION RingSpec
CONSTANTS
  Ops = {o1, o2, o3, o4}
  Entries = 2
  MaxTaken = 6
INVARIANT SuspendedIsSent
CHECK_DEADLOCK FALSE
