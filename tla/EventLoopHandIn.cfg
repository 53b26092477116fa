SPECIFICATION FairSpec
CONSTANTS
  l1 = l1  l2 = l2  r1 = r1  w1 = w1
  Local <- None
  Remote <- OneRemote
  Workers <- OneWorker
  Requests = {"stop"}
  EarlyCalls = FALSE
  KeepAlive = {TRUE}
  Kernel519 = {FALSE}
  Batch = 4
  MaxTaskNr = 0
  MaxAwaits = 1
  MaxCalls = 2
INVARIANTS
  TrackerExact
  HeldOnce
  NoUserWorkLost
  WatcherServes
PROPERTIES
  ImplementsPark
  WakeupSuffices
CHECK_DEADLOCK FALSE
