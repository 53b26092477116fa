SPECIFICATION TimeoutFairSpec
CONSTANTS
  l1 = l1  l2 = l2  r1 = r1  w1 = w1
  Local <- OneLocal
  Remote <- None
  Workers <- None
  Requests = {"stop", "shutdown"}
  EarlyCalls = FALSE
  KeepAlive = {TRUE}
  Kernel519 = {TRUE}
  Batch = 4
  MaxTaskNr = 0
  MaxAwaits = 1
  MaxCalls = 2
INVARIANTS
  StopHonoured
PROPERTIES
  NoRegress
  RequestsEnd
CHECK_DEADLOCK FALSE
