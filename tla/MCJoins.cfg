SPECIFICATION JoinsSpec
CONSTANTS
  l1 = l1  l2 = l2  r1 = r1  w1 = w1
  Local <- TwoLocal
  Remote <- None
  Workers <- OneWorker
  Requests = {}
  EarlyCalls = FALSE
  KeepAlive = {FALSE}
  Kernel519 = {TRUE, FALSE}
  Batch = 2
  MaxTaskNr = 0
  MaxAwaits = 1
  MaxCalls = 2
  SemWaiters = {"s1", "s2", "s3", "s4"}
  SemNeed <- MCSemNeed
  SemInitial = 2
  SfCallers = {"c1", "c2", "c3", "c4"}
  SfFlights = 2
  WaKids = {"k1", "k2", "k3"}
  ScKids = {"k1", "k2", "k3"}
  CtOps = 3
  RtThreads = 2
  RtTasks = {1, 2, 3}
  HvClients = {"c1", "c2", "c3"}
  HvMax = 2
INVARIANTS
  JoinsTypeOK
  SemSound
  SfSound
  WaSharedState
  ChildrenContained
  CtTimerSafe
  RtFutures
PROPERTIES
  CancelingEnds
  HandedInRuns
  JoinsReturn
CHECK_DEADLOCK FALSE
