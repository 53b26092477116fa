SPECIFICATION MCSpec
CONSTANTS
  Producers = {p1, p2, p3}
  MaxPending = 2
  Ops = {o1, o2, o3}
  Nobody = Nobody
  Capacity = 1
  MaxCap = 4
  GenLimit = 8
  SqEntries = 2
  CnMax = 4
  CnOps = {"o1", "o2"}
  TwSlots = 2
  TwTick = 2
  TwNodes = {"dl", "t"}
  TwDelays = {4, 5}
  TwLag = 1
  TwEnd = 7
  QuWrap = 8
  RqCap = 2
  RqMax = 5
  SpSize = 4
  SpVals = {"a", "b"}
  FdNumbers = {0, 1}
  FdFiles = 4
  FdSockets = {"x", "y"}
  HsShape <- MCShape
  HsStream <- MCStream
  HsHeadParts = 1
  HsCap = 5
  HsPipelined = 2
  HsSlots = 3
  HsStreamBehind = FALSE
  HsChunks = 1
  CpOrigin <- MCCpOrigin
  CpPerHost = 2
  CpMaxTotal = 2
  CpIdleMax = 1
  CpEntries = 1
  CcShape <- MCCcShape
  CcCap = 4
  CcMaxBody = 2
  HcOrigins = {"a", "b"}
  HcFields = {"ContentLength", "TransferEncoding", "Authorization"}
  HcRetries = 1
  HcRedirects = 2
  RrRoutes <- MCRoutes
  RrParams = {":x", ":y"}
  RrWilds = {"*w"}
  RrMethods = {"GET", "PUT"}
  RrPaths <- MCPaths
  RrSlots = 2
  RrAdds = 3
  HdWires <- MCHdWires
  HdField <- MCHdField
  HdForbidden = {"Host"}
  HdCap = 26
  HdSpillCap = 9
  HdLenMax = 9
  HdMaxHeaders = 2
  HdMaxTrailers = 1
  HdReads = {1, 2, 12}
  WsScripts <- MCWsScripts
  WsWindow = 3
  WsMaxMessage = 5
  WsParallel = FALSE
  WsCalls = 1
  TlProgram <- MCTlProgram
  TlFlights <- MCTlFlights
  TlHsLast <- MCTlHsLast
  TlRecords = 2
  TlBite = 2
  TlMaxBite = 3
CHECK_DEADLOCK FALSE
INVARIANTS
  ComponentsTypeOK
  NeverSleepsOverWork
  OwnCompletion
  WaitingIsFound
  SlotsDivided
  CnTrackedExact
  TwSound
  QuFifo
  CoOwned
  FdOneOwner
  HsHeadersIntact
  HsInOrder
  CpSound
  CcSound
  HcDiscipline
  RouterMatches
  HdEntriesIntact
  WsSound
  TlStreamExact
PROPERTIES
  CnCancelCoversTree
  TwOnItsTick
