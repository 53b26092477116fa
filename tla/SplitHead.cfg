SPECIFICATION HsSpec
CONSTANTS
  HsShape <- TwoRequests
  HsStream <- PeerStream
  HsHeadParts = 2
  HsCap = 5
  HsPipelined = 2
  HsSlots = 3
  HsStreamBehind = FALSE
  HsChunks = 1
INVARIANT HsHeadersIntact
CHECK_DEADLOCK FALSE
