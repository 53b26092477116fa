SPECIFICATION HsSpec
CONSTANTS
  HsShape <- StreamSecond
  HsStream <- PeerStream
  HsHeadParts = 1
  HsCap = 5
  HsPipelined = 2
  HsSlots = 3
  HsStreamBehind = TRUE
  HsChunks = 1
INVARIANT HsWireOrder
CHECK_DEADLOCK FALSE
