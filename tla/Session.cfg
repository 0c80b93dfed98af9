SPECIFICATION FairSpec
CONSTANTS
  IntSize = 2
  MaxBufSize = 4
  FrameSizes = {3, 6}
  Kinds = {"reply", "badVersion", "silent", "unknown"}
  ReplySize = 2
  SndBuf = 3
  LowWater = 2
  MaxRequests = 3
  MaxInFlight = 2
INVARIANTS
  TypeOK
  PendingRecvWellFormed
  BufferIsStreamSegment
  NoFalseClose
PROPERTIES
  NoParseAfterRealloc
  ImplementsRequestReply
  AnsweredOneAtATime
  ClosedEventually
CHECK_DEADLOCK FALSE
