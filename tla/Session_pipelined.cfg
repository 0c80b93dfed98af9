SPECIFICATION FairSpec
CONSTANTS
  IntSize = 2
  MaxBufSize = 4
  FrameSizes = {3, 6}
  Kinds = {"reply"}
  ReplySize = 2
  SndBuf = 3
  LowWater = 2
  MaxRequests = 3
  MaxInFlight = 2
PROPERTIES
  AnsweredEventually
CHECK_DEADLOCK FALSE
