SPECIFICATION Spec
CONSTANTS
  IntSize = 2
  MaxBufSize = 4
  FrameSizes = {3}
  Kinds = {"reply"}
  ReplySize = 2
  SndBuf = 3
  LowWater = 1
  MaxRequests = 2
  MaxInFlight = 2
INVARIANT
  RepliesWhole
CHECK_DEADLOCK FALSE
