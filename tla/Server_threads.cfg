SPECIFICATION FairSpec
CONSTANTS
  ListenFd = 3
  Sockets = {4, 5, 6}
  Threads = {1, 2}
  Requests <- ThreadsRequests
  SndRoom = 1
  NoRequest = NoRequest
  NoReply = NoReply
  NoSocket = NoSocket
PROPERTIES
  AnsweredIfNeighboursRead
  ClosedIfNeighboursRead
CHECK_DEADLOCK FALSE
