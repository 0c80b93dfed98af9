SPECIFICATION Spec
CONSTANTS
  ListenFd = 3
  Sockets = {4}
  Threads = {1}
  Requests <- LayoutRequests
  SndRoom = 1
  NoRequest = NoRequest
  NoReply = NoReply
  NoSocket = NoSocket
INVARIANT
  ProducedAsWritten
CHECK_DEADLOCK FALSE
