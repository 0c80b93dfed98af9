SPECIFICATION Spec
CONSTANTS
  ListenFd = 3
  Sockets = {4, 5}
  Threads = {1, 2}
  Requests <- MCRequests
  SndRoom = 1
  NoRequest = NoRequest
  NoReply = NoReply
  NoSocket = NoSocket
INVARIANTS
  TypeOK
  NegotiatedVersionServed
  AcknowledgedAsAsked
  ProducedAsWritten
PROPERTY
  ImplementsSasl
CHECK_DEADLOCK FALSE
