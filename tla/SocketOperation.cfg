SPECIFICATION FairSpec
CONSTANTS
  Epoll = e
  Threads = {e, a, b}
  AnyCallers = FALSE
  MaxQueue = 2
  None = none
INVARIANTS
  TypeOK
  InterestFollowsQueue
  EventsMirrorKernel
  QueueBounded
PROPERTY EveryRequestExecuted
CHECK_DEADLOCK FALSE
