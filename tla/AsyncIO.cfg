SPECIFICATION FairSpec
CONSTANTS
  N = 2
  ListenFd = 3
  SessionFds = {4, 6}
  MaxBacklog = 1
  SpuriousWakeups = TRUE
INVARIANTS
  TypeOK
  PopsOwnRequest
  BoundIsOpen
  EveryConnectionServed
  ListenerArmed
  NoCircularWait
PROPERTIES
  AcceptedEventually
  
