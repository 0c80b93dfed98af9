SPECIFICATION FairSpec
CONSTANTS
  N = 1
  ListenFd = 3
  SessionFds = {4, 5}
  MaxBacklog = 2
  SpuriousWakeups = TRUE
PROPERTIES
  EofClosesSession
