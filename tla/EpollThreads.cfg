SPECIFICATION FairSpec
CONSTANT N = 3
INVARIANTS
  TypeOK
  ThreadsKeepTheirState
PROPERTY FirstThreadStops
CHECK_DEADLOCK FALSE
