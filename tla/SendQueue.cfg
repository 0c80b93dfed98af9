SPECIFICATION FairSpec
CONSTANTS
  Senders = {s1, s2}
  MaxSendLength = 2
  MaxSendBuffer = 2
  MsgSizes = {0, 1, 3, 4}
  MaxMessages = 3
  MaxErrors = 1
INVARIANTS
  TypeOK
  MallocMatchesQueue
  ExcessBounded
  MessagesInOrder
  ChunksWhole
PROPERTIES
  ReportsTruthful
  SentEventually
CHECK_DEADLOCK FALSE
