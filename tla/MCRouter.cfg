SPECIFICATION FairSpec
CONSTANTS
  a = a
  b = b
  HubOrigin = hub
  Links <- MCLinks
  Ident <- MCIdent
  Direction <- MCMixed
  Capacity = 1
  MaxReads = 2
  MaxHeartbeats = 1
INVARIANTS
  TypeOK
  SourceOrder
  FateExact
PROPERTIES
  ImplementsMulticast
  QueuesDrain
CHECK_DEADLOCK FALSE
