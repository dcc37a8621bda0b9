SPECIFICATION FairSpec
CONSTANTS
  Callers = {main, tool}
  Uuids = {udp, tcp}
  QueueSize = 1
  MaxCalls = 3
  None = None
INVARIANTS
  TypeOK
  RunnersAreOwned
PROPERTIES
  ImplementsRegistry
  RegisteredRuns
  CallsReturn
CHECK_DEADLOCK FALSE
