SPECIFICATION FairSpec
CONSTANTS
  one = one
  two = two
  Drivers = {one, two}
  Setups <- MCSetups
  Clients = {gcs, tool}
  Remote = Remote
  MaxPieces = 2
  MaxUnsent = 2
  RingSize = 1
  PipeSize = 1
  Topics = 2
  Records = 3
  Readable = {1, 3}
INVARIANTS
  TypeOK
PROPERTIES
  NeverGivesUp
  RemovalIsClean
  WholeAndOnce
CHECK_DEADLOCK FALSE
