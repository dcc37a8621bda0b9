SPECIFICATION FairSpec
CONSTANTS
  FileSize = 4
  ChunkLen = 1
  MaxRetries = 1
  MaxAir = 2
  Cuts = {2}
INVARIANTS
  TypeOK
  BooksBalance
  NoHoles
PROPERTY
  ReadEnds
CHECK_DEADLOCK FALSE
