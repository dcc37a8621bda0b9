SPECIFICATION FairSpec
CONSTANTS
  Systems = {v, u}
  RingSize = 2
  When = "while_armed"
  Configured = None
  Path = "directory"
  Recognised = 2
  None = None
INVARIANTS
  TypeOK
  FlightsAreKept
PROPERTIES
  FilesFollowArming
