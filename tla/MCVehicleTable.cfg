SPECIFICATION FairSpec
CONSTANTS
  Systems = {v}
  Vehicle = v
  Versions = {old, new}
  Pages = {w}
  RingSize = 1
  None = None
INVARIANTS
  TypeOK
PROPERTIES
  ShownSettles
  VersionKnown
