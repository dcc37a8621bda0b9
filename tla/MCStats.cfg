SPECIFICATION FairSpec
CONSTANTS
  one = one
  two = two
  three = three
  Clients = {one, two, three}
  Follows <- MCFollows
  StreamCap = 1
  Width = 8
  MaxMessages = 3
  MaxResets = 1
  Loads <- MCLoads
INVARIANTS
  TypeOK
  NothingFromBeforeReset
PROPERTIES
  StatsFlow
CHECK_DEADLOCK FALSE
