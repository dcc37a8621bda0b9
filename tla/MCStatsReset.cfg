SPECIFICATION FairSpec
CONSTANTS
  one = one
  two = two
  three = three
  Clients = {one, two, three}
  Follows <- MCFollows
  StreamCap = 1
  Width = 8
  MaxMessages = 1
  MaxResets = 1
  Loads <- MCReset
PROPERTIES
  GuardsReleased
CHECK_DEADLOCK FALSE
