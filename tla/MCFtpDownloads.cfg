CONSTANTS
  Downloads = {d1, d2}
  Listings = {l1, l2}
  None = None

SPECIFICATION FairSpec

CHECK_DEADLOCK FALSE

INVARIANTS
  TypeOK
  AnswersHold

PROPERTIES
  PageSettles
