SPECIFICATION Spec
CONSTANTS
  Callers = {c}
  Clients = {w}
  Names = {p}
  Values = {low, high}
  RingSize = 2
  MaxAir = 1
  None = None
SYMMETRY MCSymmetry
INVARIANTS
  TypeOK
  ViewsConverge
CHECK_DEADLOCK FALSE
