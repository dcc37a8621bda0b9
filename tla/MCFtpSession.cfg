CONSTANTS
  t1 = t1
  t2 = t2
  Tasks = {t1, t2}
  Mixes <- MCMixes
  Blocks = 2
  Entries = 2
  PerPage = 1
  MaxRetries = 2
  SeqMod = 16
  MaxUp = 1
  MaxDown = 1
  MaxForeign = 1
  None = None

SPECIFICATION Spec

INVARIANTS
  TypeOK
  OnlyBurstsConfuse
  OkMeansDone
