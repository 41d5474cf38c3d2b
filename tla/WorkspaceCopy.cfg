CONSTANTS
  None = None
  Users = {u1, u2}
  Tasks = {t1}
  Copies = {c1, c2}
  MaxWrites = 2
  MaxLeases = 2
  MaxFailures = 1
SPECIFICATION FairSpec
INVARIANTS
  TypeOK
  NothingLostOtherwise
PROPERTY
  DrainConverges
CHECK_DEADLOCK FALSE
