CONSTANTS
  s1 = s1
  s2 = s2
  r1 = r1
  r2 = r2
  r3 = r3
  w1 = w1
  w2 = w2
  i1 = i1
  i2 = i2
  None = None
  Sessions = {s1, s2}
  Runs = {r1, r2, r3}
  Workers = {w1, w2}
  Instances = {i1, i2}
  SessionOf <- MCSessionOf
  InstanceOf <- MCInstanceOf
  ClaimScanLimit = 2
  PressureScanLimit = 1
  Hints = {None, w1}
  MaxMoves = 0
  Faults = {"stall"}
SPECIFICATION FairSpec
INVARIANTS
  ReadySetIsListed
  PendingIsReachable
  RunInOnePlace
  PressureSeesBacklog
PROPERTY
  EveryRunProcessed
