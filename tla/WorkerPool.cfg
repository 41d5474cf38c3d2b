CONSTANTS
  MinWorkers = 1
  MaxWorkers = 2
  PerUnit = 1
  Reserved = 1
  BusyNum = 3
  BusyDen = 4
  Workers = {w1, w2, w3}
  UpSamples = 2
  DownSamples = 2
  Arrivals = 2
  MaxRemote = 1
  MaxFailures = 1
SPECIFICATION FairSpec
INVARIANTS
  TypeOK
  ClosedIsQuiet
  BusyIsLocal
PROPERTIES
  WithinBounds
  ShrinkIsDeliberate
  PoolFollowsDemand
  CloseEnds
CHECK_DEADLOCK FALSE
