CONSTANTS
  PerUnit = 1
  Reserved = 1
  BusyNum = 3
  BusyDen = 4
  MinReplicas = 1
  MaxReplicas = 2
  UpSamples = 2
  DownSamples = 2
  AllowScaleDown = TRUE
  Slots = 1
  PerSandbox = 1
  WarmEmpty = 0
  MaxReady = 2
  MaxWorkspaces = 2
  MaxSeen = 3
  Evaluations = {e1, e2}
  MaxFaults = 1
SPECIFICATION FairSpec
INVARIANT
  TypeOK
PROPERTIES
  LimitsKept
  ReplicasFollowDemand
CHECK_DEADLOCK FALSE
