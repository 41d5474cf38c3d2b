CONSTANTS
  c1 = c1
  c2 = c2
  Recoverers = {c1}
  Strategy = "requeue_running"
  DrainStrategy = "requeue_running"
  MaxAttempts = 1
  MaxCancels = 1
  MaxDrains = 0
  MaxManual = 0
  MaxDeliveries = 2
  MaxLostRecoveries = 0
  HasTimeout = FALSE
  Overlapping = {}
  Faults = {}
SPECIFICATION FairSpec
PROPERTY
  StartingCancelHonoured
CHECK_DEADLOCK FALSE
