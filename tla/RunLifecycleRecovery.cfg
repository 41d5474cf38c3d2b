CONSTANTS
  c1 = c1
  c2 = c2
  Recoverers = {c1, c2}
  Strategy = "requeue_running"
  DrainStrategy = "requeue_running"
  MaxAttempts = 1
  MaxCancels = 1
  MaxDrains = 1
  MaxManual = 1
  MaxDeliveries = 2
  MaxLostRecoveries = 1
  HasTimeout = TRUE
  Overlapping = {"cancel"}
  Faults = {"crash", "early_crash"}
SPECIFICATION FairSpec
PROPERTIES
  QueuedCancelHonoured
  RunSettles
CONSTRAINT MCUncontested
CHECK_DEADLOCK FALSE
