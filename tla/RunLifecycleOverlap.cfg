CONSTANTS
  c1 = c1
  c2 = c2
  Recoverers = {c1, c2}
  Strategy = "requeue_all"
  DrainStrategy = "requeue_running"
  MaxAttempts = 1
  MaxCancels = 1
  MaxDrains = 1
  MaxManual = 1
  MaxDeliveries = 1
  MaxLostRecoveries = 1
  HasTimeout = TRUE
  Overlapping = {"heartbeat", "cancel"}
  Faults = {"crash", "early_crash"}
SPECIFICATION Spec
INVARIANTS
  TypeOK
  AttemptsBounded
  QueuedIsDelivered
  OneOwner
PROPERTY
  EndedIsFinal
CONSTRAINT MCFollowed
SYMMETRY MCRecovererSymmetry
CHECK_DEADLOCK FALSE
