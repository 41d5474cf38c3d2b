CONSTANTS
  r1 = r1
  r2 = r2
  r3 = r3
  Runs = {r1, r2, r3}
  Mixes <- MixedRuns
  Guides = {g1}
  Executor = executor
  Recovery = recovery
  MaxEvents = 1
  Faults = {"crash", "death", "hook", "unread"}
SPECIFICATION Spec
INVARIANTS
  TypeOK
  MessageNotForgotten
  PendingIsExclusive
  StartedOncePerCrash
  NothingStrandedOtherwise
CHECK_DEADLOCK FALSE
