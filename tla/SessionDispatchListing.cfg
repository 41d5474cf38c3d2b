CONSTANTS
  r1 = r1
  r2 = r2
  r3 = r3
  Runs = {r1, r2}
  Mixes <- MessageThenContinuation
  Guides = {}
  Executor = executor
  Recovery = recovery
  MaxEvents = 0
  Faults = {}
SPECIFICATION Spec
INVARIANT
  WaitingRunKept
CHECK_DEADLOCK FALSE
