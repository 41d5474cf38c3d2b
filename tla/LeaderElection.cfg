CONSTANTS
  c1 = c1
  c2 = c2
  Controllers <- Pair
  Duration = 7
  RenewInterval = 1
  RetryInterval = 1
  Skew = 1
  Offset <- FirstAhead
  MaxRequest = 1
  MaxEvaluation = 1
  MaxClose = 1
  MaxFaults = 2
SPECIFICATION FairSpec
INVARIANTS
  TypeOK
  OneLeader
  OneReconciler
PROPERTIES
  SomeoneLeads
  LeadershipSettles
