--------------------------- MODULE WorkerPoolPolicy ---------------------------
(***************************************************************************)
(* How many workers a pool should have: calculateRedisWorkerPoolSuggestion *)
(* of packages/storage-redis/src/worker-pool-policy.ts.                    *)
(*                                                                         *)
(* A pressure says how many sessions are ready to be served, of all kinds  *)
(* together (ready), of subagents (subagent), and of each the ones that    *)
(* only this process may serve (preferred, preferredSubagent); aged says   *)
(* that the oldest has waited for scaleUpMaxReadyAgeMs.  A load says how   *)
(* many healthy workers other processes have, and how many of them are     *)
(* busy.  Either may be unknown, when reading it failed.  The worker pools *)
(* (WorkerPool) and the controller (ControllerScaling) both ask it.        *)
(***************************************************************************)
EXTENDS Integers

CONSTANTS
  PerUnit,           \* readySessionsPerCapacityUnit
  Reserved,          \* reservedSubagentCapacity
  BusyNum, BusyDen   \* scaleUpBusyRatioThreshold = BusyNum / BusyDen

\* What the clamps leave of the options.
ASSUME PolicyAssumption ==
  /\ PerUnit \in Nat \ {0}
  /\ Reserved \in Nat
  /\ BusyNum \in Nat /\ BusyDen \in Nat \ {0} /\ BusyNum <= BusyDen

\* What is known of the queue: nothing, the sessions that are ready, or also (detailed)
\* which of them are subagents' or preferred, and their age.
Pressures ==
  [known : BOOLEAN, detailed : BOOLEAN,
   ready : Nat, subagent : Nat, preferred : Nat, preferredSubagent : Nat, aged : BOOLEAN]

Loads == [known : BOOLEAN, remote : Nat, remoteBusy : Nat]

UnknownPressure ==
  [known |-> FALSE, detailed |-> FALSE, ready |-> 0, subagent |-> 0, preferred |-> 0, preferredSubagent |-> 0, aged |-> FALSE]
UnknownLoad == [known |-> FALSE, remote |-> 0, remoteBusy |-> 0]

Larger(a, b) == IF a > b THEN a ELSE b
Smaller(a, b) == IF a < b THEN a ELSE b

\* Math.ceil(a / b)
CeilDiv(a, b) == (a + b - 1) \div b

\* busyRatio(activeWorkers, busyWorkers) >= scaleUpBusyRatioThreshold
MostlyBusy(size, busy) ==
  IF size <= 0 THEN BusyNum = 0 ELSE busy * BusyDen >= BusyNum * size

\* The workers that all processes together should have.
GlobalSuggestion(min, p, l, size, busy) ==
  LET allBusy == l.remoteBusy + busy
      allActive == l.remote + size
      pressureWorkers == IF p.known THEN CeilDiv(p.ready, PerUnit) ELSE min
      saturatedWorkers == IF p.known THEN CeilDiv(p.ready + allBusy, PerUnit) ELSE allBusy
      reservedWorkers == IF p.known /\ p.subagent > 0 THEN allBusy + Reserved ELSE 0
      ageBoostWorkers == IF p.known /\ p.ready > 0 /\ p.aged /\ MostlyBusy(allActive, allBusy)
                         THEN allActive + 1 ELSE 0
  IN Larger(Larger(pressureWorkers, saturatedWorkers), Larger(reservedWorkers, ageBoostWorkers))

\* The workers that this process needs for the sessions only it may serve.
PreferredSuggestion(p, busy) ==
  IF ~p.detailed THEN 0
  ELSE Larger(CeilDiv(p.preferred + busy, PerUnit),
              IF p.preferredSubagent > 0 THEN busy + Reserved ELSE 0)

\* What this process's share of the suggestion is, before it is clamped.
LocalSuggestion(min, p, l, size, busy) ==
  IF l.known THEN Larger(GlobalSuggestion(min, p, l, size, busy) - l.remote, PreferredSuggestion(p, busy))
  ELSE GlobalSuggestion(min, p, l, size, busy)

\* Mutated form: the upper bound is not applied.
SuggestUncapped(min, max, p, l, size, busy) ==
  Larger(min, LocalSuggestion(min, p, l, size, busy))

\* localSuggestedWorkers
Suggestion(min, max, p, l, size, busy) ==
  Larger(min, Smaller(max, LocalSuggestion(min, p, l, size, busy)))
=============================================================================
