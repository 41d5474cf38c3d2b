--------------------------- MODULE ControllerScaling ---------------------------
(***************************************************************************)
(* RedisController (apps/controller/src/controller.ts) while it is the     *)
(* leader: it evaluates how many replicas of the worker there should be    *)
(* and tells the scale target (packages/scale-target-control).             *)
(*                                                                         *)
(* The interval timer starts an evaluation whether or not the one before   *)
(* it has ended.  An evaluation reads the registry, the queue and the      *)
(* placements, counts its sample, probes the replicas when it means to     *)
(* remove one, decides, and writes the number of replicas it wants; each   *)
(* of these is an await.  What the registry lists is any number: replicas  *)
(* take time to start and to stop, heartbeats are late, and leases of      *)
(* replicas that are gone last a while.                                    *)
(***************************************************************************)
EXTENDS WorkerPoolPolicy, FiniteSets

CONSTANTS
  MinReplicas, MaxReplicas,
  UpSamples, DownSamples,   \* scaleUpSampleSize, scaleDownSampleSize
  AllowScaleDown,           \* the scale target's allow_scale_down
  Slots,                    \* workers of a replica
  PerSandbox, WarmEmpty,    \* maxWorkspacesPerSandbox, warmEmptyCount
  MaxReady, MaxWorkspaces,  \* bounds: sessions ready, workspaces placed
  MaxSeen,                  \* bound: healthy replicas listed, at least maxReplicas
  Evaluations,              \* bound: evaluations in flight
  MaxFaults                 \* bound: crashes of the controller, failed writes

ASSUME ScalingAssumption ==
  /\ MinReplicas \in Nat /\ MaxReplicas \in Nat \ {0} /\ MinReplicas <= MaxReplicas
  /\ UpSamples \in Nat \ {0} /\ DownSamples \in Nat \ {0}
  /\ AllowScaleDown \in BOOLEAN
  /\ Slots \in Nat \ {0} /\ PerSandbox \in Nat \ {0} /\ WarmEmpty \in Nat
  /\ MaxReady \in Nat /\ MaxWorkspaces \in Nat /\ MaxFaults \in Nat
  /\ MaxSeen \in Nat /\ MaxSeen >= MaxReplicas

VARIABLES
  running,                 \* #running: this controller leads
  evals,                   \* the evaluations in flight
  ups, downs,              \* #scaleUpPressureStreak, #scaleDownPressureStreak
  upCooling, downCooling,  \* a cooldown runs
  target,                  \* the replicas the scale target was told to run
  faults                   \* crashes and failures so far

memory == <<ups, downs, upCooling, downCooling>>
vars == <<running, evals, memory, target, faults>>

NoEvaluation == [step |-> "none"]

\* The numbers of replicas that may be counted, and so asked for.
Counts == 0 .. MaxSeen

\* An evaluation that knows what it wants, and whether the probe allowed it.
Deciding == {"observe", "patch"}

TypeOK ==
  /\ running \in BOOLEAN
  /\ \A e \in Evaluations :
       /\ evals[e].step \in {"none", "read", "sample", "gate"} \cup Deciding
       /\ evals[e].step \in {"sample", "gate"} => evals[e].suggested \in 0 .. MaxReplicas /\ evals[e].current \in Counts
       /\ evals[e].step \in Deciding => evals[e].desired \in Counts /\ evals[e].current \in Counts
  /\ ups \in Nat /\ downs \in Nat
  /\ upCooling \in BOOLEAN /\ downCooling \in BOOLEAN
  /\ target \in Counts
  /\ faults \in Nat

Init ==
  /\ running = FALSE
  /\ evals = [e \in Evaluations |-> NoEvaluation]
  /\ ups = 0 /\ downs = 0
  /\ upCooling = FALSE /\ downCooling = FALSE
  /\ target = MinReplicas
  /\ faults = 0

-----------------------------------------------------------------------------
(* How many replicas the load and the placements call for.                   *)

Clamp(n, low, high) == Larger(low, Smaller(high, n))

\* effectiveCapacityPerReplica
Capacity(replicas, slots) ==
  IF replicas <= 0 \/ slots <= 0 THEN 1 ELSE Larger(1, CeilDiv(slots, replicas))

\* Mutated form: the suggestion is not brought back to the bounds.
WorkloadUnbounded(p, replicas, slots, busy) ==
  LET capacity == Capacity(replicas, slots)
  IN CeilDiv(GlobalSuggestion(0, p, UnknownLoad, slots, busy), capacity)

\* calculateStandaloneWorkerReplicas
WorkloadReplicas(p, replicas, slots, busy) ==
  LET capacity == Capacity(replicas, slots)
      workers == Suggestion(MinReplicas * capacity, MaxReplicas * capacity, p, UnknownLoad, slots, busy)
  IN Clamp(CeilDiv(workers, capacity), MinReplicas, MaxReplicas)

\* summarizeSandboxFleet, for workspaces without an owner in a shared pool and
\* sandboxes that are managed by the controller.  A sandbox that has workspaces
\* and is short of a resource asks for another one.
DesiredSandboxes(workspaces, pressured) ==
  Clamp(CeilDiv(workspaces, PerSandbox) + WarmEmpty + pressured, MinReplicas, MaxReplicas)

SuggestedReplicas(p, replicas, slots, busy, workspaces, pressured) ==
  Larger(WorkloadReplicas(p, replicas, slots, busy), DesiredSandboxes(workspaces, pressured))

-----------------------------------------------------------------------------
(* Leadership (LeaderElection): the first evaluation, and the timer.         *)

Begin(e, reason) ==
  /\ evals[e].step = "none"
  /\ evals' = [evals EXCEPT ![e] = [step |-> "read", reason |-> reason]]

GainLeadership(e) ==
  /\ ~running
  /\ running' = TRUE
  /\ Begin(e, "startup")
  /\ UNCHANGED <<memory, target, faults>>

Tick(e) ==
  /\ running
  /\ Begin(e, "interval")
  /\ UNCHANGED <<running, memory, target, faults>>

\* stop() ends the timer.  The evaluations in flight go on.
LoseLeadership ==
  /\ running
  /\ running' = FALSE
  /\ UNCHANGED <<evals, memory, target, faults>>

-----------------------------------------------------------------------------
(* evaluateNow                                                               *)

QueuePressures ==
  {p \in [known : {TRUE}, detailed : {TRUE}, ready : 0 .. MaxReady, subagent : {0, 1}, preferred : {0}, preferredSubagent : {0}, aged : BOOLEAN] :
     p.subagent <= p.ready /\ (p.ready = 0 => ~p.aged)}

\* What an evaluation may come to: the healthy replicas that the registry
\* lists, and the replicas that a queue and placements, whatever they are, call
\* for.
Readings ==
  {[current |-> n, suggested |-> SuggestedReplicas(p, n, n * Slots, Smaller(b, n * Slots), w, Smaller(s, Smaller(w, n)))] :
     n \in Counts, p \in QueuePressures, b \in 0 .. MaxSeen * Slots, w \in 0 .. MaxWorkspaces, s \in Counts}

Read(e) ==
  /\ evals[e].step = "read"
  /\ \E r \in Readings :
       evals' = [evals EXCEPT ![e] = [step |-> "sample", reason |-> evals[e].reason,
                                      current |-> r.current, suggested |-> r.suggested]]
  /\ UNCHANGED <<running, memory, target, faults>>

\* Mutated form: a scale-down goes one replica too far.
DesiredOneFewer(v, downTarget, allowed, up) ==
  IF v.reason = "startup" THEN IF v.suggested < v.current /\ ~allowed THEN v.current ELSE v.suggested
  ELSE IF v.suggested > v.current THEN IF up >= UpSamples /\ ~upCooling THEN v.suggested ELSE v.current
  ELSE IF downTarget < v.current THEN IF allowed /\ ~downCooling THEN downTarget - 1 ELSE v.current
  ELSE v.suggested

\* #desiredReplicas
Desired(v, downTarget, allowed, up) ==
  IF v.reason = "startup" THEN IF v.suggested < v.current /\ ~allowed THEN v.current ELSE v.suggested
  ELSE IF v.suggested > v.current THEN IF up >= UpSamples /\ ~upCooling THEN v.suggested ELSE v.current
  ELSE IF downTarget < v.current THEN IF allowed /\ ~downCooling THEN downTarget ELSE v.current
  ELSE v.suggested

\* The decision, the cooldowns it starts, and on to the scale target.
Decide(e, downTarget, probe, up) ==
  \E desired \in {Desired(evals[e], downTarget, probe # "blocked", up)} :
    LET v == evals[e]
        raised == v.reason = "interval" /\ desired > v.current
        lowered == v.reason = "interval" /\ downTarget < v.current /\ desired < v.current
    IN /\ upCooling' = (upCooling \/ raised)
       /\ downCooling' = (downCooling \/ raised \/ lowered)
       /\ evals' = [evals EXCEPT ![e] =
                      [step |-> "observe", current |-> v.current, desired |-> desired, probe |-> probe]]

\* Mutated form: the count of high samples is not kept.
SampleForgets(e) ==
  /\ evals[e].step = "sample"
  /\ LET v == evals[e]
         up == IF v.suggested > v.current THEN 1 ELSE 0
         down == IF v.suggested < v.current THEN downs + 1 ELSE 0
         downTarget == IF v.suggested < v.current /\ down >= DownSamples THEN v.suggested ELSE v.current
     IN /\ ups' = up /\ downs' = Smaller(down, DownSamples)
        /\ IF downTarget < v.current
           THEN evals' = [evals EXCEPT ![e].step = "gate"] /\ UNCHANGED <<upCooling, downCooling>>
           ELSE Decide(e, downTarget, "none", up)
  /\ UNCHANGED <<running, target, faults>>

\* #scaleDownTargetReplicas; the replicas are probed only when its result is
\* below their number.
Sample(e) ==
  /\ evals[e].step = "sample"
  /\ LET v == evals[e]
         up == IF v.suggested > v.current THEN ups + 1 ELSE 0
         down == IF v.suggested < v.current THEN downs + 1 ELSE 0
         downTarget == IF v.suggested < v.current /\ down >= DownSamples THEN v.suggested ELSE v.current
     IN /\ ups' = Smaller(up, UpSamples) /\ downs' = Smaller(down, DownSamples)
        /\ IF downTarget < v.current
           THEN evals' = [evals EXCEPT ![e].step = "gate"] /\ UNCHANGED <<upCooling, downCooling>>
           ELSE Decide(e, downTarget, "none", up)
  /\ UNCHANGED <<running, target, faults>>

\* #evaluateScaleDownGate: removing is blocked by a replica that drains, cannot
\* be probed or has workspaces it could not write back, or by a workspace whose
\* owner is gone; any of these may be found or not.
Gate(e) ==
  /\ evals[e].step = "gate"
  /\ \E probe \in {"blocked", "allowed"} : Decide(e, evals[e].suggested, probe, ups)
  /\ UNCHANGED <<running, ups, downs, target, faults>>

End(e) == evals' = [evals EXCEPT ![e] = NoEvaluation]

\* The scale target reads what it was told last.
Observe(e) ==
  /\ evals[e].step = "observe"
  /\ IF evals[e].desired = target \/ (~AllowScaleDown /\ evals[e].desired < target)
     THEN End(e)
     ELSE evals' = [evals EXCEPT ![e].step = "patch"]
  /\ UNCHANGED <<running, memory, target, faults>>

\* The replicas are written, over whatever was written meanwhile.
Patch(e) ==
  /\ evals[e].step = "patch"
  /\ target' = evals[e].desired
  /\ End(e)
  /\ UNCHANGED <<running, memory, faults>>

ReconcileFails(e) ==
  /\ evals[e].step \in Deciding
  /\ faults < MaxFaults
  /\ faults' = faults + 1
  /\ End(e)
  /\ UNCHANGED <<running, memory, target>>

\* A read that rejects ends the process, as every crash does; a new one starts
\* with nothing.
Crash ==
  /\ faults < MaxFaults
  /\ faults' = faults + 1
  /\ running' = FALSE
  /\ evals' = [e \in Evaluations |-> NoEvaluation]
  /\ ups' = 0 /\ downs' = 0
  /\ upCooling' = FALSE /\ downCooling' = FALSE
  /\ UNCHANGED <<target>>

UpCooldownEnds ==
  /\ upCooling
  /\ upCooling' = FALSE
  /\ UNCHANGED <<running, evals, ups, downs, downCooling, target, faults>>

DownCooldownEnds ==
  /\ downCooling
  /\ downCooling' = FALSE
  /\ UNCHANGED <<running, evals, ups, downs, upCooling, target, faults>>

-----------------------------------------------------------------------------
Step(e) == Read(e) \/ Sample(e) \/ Gate(e) \/ Observe(e) \/ Patch(e)

Next ==
  \/ \E e \in Evaluations : GainLeadership(e) \/ Tick(e) \/ Step(e) \/ ReconcileFails(e)
  \/ LoseLeadership \/ Crash
  \/ UpCooldownEnds \/ DownCooldownEnds

Spec == Init /\ [][Next]_vars

\* The timer fires, awaited calls return, and cooldowns run out.
FairSpec ==
  /\ Spec
  /\ WF_vars(\E e \in Evaluations : Tick(e))
  /\ \A e \in Evaluations : WF_vars(Step(e))
  /\ WF_vars(UpCooldownEnds) /\ WF_vars(DownCooldownEnds)

-----------------------------------------------------------------------------
(* Properties.                                                               *)

\* A write leaves the limits minReplicas and maxReplicas only if the evaluation
\* that makes it holds the number of replicas it counted, and the registry had
\* listed too few or too many: neither a suggestion, nor a step up or down, nor
\* the overlap of evaluations takes the replicas out of the limits otherwise.
\* The hold itself is not brought back to the limits.
LimitsKept ==
  [][ \/ target' = target
      \/ target' \in MinReplicas .. MaxReplicas
      \/ \E e \in Evaluations : evals[e].step = "patch" /\ target' = evals[e].current ]_vars

\* What server-config.en.md and worker-control-plane.md say of a scale-down: an
\* evaluation that asks for fewer replicas than it counted has probed them, and
\* none forbade it.
ShrinkIsProbed ==
  \A e \in Evaluations :
    evals[e].step \in Deciding /\ evals[e].desired < evals[e].current => evals[e].probe = "allowed"

Overlapped ==
  \E e, f \in Evaluations : e # f /\ evals[e].step # "none" /\ evals[f].step # "none"

\* The evaluations in flight call for n replicas, have counted as many as were
\* asked for, and no probe forbade them to remove one.
Steady(n) ==
  \A e \in Evaluations :
    /\ evals[e].step \in {"sample", "gate"} => evals[e].suggested = n /\ evals[e].current = target
    /\ evals[e].step \in Deciding => evals[e].probe # "blocked"

\* Demand that stays is met: when the evaluations go on calling for n replicas,
\* n are asked for, through streaks and cooldowns, provided that scaling down is
\* allowed at all, and that from then on no probe forbids it, no evaluation
\* overtakes another, and each counts exactly the replicas that were asked for.
\* While a replica is still starting, an evaluation that holds because of a
\* cooldown writes the smaller number that it counted, and the demand is not met.
ReplicasFollowDemand ==
  \A n \in MinReplicas .. MaxReplicas :
    <>[](running /\ AllowScaleDown /\ ~Overlapped /\ Steady(n)) => <>[](target = n)
=============================================================================
