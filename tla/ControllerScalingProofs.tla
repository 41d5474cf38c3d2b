------------------------ MODULE ControllerScalingProofs ------------------------
(***************************************************************************)
(* The controller leaves its limits only by holding on to a number that it *)
(* counted, and heeds its probes, however many evaluations overlap.        *)
(*                                                                         *)
(* The argument is local to an evaluation: what it suggests lies between   *)
(* the limits, what it decides is what it suggests or what it counted, and *)
(* neither changes while other evaluations change what they share.         *)
(***************************************************************************)
EXTENDS ControllerScaling, TLAPS

-----------------------------------------------------------------------------
(* The invariant.                                                            *)

Reasons == {"startup", "interval"}

Started == [step : {"read"}, reason : Reasons]
Limits == MinReplicas .. MaxReplicas
Sampled == [step : {"sample", "gate"}, reason : Reasons, current : Counts, suggested : Limits]
Decided == [step : Deciding, current : Counts, desired : Counts, probe : {"none", "blocked", "allowed"}]
Evaluated == {NoEvaluation} \cup Started \cup Sampled \cup Decided

\* What an evaluation carries at each of its awaits.
Shapes == evals \in [Evaluations -> Evaluated]

\* A probe that forbids to remove replicas is heeded.
Heeded(v) == v.step \in Deciding /\ v.probe = "blocked" => v.desired >= v.current

\* It asks for a number within the limits, or for what it counted.
Held(v) == v.step \in Deciding => v.desired \in Limits \/ v.desired = v.current

\* It probes only to remove, heeds the probe, and holds only what it counted.
Sound(v) ==
  /\ v.step = "gate" => v.suggested < v.current
  /\ Heeded(v) /\ Held(v)

\* The rest of the state.
Scalars ==
  /\ running \in BOOLEAN
  /\ ups \in Nat /\ downs \in Nat
  /\ upCooling \in BOOLEAN /\ downCooling \in BOOLEAN
  /\ target \in Counts
  /\ faults \in Nat

ScalingInv == Scalars /\ Shapes /\ \A e \in Evaluations : Sound(evals[e])

-----------------------------------------------------------------------------
(* The policy's arithmetic.                                                  *)

\* Math.max and Math.min of two numbers are numbers.
LEMMA LargerSmaller ==
  ASSUME NEW a \in Int, NEW b \in Int
  PROVE  Larger(a, b) \in Int /\ Smaller(a, b) \in Int
BY DEF Larger, Smaller

\* A clamped number is within the limits (clampReplicas).
LEMMA ClampFits ==
  ASSUME NEW n \in Int, NEW low \in Nat, NEW high \in Nat, low <= high
  PROVE  Clamp(n, low, high) \in low .. high
BY DEF Clamp, Larger, Smaller

\* A rounded-up quotient is a number.
LEMMA CeilDivInt ==
  ASSUME NEW a \in Int, NEW b \in Nat \ {0}
  PROVE  CeilDiv(a, b) \in Int
BY DEF CeilDiv

\* What the queue calls for is a number, whatever was read of it.
LEMMA GlobalIsInt ==
  ASSUME NEW min \in Int, NEW p \in Pressures, NEW size \in Nat, NEW busy \in Nat
  PROVE  GlobalSuggestion(min, p, UnknownLoad, size, busy) \in Int
<1> DEFINE allBusy == UnknownLoad.remoteBusy + busy
           allActive == UnknownLoad.remote + size
           pressureWorkers == IF p.known THEN CeilDiv(p.ready, PerUnit) ELSE min
           saturatedWorkers == IF p.known THEN CeilDiv(p.ready + allBusy, PerUnit) ELSE allBusy
           reservedWorkers == IF p.known /\ p.subagent > 0 THEN allBusy + Reserved ELSE 0
           ageBoostWorkers == IF p.known /\ p.ready > 0 /\ p.aged /\ MostlyBusy(allActive, allBusy)
                              THEN allActive + 1 ELSE 0
<1>1. allBusy \in Nat /\ allActive \in Nat
  BY DEF UnknownLoad
<1>2. p.ready \in Nat /\ p.subagent \in Nat
  BY DEF Pressures
<1>3. PerUnit \in Nat \ {0} /\ Reserved \in Nat
  BY PolicyAssumption
<1> HIDE DEF allBusy, allActive
<1>4. pressureWorkers \in Int /\ saturatedWorkers \in Int
  <2>1. p.ready \in Int /\ p.ready + allBusy \in Int /\ allBusy \in Int
    BY <1>1, <1>2
  <2>2. CeilDiv(p.ready, PerUnit) \in Int /\ CeilDiv(p.ready + allBusy, PerUnit) \in Int
    BY <1>3, <2>1, CeilDivInt
  <2>3. QED
    BY <2>1, <2>2
<1>5. reservedWorkers \in Int
  BY <1>1, <1>3
<1>6. ageBoostWorkers \in Int
  BY <1>1
<1> HIDE DEF pressureWorkers, saturatedWorkers, reservedWorkers, ageBoostWorkers
<1>7. Larger(Larger(pressureWorkers, saturatedWorkers), Larger(reservedWorkers, ageBoostWorkers)) \in Int
  BY <1>4, <1>5, <1>6, LargerSmaller
<1>8. QED
  BY <1>7 DEF GlobalSuggestion, pressureWorkers, saturatedWorkers, reservedWorkers, ageBoostWorkers, allBusy, allActive

\* An evaluation suggests a number of replicas within the limits.
LEMMA SuggestionWithinLimits ==
  ASSUME NEW p \in Pressures, NEW n \in Nat, NEW slots \in Nat, NEW busy \in Nat, NEW w \in Nat, NEW s \in Int
  PROVE  SuggestedReplicas(p, n, slots, busy, w, s) \in MinReplicas .. MaxReplicas
<1> DEFINE c == Capacity(n, slots)
           workers == Suggestion(MinReplicas * c, MaxReplicas * c, p, UnknownLoad, slots, busy)
<1>1. MinReplicas \in Nat /\ MaxReplicas \in Nat /\ MinReplicas <= MaxReplicas /\ PerSandbox \in Nat \ {0} /\ WarmEmpty \in Nat
  BY ScalingAssumption
<1>2. c \in Nat \ {0}
  <2>1. CASE n = 0 \/ slots = 0
    BY <2>1 DEF Capacity
  <2>2. CASE n > 0 /\ slots > 0
    <3>1. CeilDiv(slots, n) \in Int
      BY <2>2, CeilDivInt
    <3>2. QED
      BY <2>2, <3>1 DEF Capacity, Larger
  <2>3. QED
    BY <2>1, <2>2
<1> HIDE DEF c
<1>3. MinReplicas * c \in Int /\ MaxReplicas * c \in Int
  BY <1>1, <1>2
<1>4. workers \in Int
  <2>1. GlobalSuggestion(MinReplicas * c, p, UnknownLoad, slots, busy) \in Int
    BY <1>3, GlobalIsInt
  <2>2. LocalSuggestion(MinReplicas * c, p, UnknownLoad, slots, busy) \in Int
    BY <2>1 DEF LocalSuggestion, UnknownLoad
  <2>3. QED
    BY <1>3, <2>2, LargerSmaller DEF Suggestion
<1> HIDE DEF workers
<1>5. CeilDiv(workers, c) \in Int
  BY <1>2, <1>4, CeilDivInt
<1>6. WorkloadReplicas(p, n, slots, busy) \in MinReplicas .. MaxReplicas
  BY <1>1, <1>5, ClampFits DEF WorkloadReplicas, workers, c
<1>7. DesiredSandboxes(w, s) \in MinReplicas .. MaxReplicas
  <2>1. CeilDiv(w, PerSandbox) + WarmEmpty + s \in Int
    BY <1>1, CeilDivInt
  <2>2. QED
    BY <1>1, <2>1, ClampFits DEF DesiredSandboxes
<1>8. QED
  BY <1>1, <1>6, <1>7 DEF SuggestedReplicas, Larger

-----------------------------------------------------------------------------
(* The steps of an evaluation.                                               *)

\* What the step of an evaluation tells of what it carries.
LEMMA StepTells ==
  ASSUME NEW v \in Evaluated
  PROVE  /\ v.step = "read" => v \in Started
         /\ v.step \in {"sample", "gate"} => v \in Sampled
         /\ v.step \in Deciding => v \in Decided
         /\ v.step \in {"none", "read", "sample", "gate"} \cup Deciding
BY DEF Evaluated, NoEvaluation, Started, Sampled, Decided, Deciding

\* Only evaluation e changes.
Becomes(e, v) == evals' = [evals EXCEPT ![e] = v]

\* The others stay as they are.
LEMMA OneChanges ==
  ASSUME Shapes, NEW e \in Evaluations, NEW v \in Evaluated, Becomes(e, v)
  PROVE  /\ Shapes'
         /\ evals'[e] = v
         /\ \A f \in Evaluations : f # e => evals'[f] = evals[f]
BY DEF Shapes, Becomes

\* A decision is what was suggested or what was counted, and not below what was
\* counted if the probe forbade that or nothing less was suggested.
LEMMA DesiredIs ==
  ASSUME NEW v \in Sampled, NEW downTarget \in {v.suggested, v.current}, NEW allowed \in BOOLEAN, NEW up \in Nat
  PROVE  /\ Desired(v, downTarget, allowed, up) \in {v.suggested, v.current}
         /\ ~allowed /\ downTarget <= v.suggested => Desired(v, downTarget, allowed, up) >= v.current
         /\ v.suggested >= v.current => Desired(v, downTarget, allowed, up) >= v.current
<1>1. /\ v.suggested \in Int /\ v.current \in Int /\ v.reason \in Reasons
  BY ScalingAssumption DEF Sampled, Counts, Limits
<1>2. QED
  BY <1>1 DEF Desired

\* What becomes of an evaluation v in one step: it ends or begins, has read, is
\* to probe, has decided, or is to write what it decided.
HasRead(v) == v \in Sampled /\ v.step = "sample"
ToProbe(v, w) == v.step = "sample" /\ w = [v EXCEPT !.step = "gate"] /\ v.suggested < v.current
HasDecided(v, w) ==
  /\ v.step \in {"sample", "gate"}
  /\ w \in Decided /\ w.step = "observe"
  /\ w.current = v.current /\ Heeded(w) /\ Held(w)
ToWrite(v, w) == v.step = "observe" /\ w = [v EXCEPT !.step = "patch"]
Moved(v, w) ==
  w = NoEvaluation \/ w \in Started \/ HasRead(w) \/ ToProbe(v, w) \/ HasDecided(v, w) \/ ToWrite(v, w)

\* Deciding puts down one of the two numbers the evaluation knows, never below
\* the counted one against a probe (#desiredReplicas).
LEMMA DecideMoves ==
  ASSUME Scalars, Shapes, NEW e \in Evaluations, evals[e].step \in {"sample", "gate"},
         NEW downTarget \in {evals[e].suggested, evals[e].current},
         NEW probe \in {"none", "blocked", "allowed"}, NEW up \in Nat,
         Decide(e, downTarget, probe, up),
         probe = "blocked" => downTarget <= evals[e].suggested
  PROVE  /\ upCooling' \in BOOLEAN /\ downCooling' \in BOOLEAN
         /\ \E w \in Evaluated : Becomes(e, w) /\ HasDecided(evals[e], w)
<1>1. evals[e] \in Sampled
  BY StepTells DEF Shapes
<1>2. PICK d : /\ d = Desired(evals[e], downTarget, probe # "blocked", up)
               /\ upCooling' \in BOOLEAN /\ downCooling' \in BOOLEAN
               /\ Becomes(e, [step |-> "observe", current |-> evals[e].current, desired |-> d, probe |-> probe])
  BY DEF Decide, Becomes, Scalars
<1> DEFINE w == [step |-> "observe", current |-> evals[e].current, desired |-> d, probe |-> probe]
<1>3. /\ d \in {evals[e].suggested, evals[e].current}
      /\ probe = "blocked" /\ downTarget <= evals[e].suggested => d >= evals[e].current
  BY <1>1, <1>2, DesiredIs
<1>4. evals[e].current \in Counts /\ evals[e].suggested \in Limits /\ Limits \subseteq Counts
  BY <1>1, ScalingAssumption DEF Sampled, Counts, Limits
<1>5. w \in Decided
  BY <1>3, <1>4 DEF Decided, Deciding
<1>6. Heeded(w) /\ Held(w)
  BY <1>3, <1>4 DEF Heeded, Held
<1>7. w \in Evaluated
  BY <1>5 DEF Evaluated
<1>8. HasDecided(evals[e], w)
  BY <1>5, <1>6 DEF HasDecided
<1>9. QED
  BY <1>2, <1>7, <1>8

\* Reading the registry and the queue gives a suggestion within the limits.
LEMMA ReadMoves ==
  ASSUME Scalars, Shapes, NEW e \in Evaluations, Read(e)
  PROVE  \E w \in Evaluated : Becomes(e, w) /\ HasRead(w)
<1>1. PICK n \in Counts, p \in QueuePressures, b \in 0 .. MaxSeen * Slots, k \in 0 .. MaxWorkspaces, s \in Counts :
        Becomes(e, [step |-> "sample", reason |-> evals[e].reason, current |-> n,
                    suggested |-> SuggestedReplicas(p, n, n * Slots, Smaller(b, n * Slots), k, Smaller(s, Smaller(k, n)))])
  <2>1. PICK r \in Readings : Becomes(e, [step |-> "sample", reason |-> evals[e].reason,
                                          current |-> r.current, suggested |-> r.suggested])
    BY DEF Read, Becomes
  <2>2. PICK n \in Counts, p \in QueuePressures, b \in 0 .. MaxSeen * Slots, k \in 0 .. MaxWorkspaces, s \in Counts :
          r = [current |-> n, suggested |-> SuggestedReplicas(p, n, n * Slots, Smaller(b, n * Slots), k, Smaller(s, Smaller(k, n)))]
    BY SMT DEF Readings
  <2>3. r.current = n /\ r.suggested = SuggestedReplicas(p, n, n * Slots, Smaller(b, n * Slots), k, Smaller(s, Smaller(k, n)))
    BY <2>2
  <2>4. QED
    BY <2>1, <2>3
<1> DEFINE m == SuggestedReplicas(p, n, n * Slots, Smaller(b, n * Slots), k, Smaller(s, Smaller(k, n)))
           w == [step |-> "sample", reason |-> evals[e].reason, current |-> n, suggested |-> m]
<1>2. MinReplicas \in Nat /\ MaxReplicas \in Nat /\ MinReplicas <= MaxReplicas /\ Slots \in Nat /\ MaxWorkspaces \in Nat /\ MaxReady \in Nat
      /\ MaxSeen \in Nat
  BY ScalingAssumption
<1>3. p \in Pressures
  <2>1. p \in [known : {TRUE}, detailed : {TRUE}, ready : 0 .. MaxReady, subagent : {0, 1}, preferred : {0}, preferredSubagent : {0}, aged : BOOLEAN]
    BY DEF QueuePressures
  <2>2. 0 .. MaxReady \subseteq Nat /\ {0, 1} \subseteq Nat /\ {0} \subseteq Nat /\ {TRUE} \subseteq BOOLEAN
    BY <1>2
  <2>3. QED
    BY <2>1, <2>2, Zenon DEF Pressures
<1>4. n \in Nat /\ n * Slots \in Nat /\ k \in Nat /\ MaxSeen * Slots \in Nat /\ s \in Nat
  BY <1>2 DEF Counts
<1>5. Smaller(b, n * Slots) \in Nat /\ Smaller(s, Smaller(k, n)) \in Int
  BY <1>4 DEF Smaller
<1>6. m \in MinReplicas .. MaxReplicas
  BY <1>3, <1>4, <1>5, SuggestionWithinLimits
<1>7. evals[e].reason \in Reasons
  BY StepTells DEF Read, Shapes, Started
<1>8. w \in Sampled /\ w.step = "sample"
  <2> HIDE DEF m
  <2> QED BY <1>2, <1>6, <1>7 DEF Sampled, Counts, Limits
<1>9. QED
  BY <1>1, <1>8 DEF HasRead, Evaluated

\* A sample leads to the probe or to a decision without one, and keeps the
\* streaks and the cooldowns in their types.
LEMMA SampleMoves ==
  ASSUME Scalars, Shapes, NEW e \in Evaluations, Sample(e)
  PROVE  /\ ups' \in Nat /\ downs' \in Nat /\ upCooling' \in BOOLEAN /\ downCooling' \in BOOLEAN
         /\ \E w \in Evaluated : Becomes(e, w) /\ (ToProbe(evals[e], w) \/ HasDecided(evals[e], w))
<1>1. evals[e].step = "sample" /\ evals[e] \in Sampled
  BY StepTells DEF Sample, Shapes
<1>2. evals[e].current \in Int /\ evals[e].suggested \in Int /\ ups \in Nat /\ downs \in Nat /\ UpSamples \in Nat /\ DownSamples \in Nat
  BY <1>1, ScalingAssumption DEF Sampled, Counts, Limits, Scalars
<1> DEFINE v == evals[e]
           up == IF v.suggested > v.current THEN ups + 1 ELSE 0
           down == IF v.suggested < v.current THEN downs + 1 ELSE 0
           downTarget == IF v.suggested < v.current /\ down >= DownSamples THEN v.suggested ELSE v.current
<1>3. /\ ups' = Smaller(up, UpSamples) /\ downs' = Smaller(down, DownSamples)
      /\ IF downTarget < v.current
         THEN evals' = [evals EXCEPT ![e].step = "gate"] /\ UNCHANGED <<upCooling, downCooling>>
         ELSE Decide(e, downTarget, "none", up)
  BY DEF Sample
<1>4. up \in Nat /\ down \in Nat
  BY <1>2
<1>5. ups' \in Nat /\ downs' \in Nat
  BY <1>2, <1>3, <1>4 DEF Smaller
<1>6. CASE downTarget < v.current
  <2>1. v.suggested < v.current
    BY <1>2, <1>6
  <2>2. Becomes(e, [v EXCEPT !.step = "gate"])
    BY <1>3, <1>6 DEF Becomes
  <2>3. [v EXCEPT !.step = "gate"] \in Sampled
    BY <1>1 DEF Sampled
  <2>4. upCooling' \in BOOLEAN /\ downCooling' \in BOOLEAN
    BY <1>3, <1>6 DEF Scalars
  <2>5. QED
    BY <1>1, <1>5, <2>1, <2>2, <2>3, <2>4 DEF ToProbe, Evaluated
<1>7. CASE ~(downTarget < v.current)
  <2>1. Decide(e, downTarget, "none", up)
    BY <1>3, <1>7
  <2>2. downTarget \in {v.suggested, v.current}
    OBVIOUS
  <2> HIDE DEF downTarget, up
  <2>3. QED
    BY <1>1, <1>4, <1>5, <2>1, <2>2, DecideMoves
<1>8. QED
  BY <1>6, <1>7

\* The probe of the replicas to remove leads to a decision.
LEMMA GateMoves ==
  ASSUME Scalars, Shapes, NEW e \in Evaluations, Gate(e)
  PROVE  /\ upCooling' \in BOOLEAN /\ downCooling' \in BOOLEAN
         /\ \E w \in Evaluated : Becomes(e, w) /\ HasDecided(evals[e], w)
<1>1. evals[e].step = "gate" /\ evals[e] \in Sampled
  BY StepTells DEF Gate, Shapes
<1>2. PICK probe \in {"blocked", "allowed"} : Decide(e, evals[e].suggested, probe, ups)
  BY DEF Gate
<1>3. evals[e].suggested <= evals[e].suggested /\ ups \in Nat
  BY <1>1, ScalingAssumption DEF Sampled, Limits, Scalars
<1>4. QED
  BY <1>1, <1>2, <1>3, DecideMoves

\* An evaluation that ends, or goes on to write what it decided.
LEMMA ReconcileMoves ==
  ASSUME Scalars, Shapes, NEW e \in Evaluations, Observe(e) \/ Patch(e) \/ ReconcileFails(e)
  PROVE  /\ target' \in Counts /\ faults' \in Nat
         /\ target' = target \/ (evals[e].step = "patch" /\ target' = evals[e].desired)
         /\ \E w \in Evaluated : Becomes(e, w) /\ (w = NoEvaluation \/ ToWrite(evals[e], w))
<1>1. evals[e].step \in Deciding /\ evals[e] \in Decided
  BY StepTells DEF Observe, Patch, ReconcileFails, Deciding, Shapes
<1>2. evals[e].desired \in Counts
  BY <1>1 DEF Decided
<1>3. [evals[e] EXCEPT !.step = "patch"] \in Decided
  BY <1>1 DEF Decided, Deciding
<1>4. CASE End(e)
  <2>1. target' \in Counts /\ faults' \in Nat
    BY <1>2, <1>4 DEF Observe, Patch, ReconcileFails, Scalars
  <2>2. target' = target \/ (evals[e].step = "patch" /\ target' = evals[e].desired)
    BY DEF Observe, Patch, ReconcileFails
  <2>3. Becomes(e, NoEvaluation) /\ NoEvaluation \in Evaluated
    BY <1>4 DEF End, Becomes, Evaluated
  <2>4. QED
    BY <2>1, <2>2, <2>3, Zenon
<1>5. CASE Observe(e) /\ ~End(e)
  <2>1. evals[e].step = "observe" /\ Becomes(e, [evals[e] EXCEPT !.step = "patch"])
        /\ target' = target /\ faults' = faults
    BY <1>5 DEF Observe, Becomes
  <2>2. target' \in Counts /\ faults' \in Nat
    BY <2>1 DEF Scalars
  <2>3. [evals[e] EXCEPT !.step = "patch"] \in Evaluated
    BY <1>3 DEF Evaluated
  <2>4. ToWrite(evals[e], [evals[e] EXCEPT !.step = "patch"])
    BY <2>1 DEF ToWrite
  <2>5. QED
    BY <2>1, <2>2, <2>3, <2>4, Zenon
<1>6. QED
  BY <1>4, <1>5 DEF Patch, ReconcileFails

\* What a step does to the evaluations and to the number of replicas.
Untouched == evals' = evals /\ target' = target
Restarted == evals' = [e \in Evaluations |-> NoEvaluation] /\ target' = target
Advanced(e, w) ==
  /\ w \in Evaluated /\ Becomes(e, w) /\ Moved(evals[e], w)
  /\ target' = target \/ (evals[e].step = "patch" /\ target' = evals[e].desired)

\* Every step leaves the evaluations alone, forgets them all, or advances one
\* of them, which may write what it decided.
LEMMA StepMoves ==
  ASSUME Scalars, Shapes, Next
  PROVE  Scalars' /\ (Untouched \/ Restarted \/ \E e \in Evaluations, w \in Evaluated : Advanced(e, w))
<1>1. ASSUME NEW e \in Evaluations, GainLeadership(e) \/ Tick(e)
      PROVE  Scalars' /\ \E w \in Evaluated : Advanced(e, w)
  <2>1. PICK reason \in Reasons : Becomes(e, [step |-> "read", reason |-> reason])
    BY <1>1 DEF GainLeadership, Tick, Begin, Becomes, Reasons
  <2>2. [step |-> "read", reason |-> reason] \in Started
    BY DEF Started
  <2>3. Scalars' /\ target' = target
    BY <1>1 DEF GainLeadership, Tick, Scalars, memory
  <2>4. Advanced(e, [step |-> "read", reason |-> reason])
    BY <2>1, <2>2, <2>3 DEF Advanced, Moved, Evaluated
  <2>5. QED
    BY <2>3, <2>4 DEF Advanced
<1>2. ASSUME NEW e \in Evaluations, Read(e) PROVE Scalars' /\ \E w \in Evaluated : Advanced(e, w)
  <2>1. Scalars' /\ target' = target
    BY <1>2 DEF Read, Scalars, memory
  <2>2. PICK w \in Evaluated : Becomes(e, w) /\ HasRead(w)
    BY <1>2, ReadMoves
  <2>3. Advanced(e, w)
    BY <2>1, <2>2 DEF Advanced, Moved
  <2>4. QED
    BY <2>1, <2>3
<1>3. ASSUME NEW e \in Evaluations, Sample(e) PROVE Scalars' /\ \E w \in Evaluated : Advanced(e, w)
  <2>1. /\ ups' \in Nat /\ downs' \in Nat /\ upCooling' \in BOOLEAN /\ downCooling' \in BOOLEAN
        /\ \E w \in Evaluated : Becomes(e, w) /\ (ToProbe(evals[e], w) \/ HasDecided(evals[e], w))
    BY <1>3, SampleMoves
  <2>2. Scalars' /\ target' = target
    BY <1>3, <2>1 DEF Sample, Scalars
  <2>3. PICK w \in Evaluated : Becomes(e, w) /\ (ToProbe(evals[e], w) \/ HasDecided(evals[e], w))
    BY <2>1
  <2>4. Advanced(e, w)
    BY <2>2, <2>3 DEF Advanced, Moved
  <2>5. QED
    BY <2>2, <2>4
<1>4. ASSUME NEW e \in Evaluations, Gate(e) PROVE Scalars' /\ \E w \in Evaluated : Advanced(e, w)
  <2>1. /\ upCooling' \in BOOLEAN /\ downCooling' \in BOOLEAN
        /\ \E w \in Evaluated : Becomes(e, w) /\ HasDecided(evals[e], w)
    BY <1>4, GateMoves
  <2>2. Scalars' /\ target' = target
    BY <1>4, <2>1 DEF Gate, Scalars
  <2>3. PICK w \in Evaluated : Becomes(e, w) /\ HasDecided(evals[e], w)
    BY <2>1
  <2>4. Advanced(e, w)
    BY <2>2, <2>3 DEF Advanced, Moved
  <2>5. QED
    BY <2>2, <2>4
<1>5. ASSUME NEW e \in Evaluations, Observe(e) \/ Patch(e) \/ ReconcileFails(e)
      PROVE  Scalars' /\ \E w \in Evaluated : Advanced(e, w)
  <2>1. /\ target' \in Counts /\ faults' \in Nat
        /\ target' = target \/ (evals[e].step = "patch" /\ target' = evals[e].desired)
        /\ \E w \in Evaluated : Becomes(e, w) /\ (w = NoEvaluation \/ ToWrite(evals[e], w))
    BY <1>5, ReconcileMoves
  <2>2. Scalars'
    BY <1>5, <2>1 DEF Observe, Patch, ReconcileFails, Scalars, memory
  <2>3. PICK w \in Evaluated : Becomes(e, w) /\ (w = NoEvaluation \/ ToWrite(evals[e], w))
    BY <2>1
  <2>4. Advanced(e, w)
    BY <2>1, <2>3 DEF Advanced, Moved
  <2>5. QED
    BY <2>2, <2>4
<1>6. CASE Crash
  <2>1. Restarted
    BY <1>6 DEF Crash, Restarted
  <2>2. /\ running' \in BOOLEAN /\ upCooling' \in BOOLEAN /\ downCooling' \in BOOLEAN
        /\ target' \in Counts
    BY <1>6, Zenon DEF Crash, Scalars
  <2>3. ups' \in Nat /\ downs' \in Nat /\ faults' \in Nat
    BY <1>6 DEF Crash, Scalars
  <2>4. QED
    BY <2>1, <2>2, <2>3 DEF Scalars
<1>7. CASE LoseLeadership \/ UpCooldownEnds \/ DownCooldownEnds
  BY <1>7 DEF LoseLeadership, UpCooldownEnds, DownCooldownEnds, Untouched, Scalars, memory
<1>8. QED
  BY <1>1, <1>2, <1>3, <1>4, <1>5, <1>6, <1>7 DEF Next, Step

-----------------------------------------------------------------------------
(* The theorems.                                                             *)

\* A controller that has not started satisfies the invariant.
LEMMA InitScalingInv == Init => ScalingInv
<1> SUFFICES ASSUME Init PROVE ScalingInv
  OBVIOUS
<1>1. MinReplicas \in Counts
  BY ScalingAssumption DEF Counts
<1>2. Scalars
  BY <1>1 DEF Init, Scalars
<1>3. Shapes
  BY DEF Init, Shapes, Evaluated
<1>4. ASSUME NEW e \in Evaluations PROVE Sound(evals[e])
  BY DEF Init, Sound, Heeded, Held, NoEvaluation, Deciding
<1>5. QED
  BY <1>2, <1>3, <1>4 DEF ScalingInv

\* Every step keeps the invariant.
LEMMA ScalingInvStep == ScalingInv /\ [Next]_vars => ScalingInv'
<1>1. CASE UNCHANGED vars
  BY <1>1 DEF vars, memory, ScalingInv, Scalars, Shapes
<1>2. ASSUME ScalingInv, Next PROVE ScalingInv'
  <2>1. Scalars /\ Shapes /\ \A e \in Evaluations : Sound(evals[e])
    BY <1>2 DEF ScalingInv
  <2>2. Scalars' /\ (Untouched \/ Restarted \/ \E e \in Evaluations, w \in Evaluated : Advanced(e, w))
    BY <1>2, <2>1, StepMoves
  <2>3. CASE Untouched
    BY <2>1, <2>2, <2>3 DEF Untouched, ScalingInv, Shapes
  <2>4. CASE Restarted
    BY <2>2, <2>4 DEF Restarted, ScalingInv, Shapes, Evaluated, NoEvaluation, Sound, Heeded, Held, Deciding
  <2>5. ASSUME NEW e \in Evaluations, NEW w \in Evaluated, Advanced(e, w) PROVE ScalingInv'
    <3>1. Shapes' /\ evals'[e] = w /\ \A f \in Evaluations : f # e => evals'[f] = evals[f]
      BY <2>1, <2>5, OneChanges DEF Advanced
    <3>2. Sound(w)
      <4>1. CASE w = NoEvaluation \/ w \in Started
        BY <4>1 DEF NoEvaluation, Started, Sound, Heeded, Held, Deciding
      <4>2. CASE HasRead(w)
        BY <4>2 DEF HasRead, Sampled, Sound, Heeded, Held, Deciding
      <4>3. CASE ToProbe(evals[e], w)
        <5>1. evals[e] \in Sampled
          BY <2>1, <4>3, StepTells DEF Shapes, ToProbe
        <5>2. w.step = "gate" /\ w.suggested = evals[e].suggested /\ w.current = evals[e].current
          BY <4>3, <5>1 DEF ToProbe, Sampled
        <5>3. QED
          BY <2>1, <4>3, <5>2 DEF ToProbe, Sound, Heeded, Held, Deciding
      <4>4. CASE HasDecided(evals[e], w)
        BY <2>1, <4>4 DEF HasDecided, Sound
      <4>5. CASE ToWrite(evals[e], w)
        <5>1. evals[e] \in Decided
          BY <2>1, <4>5, StepTells DEF Shapes, ToWrite, Deciding
        <5>2. /\ w.step = "patch"
              /\ w.current = evals[e].current /\ w.desired = evals[e].desired /\ w.probe = evals[e].probe
          BY <4>5, <5>1 DEF ToWrite, Decided
        <5>3. QED
          BY <2>1, <4>5, <5>2 DEF ToWrite, Sound, Heeded, Held, Deciding
      <4>6. QED
        BY <2>5, <4>1, <4>2, <4>3, <4>4, <4>5 DEF Advanced, Moved
    <3>3. QED
      BY <2>1, <2>2, <3>1, <3>2 DEF ScalingInv
  <2>6. QED
    BY <2>2, <2>3, <2>4, <2>5
<1>3. QED
  BY <1>1, <1>2

\* Every state of every behaviour satisfies the inductive invariant.
THEOREM ScalingInvariance == Spec => []ScalingInv
<1>1. QED
  BY InitScalingInv, ScalingInvStep, PTL DEF Spec

\* The controller's state keeps its types: in particular no evaluation suggests
\* more replicas than maxReplicas, however many are listed (controller.ts,
\* evaluateNow).
THEOREM ScalingTypeCorrect == Spec => []TypeOK
<1>1. ASSUME ScalingInv PROVE TypeOK
  <2>1. ASSUME NEW e \in Evaluations
        PROVE  /\ evals[e].step \in {"none", "read", "sample", "gate"} \cup Deciding
               /\ evals[e].step \in {"sample", "gate"} =>
                    evals[e].suggested \in 0 .. MaxReplicas /\ evals[e].current \in Counts
               /\ evals[e].step \in Deciding => evals[e].desired \in Counts /\ evals[e].current \in Counts
    <3>0. Limits \subseteq 0 .. MaxReplicas
      BY ScalingAssumption DEF Limits
    <3>1. evals[e] \in Evaluated
      BY <1>1 DEF ScalingInv, Shapes
    <3>2. QED
      BY <3>0, <3>1, StepTells DEF Sampled, Decided
  <2>2. QED
    BY <1>1, <2>1 DEF ScalingInv, Scalars, TypeOK
<1>2. QED
  BY <1>1, ScalingInvariance, PTL

\* A write leaves the limits only if the evaluation that makes it holds the
\* number it counted: neither a step up or down nor a write that comes after
\* the write of another evaluation does, for any limits, windows and cooldowns
\* (controller.ts, #desiredReplicas and #reconcileScaleTarget).
THEOREM LimitsHold == Spec => LimitsKept
<1>1. ASSUME ScalingInv, Next
      PROVE  \/ target' = target \/ target' \in Limits
             \/ \E e \in Evaluations : evals[e].step = "patch" /\ target' = evals[e].current
  <2>1. Scalars /\ Shapes /\ \A e \in Evaluations : Held(evals[e])
    BY <1>1 DEF ScalingInv, Sound
  <2>2. Untouched \/ Restarted \/ \E e \in Evaluations, w \in Evaluated : Advanced(e, w)
    BY <1>1, <2>1, StepMoves
  <2>3. CASE Untouched \/ Restarted
    BY <2>3 DEF Untouched, Restarted
  <2>4. ASSUME NEW e \in Evaluations, evals[e].step = "patch", target' = evals[e].desired
        PROVE  target' \in Limits \/ target' = evals[e].current
    BY <2>1, <2>4 DEF Held, Deciding
  <2>5. QED
    BY <2>2, <2>3, <2>4 DEF Advanced
<1>2. ScalingInv /\ [Next]_vars =>
        [ \/ target' = target \/ target' \in Limits
          \/ \E e \in Evaluations : evals[e].step = "patch" /\ target' = evals[e].current ]_vars
  BY <1>1
<1>3. QED
  BY <1>2, ScalingInvariance, PTL DEF Spec, LimitsKept, Limits

\* Whatever the window, no evaluation asks for fewer replicas than it counted
\* after a probe that forbade it, also when others have moved the streaks and
\* the cooldowns meanwhile (controller.ts, #evaluateScaleDownGate and
\* #desiredReplicas).
THEOREM ProbeIsHeeded == Spec => [](\A e \in Evaluations : Heeded(evals[e]))
<1>1. ScalingInv => \A e \in Evaluations : Heeded(evals[e])
  BY DEF ScalingInv, Sound
<1>2. QED
  BY <1>1, ScalingInvariance, PTL
=============================================================================
