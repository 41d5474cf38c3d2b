--------------------------- MODULE WorkerPoolProofs ---------------------------
(***************************************************************************)
(* The worker pool stays within its bounds, shrinks only for a reason, and *)
(* is quiet when it is closed; for every number of workers, whatever the   *)
(* load, and whichever calls fail.                                         *)
(***************************************************************************)
EXTENDS WorkerPool, SequenceTheorems, FiniteSetTheorems, TLAPS

-----------------------------------------------------------------------------
(* The policy.                                                               *)

\* A quotient that is rounded up times its divisor covers its dividend.
LEMMA CeilDivCovers ==
  ASSUME NEW a \in Nat, NEW b \in Nat \ {0}
  PROVE  CeilDiv(a, b) \in Nat /\ CeilDiv(a, b) * b >= a
<1> DEFINE q == (a + b - 1) \div b
<1>1. q \in Int /\ q * b <= a + b - 1 /\ a + b - 1 < (q + 1) * b
  OBVIOUS
<1>2. q >= 0
  BY <1>1
<1>3. (q + 1) * b = q * b + b
  BY <1>1
<1>4. q * b >= a
  BY <1>1, <1>3
<1>5. QED
  BY <1>1, <1>2, <1>4 DEF CeilDiv

\* Multiplication by what is not negative is monotonic.
LEMMA TimesIsMonotonic ==
  ASSUME NEW a \in Int, NEW b \in Int, NEW c \in Nat, a >= b
  PROVE  a * c >= b * c
<1>1. a * c = b * c + (a - b) * c
  OBVIOUS
<1>2. (a - b) * c >= 0
  OBVIOUS
<1>3. QED
  BY <1>1, <1>2

\* A pressure, and a load, that a rebalance may go by.
KnownPressure(p) == p \in Pressures /\ (p.known \/ p.ready = 0)
KnownLoad(l) == l \in Loads /\ (~l.known => l.remote = 0)

\* The suggestion for all processes is a number, and covers the sessions that
\* are ready and the ones that are served.
LEMMA GlobalCovers ==
  ASSUME NEW min \in Nat, NEW p, KnownPressure(p), NEW l \in Loads, NEW size \in Nat, NEW busy \in Nat
  PROVE  /\ GlobalSuggestion(min, p, l, size, busy) \in Nat
         /\ GlobalSuggestion(min, p, l, size, busy) * PerUnit >= p.ready + busy
<1> DEFINE all == l.remoteBusy + busy
           sat == IF p.known THEN CeilDiv(p.ready + all, PerUnit) ELSE all
           press == IF p.known THEN CeilDiv(p.ready, PerUnit) ELSE min
           res == IF p.known /\ p.subagent > 0 THEN all + Reserved ELSE 0
           boost == IF p.known /\ p.ready > 0 /\ p.aged /\ MostlyBusy(l.remote + size, all) THEN l.remote + size + 1 ELSE 0
           G == Larger(Larger(press, sat), Larger(res, boost))
<1>1. p.ready \in Nat /\ l.remoteBusy \in Nat /\ l.remote \in Nat /\ PerUnit \in Nat \ {0} /\ Reserved \in Nat
  BY PolicyAssumption DEF KnownPressure, Pressures, Loads
<1>2. all \in Nat /\ all >= busy
  BY <1>1
<1>3. sat \in Nat /\ sat * PerUnit >= p.ready + busy
  <2>1. CASE p.known
    <3> DEFINE work == p.ready + all
    <3>1. work \in Nat /\ work >= p.ready + busy /\ sat = CeilDiv(work, PerUnit)
      BY <1>1, <1>2, <2>1
    <3> HIDE DEF sat, work
    <3>2. CeilDiv(work, PerUnit) \in Nat /\ CeilDiv(work, PerUnit) * PerUnit >= work
      BY <1>1, <3>1, CeilDivCovers
    <3>3. QED
      BY <1>1, <3>1, <3>2
  <2>2. CASE ~p.known
    <3>1. all * PerUnit >= all * 1
      BY <1>1, <1>2
    <3>2. QED
      BY <1>1, <1>2, <2>2, <3>1 DEF KnownPressure
  <2>3. QED
    BY <2>1, <2>2
<1>4. press \in Nat
  BY <1>1, CeilDivCovers
<1>5. res \in Nat /\ boost \in Nat
  BY <1>1, <1>2
<1>6. G \in Nat /\ G >= sat
  <2> HIDE DEF sat, press, res, boost
  <2> QED
    BY <1>3, <1>4, <1>5 DEF Larger
<1>7. G * PerUnit >= p.ready + busy
  <2> HIDE DEF G, sat
  <2>1. G * PerUnit >= sat * PerUnit
    BY <1>1, <1>3, <1>6, TimesIsMonotonic
  <2>2. QED
    BY <1>1, <1>3, <1>6, <2>1
<1>8. GlobalSuggestion(min, p, l, size, busy) = G
  BY DEF GlobalSuggestion
<1>9. QED
  <2> HIDE DEF G
  <2> QED
    BY <1>6, <1>7, <1>8

\* The share of this process makes up, with the workers of the others, what all
\* processes should have.
LEMMA LocalCovers ==
  ASSUME NEW min \in Nat, NEW p \in Pressures, NEW l, KnownLoad(l), NEW size \in Nat, NEW busy \in Nat,
         GlobalSuggestion(min, p, l, size, busy) \in Nat
  PROVE  /\ LocalSuggestion(min, p, l, size, busy) \in Int
         /\ LocalSuggestion(min, p, l, size, busy) + l.remote >= GlobalSuggestion(min, p, l, size, busy)
<1>1. l.remote \in Nat
  BY DEF KnownLoad, Loads
<1>2. PreferredSuggestion(p, busy) \in Nat
  <2>1. p.preferred + busy \in Nat /\ PerUnit \in Nat \ {0} /\ Reserved \in Nat
    BY PolicyAssumption DEF Pressures
  <2>2. CeilDiv(p.preferred + busy, PerUnit) \in Nat
    BY <2>1, CeilDivCovers
  <2>3. QED
    BY <2>1, <2>2 DEF PreferredSuggestion, Larger
<1>3. QED
  BY <1>1, <1>2 DEF LocalSuggestion, Larger, KnownLoad

\* A size within the bounds that leaves room, unless the upper one forbids it.
Fits(n, min, max, p, l, busy) ==
  /\ n \in min .. max
  /\ (n + l.remote) * PerUnit >= p.ready + busy \/ n = max

\* calculateRedisWorkerPoolSuggestion keeps to the bounds it is given, and
\* leaves room for what it knows of unless the upper one forbids it.
LEMMA SuggestionFits ==
  ASSUME NEW min \in Nat, NEW max \in Nat, min <= max, NEW p, KnownPressure(p),
         NEW l, KnownLoad(l), NEW size \in Nat, NEW busy \in Nat
  PROVE  Fits(Suggestion(min, max, p, l, size, busy), min, max, p, l, busy)
<1> DEFINE G == GlobalSuggestion(min, p, l, size, busy)
           L == LocalSuggestion(min, p, l, size, busy)
           S == Suggestion(min, max, p, l, size, busy)
<1>1. G \in Nat /\ G * PerUnit >= p.ready + busy
  BY GlobalCovers DEF KnownLoad
<1>2. L \in Int /\ L + l.remote >= G
  BY <1>1, LocalCovers DEF KnownPressure
<1>3. S = Larger(min, Smaller(max, L))
  BY DEF Suggestion
<1>4. l.remote \in Nat /\ PerUnit \in Nat /\ p.ready \in Nat
  BY PolicyAssumption DEF KnownLoad, KnownPressure, Loads, Pressures
<1> HIDE DEF G, L, S
<1>5. S \in min .. max /\ (S = max \/ S >= L)
  BY <1>2, <1>3 DEF Larger, Smaller
<1>6. CASE S >= L
  <2>1. (S + l.remote) * PerUnit >= G * PerUnit
    BY <1>1, <1>2, <1>4, <1>5, <1>6, TimesIsMonotonic
  <2>2. (S + l.remote) * PerUnit >= p.ready + busy
    BY <1>1, <1>4, <1>5, <2>1
  <2>3. QED
    BY <1>5, <2>2 DEF S, Fits
<1>7. CASE S = max
  BY <1>5, <1>7 DEF S, Fits
<1>8. QED
  BY <1>5, <1>6, <1>7

-----------------------------------------------------------------------------
(* The inductive invariant.                                                  *)

\* A rebalance that is under way aims at a size within the bounds; where it
\* aims below the lower one (a pool whose workers could not be started), it has
\* nothing to remove.
Aim ==
  /\ Len(workers) <= MaxWorkers
  /\ step = "factory" => Len(workers) < desired
  /\ step \in {"scale", "factory", "closing"} => desired >= MinWorkers \/ Len(workers) <= desired
  /\ KnownPressure(pressure)

\* close() waits for the rebalance before it goes on.
Closing ==
  /\ closing # "no" => ~active
  /\ closing \in {"draining", "done", "failed"} => step = "none"
  /\ closing = "done" => workers = <<>>

\* A worker whose loop runs is one of the pool's, or the one being removed.
Listed ==
  /\ closing # "failed" =>
       \A w \in Workers :
         loop[w] \in {"polling", "busy"} => w \in Range(workers) \/ (step = "closing" /\ w = removed)
  /\ \A w \in Workers : slots[w] = "busy" => loop[w] = "busy"

PoolInv == TypeOK /\ Aim /\ Closing /\ Listed

\* The busy workers can be counted.
LEMMA BusyIsNat == BusyWorkers \in Nat
<1>1. IsFiniteSet({w \in Workers : slots[w] = "busy"})
  BY PoolAssumption, FS_Subset
<1>2. QED
  BY <1>1, FS_CardinalityType DEF BusyWorkers

\* What the registry says, or that it could not be read, is a load.
LEMMA LoadIsKnown ==
  ASSUME TypeOK, NEW l \in {others, UnknownLoad}
  PROVE  KnownLoad(l) /\ l.remote <= others.remote /\ others.remote \in Nat
<1>1. PICK n \in 0 .. MaxRemote, b \in 0 .. MaxRemote : others = [known |-> TRUE, remote |-> n, remoteBusy |-> b]
  BY DEF TypeOK, RemoteLoads
<1>2. others \in Loads /\ others.known /\ others.remote \in Nat
  BY <1>1, PoolAssumption DEF Loads
<1>3. UnknownLoad \in Loads /\ UnknownLoad.remote = 0
  BY DEF UnknownLoad, Loads
<1>4. QED
  BY <1>2, <1>3 DEF KnownLoad

\* The pressure of a queue is a pressure.
LEMMA QueuePressuresAreKnown ==
  ASSUME TypeOK, NEW q \in QueuePressures
  PROVE  q \in Pressures /\ KnownPressure(q)
<1>1. PICK s \in {0, ready}, p \in {0, ready}, a \in BOOLEAN :
        q = [known |-> TRUE, detailed |-> TRUE, ready |-> ready, subagent |-> s, preferred |-> p, preferredSubagent |-> Smaller(s, p), aged |-> a]
  BY DEF QueuePressures
<1>2. ready \in Nat /\ s \in Nat /\ p \in Nat /\ Smaller(s, p) \in Nat
  BY <1>1 DEF TypeOK, Smaller
<1>3. QED
  BY <1>1, <1>2, Zenon DEF Pressures, KnownPressure

\* The sequence without its last worker.
LEMMA FrontOfWorkers ==
  ASSUME workers \in Seq(Workers), Len(workers) > 0
  PROVE  /\ Front(workers) \in Seq(Workers) /\ Len(Front(workers)) = Len(workers) - 1
         /\ Last(workers) \in Workers
         /\ \A w \in Range(workers) : w \in Range(Front(workers)) \/ w = Last(workers)
<1>1. Front(workers) \in Seq(Workers) /\ Len(Front(workers)) = Len(workers) - 1
      /\ \A i \in 1 .. Len(workers) - 1 : Front(workers)[i] = workers[i]
  <2>1. Len(workers) - 1 \in 0 .. Len(workers)
    OBVIOUS
  <2>2. QED
    <3>1. Front(workers) \in Seq(Workers)
      BY <2>1 DEF Front
    <3>2. Len(Front(workers)) = Len(workers) - 1
      <4> DEFINE n == Len(workers) - 1
      <4>1. n \in Nat /\ \A i \in 1 .. n : workers[i] \in Workers
        BY <2>1
      <4>2. Front(workers) = SubSeq(workers, 1, n)
        BY DEF Front
      <4> HIDE DEF n
      <4>3. Len(SubSeq(workers, 1, n)) = IF 1 <= n THEN n - 1 + 1 ELSE 0
        BY <4>1, SubSeqProperties
      <4>4. Len(SubSeq(workers, 1, n)) = n
        BY <4>1, <4>3
      <4>5. QED
        BY <4>2, <4>4 DEF n
    <3>3. \A i \in 1 .. Len(workers) - 1 : Front(workers)[i] = workers[i]
      BY <2>1 DEF Front
    <3>4. QED
      BY <3>1, <3>2, <3>3
<1>2. Last(workers) \in Workers
  BY DEF Last
<1>3. ASSUME NEW w \in Range(workers) PROVE w \in Range(Front(workers)) \/ w = Last(workers)
  <2>1. PICK i \in 1 .. Len(workers) : w = workers[i]
    BY <1>3 DEF Range
  <2>2. CASE i = Len(workers)
    BY <2>1, <2>2 DEF Last
  <2>3. CASE i # Len(workers)
    <3>1. i \in 1 .. Len(Front(workers)) /\ w = Front(workers)[i]
      BY <1>1, <2>1, <2>3
    <3>2. QED
      BY <1>1, <3>1 DEF Range
  <2>4. QED
    BY <2>2, <2>3
<1>4. QED
  BY <1>1, <1>2, <1>3

\* The sequence with one more worker.
LEMMA AppendedWorker ==
  ASSUME workers \in Seq(Workers), NEW v \in Workers
  PROVE  /\ Append(workers, v) \in Seq(Workers) /\ Len(Append(workers, v)) = Len(workers) + 1
         /\ v \in Range(Append(workers, v))
         /\ \A w \in Range(workers) : w \in Range(Append(workers, v))
<1>1. Append(workers, v) \in Seq(Workers) /\ Len(Append(workers, v)) = Len(workers) + 1
      /\ Append(workers, v)[Len(workers) + 1] = v
      /\ \A i \in 1 .. Len(workers) : Append(workers, v)[i] = workers[i]
  OBVIOUS
<1>2. v \in Range(Append(workers, v))
  BY <1>1 DEF Range
<1>3. ASSUME NEW w \in Range(workers) PROVE w \in Range(Append(workers, v))
  <2>1. PICK i \in 1 .. Len(workers) : w = workers[i]
    BY <1>3 DEF Range
  <2>2. i \in 1 .. Len(Append(workers, v)) /\ Append(workers, v)[i] = w
    BY <1>1, <2>1
  <2>3. QED
    BY <1>1, <2>2 DEF Range
<1>4. QED
  BY <1>1, <1>2, <1>3

\* What a decision decides.
LEMMA DecideDecides ==
  ASSUME PoolInv, Decide
  PROVE  /\ desired' \in 0 .. MaxWorkers /\ suggested' \in Nat
         /\ desired' >= MinWorkers \/ desired' = Len(workers)
         /\ reason = "interval" /\ desired' < Len(workers) =>
              /\ downs' = DownSamples /\ ~downCooling
              /\ (desired' + others.remote) * PerUnit >= pressure.ready + BusyWorkers \/ desired' = MaxWorkers
<1>0. PICK l \in {others, UnknownLoad} :
        \E n \in {Suggestion(MinWorkers, MaxWorkers, pressure, l, Len(workers), BusyWorkers)} :
          LET up == IF n > Len(workers) THEN ups + 1 ELSE 0
              down == IF n < Len(workers) THEN downs + 1 ELSE 0
          IN /\ suggested' = n
             /\ downs' = Smaller(down, DownSamples)
             /\ desired' = Desired(n, up, down)
  BY DEF Decide
<1>1. PICK n \in {Suggestion(MinWorkers, MaxWorkers, pressure, l, Len(workers), BusyWorkers)} :
        LET up == IF n > Len(workers) THEN ups + 1 ELSE 0
            down == IF n < Len(workers) THEN downs + 1 ELSE 0
        IN /\ suggested' = n
           /\ downs' = Smaller(down, DownSamples)
           /\ desired' = Desired(n, up, down)
  BY <1>0
<1>2. TypeOK /\ Len(workers) \in Nat /\ Len(workers) <= MaxWorkers /\ KnownPressure(pressure) /\ pressure.ready \in Nat
  BY DEF PoolInv, TypeOK, Aim, Pressures
<1>3. KnownLoad(l) /\ l.remote \in Nat /\ l.remote <= others.remote /\ others.remote \in Nat
  BY <1>2, LoadIsKnown DEF KnownLoad, Loads
<1>4. /\ n \in MinWorkers .. MaxWorkers
      /\ (n + l.remote) * PerUnit >= pressure.ready + BusyWorkers \/ n = MaxWorkers
  <2>1. MinWorkers \in Nat /\ MaxWorkers \in Nat /\ MinWorkers <= MaxWorkers
    BY PoolAssumption
  <2>2. n = Suggestion(MinWorkers, MaxWorkers, pressure, l, Len(workers), BusyWorkers)
    BY <1>1
  <2>3. QED
    <3>1. Fits(Suggestion(MinWorkers, MaxWorkers, pressure, l, Len(workers), BusyWorkers),
               MinWorkers, MaxWorkers, pressure, l, BusyWorkers)
      BY <1>2, <1>3, <2>1, BusyIsNat, SuggestionFits, Zenon
    <3>2. QED
      BY <2>2, <3>1, Zenon DEF Fits
<1>5. (n + others.remote) * PerUnit >= (n + l.remote) * PerUnit
  BY <1>3, <1>4, TimesIsMonotonic, PolicyAssumption, PoolAssumption
<1>6. (n + others.remote) * PerUnit >= pressure.ready + BusyWorkers \/ n = MaxWorkers
  <2>0. n \in Nat /\ PerUnit \in Nat
    BY <1>4, PolicyAssumption, PoolAssumption
  <2>1. /\ (n + others.remote) * PerUnit \in Int /\ (n + l.remote) * PerUnit \in Int
        /\ pressure.ready + BusyWorkers \in Int
    BY <1>2, <1>3, <2>0, BusyIsNat
  <2>2. QED
    BY <1>4, <1>5, <2>1
<1>7. desired' = n \/ desired' = Len(workers)
  BY <1>1 DEF Desired
<1>8. desired' \in 0 .. MaxWorkers /\ suggested' \in Nat /\ (desired' >= MinWorkers \/ desired' = Len(workers))
  BY <1>1, <1>2, <1>4, <1>7, PoolAssumption
<1>9. ASSUME reason = "interval", desired' < Len(workers)
      PROVE  /\ downs' = DownSamples /\ ~downCooling
             /\ (desired' + others.remote) * PerUnit >= pressure.ready + BusyWorkers \/ desired' = MaxWorkers
  <2>1. desired' = n /\ n < Len(workers)
    BY <1>2, <1>4, <1>7, <1>9, PoolAssumption
  <2>2. downs + 1 >= DownSamples /\ ~downCooling
    BY <1>1, <1>2, <1>4, <1>9, <2>1, PoolAssumption DEF Desired, TypeOK
  <2>3. downs' = DownSamples
    BY <1>1, <1>2, <2>1, <2>2, PoolAssumption DEF Smaller, TypeOK
  <2>4. QED
    BY <1>6, <2>1, <2>2, <2>3
<1>10. QED
  BY <1>8, <1>9

-----------------------------------------------------------------------------
(* The steps.                                                                *)

\* The invariant holds at first.
LEMMA InitPoolInv == Init => PoolInv
<1>1. SUFFICES ASSUME Init PROVE PoolInv
  OBVIOUS
<1>2. UnknownPressure \in Pressures /\ KnownPressure(UnknownPressure)
  BY DEF UnknownPressure, Pressures, KnownPressure
<1>3. others \in RemoteLoads
  <2>1. 0 \in 0 .. MaxRemote
    BY PoolAssumption
  <2>2. [known |-> TRUE, remote |-> 0, remoteBusy |-> 0] \in RemoteLoads
    BY <2>1 DEF RemoteLoads
  <2>3. QED
    BY <1>1, <2>2, Zenon DEF Init
<1>4. workers \in Seq(Workers) /\ Len(workers) = 0
  BY <1>1 DEF Init
<1>5. TypeOK
  <2>1. pressure \in Pressures
    BY <1>1, <1>2, Zenon DEF Init
  <2>2. slots \in [Workers -> {"none", "idle", "busy", "stopping"}]
        /\ loop \in [Workers -> {"none", "polling", "busy", "ended", "dead"}]
    BY <1>1, Zenon DEF Init
  <2>3. current \in 0 .. MaxWorkers /\ desired \in 0 .. MaxWorkers /\ suggested \in Nat /\ ups \in Nat /\ downs \in Nat
        /\ ready \in Nat /\ arrived \in Nat /\ failures \in Nat
    <3>1. 0 \in Nat /\ 0 \in 0 .. MaxWorkers
      BY PoolAssumption
    <3>2. QED
      BY <1>1, <3>1, Zenon DEF Init
  <2>4. active \in BOOLEAN /\ upCooling \in BOOLEAN /\ downCooling \in BOOLEAN
    BY <1>1, Zenon DEF Init
  <2>5. /\ stopping \in SUBSET Workers /\ removed \in Workers \cup {NoWorker}
        /\ step \in {"none", "pressure", "load", "scale", "factory", "closing"} /\ reason \in {"startup", "interval"}
        /\ closing \in {"no", "waiting", "draining", "done", "failed"}
    BY <1>1, Zenon DEF Init
  <2>6. QED
    BY <1>3, <1>4, <2>1, <2>2, <2>3, <2>4, <2>5, Zenon DEF TypeOK
<1>6. Aim /\ Closing /\ Listed
  BY <1>1, <1>2, <1>4, PoolAssumption DEF Init, Aim, Closing, Listed
<1>7. QED
  BY <1>5, <1>6 DEF PoolInv

\* The steps that leave the workers, their loops and their slots alone.
LEMMA RebalanceStep ==
  ASSUME PoolInv, Start \/ Tick \/ ReadPressure \/ Decide \/ OpenQueue \/ FactoryThrows \/ EndRebalance
  PROVE  PoolInv'
<1>0. TypeOK /\ Aim /\ Closing /\ Listed
  BY DEF PoolInv
<1>1. CASE Start \/ Tick
  <2>1. TypeOK'
    BY <1>0, <1>1 DEF Start, Tick, Begin, TypeOK, streaks, cooling, demand
  <2>2. Aim' /\ Closing' /\ Listed'
    BY <1>0, <1>1 DEF Start, Tick, Begin, Aim, Closing, Listed, demand
  <2>3. QED
    BY <2>1, <2>2 DEF PoolInv
<1>2. CASE ReadPressure
  <2>1. pressure' \in Pressures /\ KnownPressure(pressure')
    <3>1. CASE pressure' \in QueuePressures
      BY <1>0, <3>1, QueuePressuresAreKnown, Zenon
    <3>2. CASE pressure' = UnknownPressure
      <4>1. UnknownPressure \in Pressures /\ KnownPressure(UnknownPressure)
        BY DEF UnknownPressure, Pressures, KnownPressure
      <4>2. QED
        BY <3>2, <4>1, Zenon
    <3>3. CASE pressure' = ReadyCount
      <4>1. ready \in Nat
        BY <1>0 DEF TypeOK
      <4>2. ReadyCount \in Pressures /\ KnownPressure(ReadyCount)
        BY <4>1 DEF ReadyCount, UnknownPressure, Pressures, KnownPressure
      <4>3. QED
        BY <3>3, <4>2, Zenon
    <3>4. QED
      BY <1>2, <3>1, <3>2, <3>3, Zenon DEF ReadPressure
  <2>2. TypeOK'
    BY <1>0, <1>2, <2>1 DEF ReadPressure, NoFailure, Failure, TypeOK, streaks, cooling, demand
  <2>3. Aim' /\ Closing' /\ Listed'
    BY <1>0, <1>2, <2>1 DEF ReadPressure, Aim, Closing, Listed
  <2>4. QED
    BY <2>2, <2>3 DEF PoolInv
<1>3. CASE Decide
  <2>1. UnknownPressure \in Pressures /\ KnownPressure(UnknownPressure)
    BY DEF UnknownPressure, Pressures, KnownPressure
  <2>2. desired' \in 0 .. MaxWorkers /\ suggested' \in Nat /\ (desired' >= MinWorkers \/ desired' = Len(workers))
    BY <1>3, DecideDecides
  <2>3. ups' \in Nat /\ downs' \in Nat /\ failures' \in Nat
    BY <1>0, <1>3, PoolAssumption DEF Decide, TypeOK, Smaller, NoFailure, Failure
  <2>4. current' \in 0 .. MaxWorkers
    BY <1>0, <1>3 DEF Decide, TypeOK, Aim
  <2>5. TypeOK'
    BY <1>0, <1>3, <2>1, <2>2, <2>3, <2>4 DEF Decide, TypeOK, cooling, demand
  <2>6. Aim'
    BY <1>0, <1>3, <2>1, <2>2, PoolAssumption DEF Decide, Aim, TypeOK
  <2>7. Closing' /\ Listed'
    BY <1>0, <1>3 DEF Decide, Closing, Listed
  <2>8. QED
    BY <2>5, <2>6, <2>7 DEF PoolInv
<1>4. CASE OpenQueue
  <2>1. TypeOK'
    BY <1>0, <1>4 DEF OpenQueue, TypeOK, streaks, cooling, demand, decision
  <2>2. Aim' /\ Closing' /\ Listed'
    BY <1>0, <1>4 DEF OpenQueue, Aim, Closing, Listed, decision
  <2>3. QED
    BY <2>1, <2>2 DEF PoolInv
<1>5. CASE FactoryThrows
  <2>1. TypeOK'
    BY <1>0, <1>5, PoolAssumption DEF FactoryThrows, Fail, EndOfRebalance, Failure, TypeOK, streaks, cooling, demand
  <2>2. Aim' /\ Closing' /\ Listed'
    BY <1>0, <1>5 DEF FactoryThrows, Fail, EndOfRebalance, Aim, Closing, Listed
  <2>3. QED
    BY <2>1, <2>2 DEF PoolInv
<1>6. CASE EndRebalance
  <2>1. TypeOK'
    BY <1>0, <1>6, PoolAssumption DEF EndRebalance, EndOfRebalance, TypeOK, streaks, demand
  <2>2. Aim' /\ Closing' /\ Listed'
    BY <1>0, <1>6 DEF EndRebalance, EndOfRebalance, Aim, Closing, Listed
  <2>3. QED
    BY <2>1, <2>2 DEF PoolInv
<1>7. QED
  BY <1>1, <1>2, <1>3, <1>4, <1>5, <1>6

\* The steps that add or remove a worker.
LEMMA ResizeStep ==
  ASSUME PoolInv, RemoveWorker \/ Removed \/ RemoveThrows \/ (\E v \in Workers : AddWorker(v))
  PROVE  PoolInv'
<1>0. TypeOK /\ Aim /\ Closing /\ Listed /\ workers \in Seq(Workers)
  BY DEF PoolInv, TypeOK
<1>1. ASSUME NEW v \in Workers, AddWorker(v) PROVE PoolInv'
  <2>1. /\ workers' \in Seq(Workers) /\ Len(workers') = Len(workers) + 1 /\ v \in Range(workers')
        /\ \A w \in Range(workers) : w \in Range(workers')
    BY <1>0, <1>1, AppendedWorker DEF AddWorker
  <2>2. TypeOK'
    BY <1>0, <1>1, <2>1 DEF AddWorker, TypeOK, streaks, cooling, demand, decision
  <2>3. Aim' /\ Closing'
    BY <1>0, <1>1, <2>1, PoolAssumption DEF AddWorker, Aim, Closing, TypeOK, decision
  <2>4. Listed'
    BY <1>0, <1>1, <2>1 DEF AddWorker, Listed, TypeOK
  <2>5. QED
    BY <2>2, <2>3, <2>4 DEF PoolInv
<1>2. CASE RemoveWorker
  <2>0. Len(workers) > 0 /\ Len(workers) \in Nat /\ desired \in 0 .. MaxWorkers /\ Len(workers) > desired
    BY <1>0, <1>2 DEF RemoveWorker, TypeOK
  <2>1. /\ workers' \in Seq(Workers) /\ Len(workers') = Len(workers) - 1 /\ Last(workers) \in Workers
        /\ \A w \in Range(workers) : w \in Range(workers') \/ w = Last(workers)
    BY <1>0, <1>2, <2>0, FrontOfWorkers DEF RemoveWorker
  <2>2. TypeOK'
    BY <1>0, <1>2, <2>1 DEF RemoveWorker, TypeOK, streaks, cooling, demand, decision
  <2>3. Aim' /\ Closing'
    BY <1>0, <1>2, <2>0, <2>1, PoolAssumption DEF RemoveWorker, Aim, Closing, decision
  <2>4. Listed'
    BY <1>0, <1>2, <2>1 DEF RemoveWorker, Listed, TypeOK
  <2>5. QED
    BY <2>2, <2>3, <2>4 DEF PoolInv
<1>3. CASE Removed
  <2>2. TypeOK'
    BY <1>0, <1>3 DEF Removed, TypeOK, streaks, cooling, demand, decision
  <2>3. Aim' /\ Closing'
    BY <1>0, <1>3 DEF Removed, Aim, Closing, decision
  <2>4. Listed'
    BY <1>0, <1>3 DEF Removed, Listed, TypeOK
  <2>5. QED
    BY <2>2, <2>3, <2>4 DEF PoolInv
<1>4. CASE RemoveThrows
  <2>1. failures' \in Nat /\ current' \in 0 .. MaxWorkers /\ desired' \in 0 .. MaxWorkers
    BY <1>0, <1>4, PoolAssumption DEF RemoveThrows, Fail, EndOfRebalance, NoFailure, Failure, TypeOK
  <2>2. TypeOK'
    BY <1>0, <1>4, <2>1 DEF RemoveThrows, Fail, EndOfRebalance, TypeOK, streaks, cooling, demand
  <2>3. Aim' /\ Closing'
    BY <1>0, <1>4 DEF RemoveThrows, Fail, EndOfRebalance, Aim, Closing
  <2>4. Listed'
    BY <1>0, <1>4 DEF RemoveThrows, Fail, EndOfRebalance, Listed, TypeOK
  <2>5. QED
    BY <2>2, <2>3, <2>4 DEF PoolInv
<1>5. QED
  BY <1>1, <1>2, <1>3, <1>4

\* The steps of close().
LEMMA CloseStep ==
  ASSUME PoolInv, Close \/ CloseWorkers \/ Closed \/ CloseThrows
  PROVE  PoolInv'
<1>0. TypeOK /\ Aim /\ Closing /\ Listed /\ workers \in Seq(Workers)
  BY DEF PoolInv, TypeOK
<1>1. CASE Close
  <2>1. TypeOK'
    BY <1>0, <1>1 DEF Close, TypeOK, streaks, cooling, demand, rebalance, decision
  <2>2. Aim' /\ Closing' /\ Listed'
    BY <1>0, <1>1 DEF Close, Aim, Closing, Listed, rebalance, decision
  <2>3. QED
    BY <2>1, <2>2 DEF PoolInv
<1>2. CASE CloseWorkers
  <2>1. Range(workers) \subseteq Workers
    BY <1>0 DEF Range
  <2>2. TypeOK'
    BY <1>0, <1>2, <2>1 DEF CloseWorkers, TypeOK, streaks, cooling, demand, rebalance, decision
  <2>3. Aim' /\ Closing'
    BY <1>0, <1>2 DEF CloseWorkers, Aim, Closing, rebalance, decision
  <2>4. Listed'
    BY <1>0, <1>2 DEF CloseWorkers, Listed, TypeOK, rebalance, decision
  <2>5. QED
    BY <2>2, <2>3, <2>4 DEF PoolInv
<1>3. CASE Closed
  <2>1. ASSUME NEW w \in Workers PROVE loop[w] \notin {"polling", "busy"}
    <3>1. closing = "draining" /\ step = "none"
      BY <1>0, <1>3 DEF Closed, Closing
    <3>2. w \in Range(workers) => loop[w] = "ended"
      BY <1>3 DEF Closed, Range
    <3>3. QED
      BY <1>0, <3>1, <3>2 DEF Listed
  <2>2. workers' \in Seq(Workers) /\ Len(workers') = 0
    BY <1>3 DEF Closed
  <2>3. TypeOK'
    BY <1>0, <1>3, <2>2 DEF Closed, TypeOK, streaks, cooling, demand, rebalance, decision
  <2>4. Aim' /\ Closing'
    BY <1>0, <1>3, <2>2, PoolAssumption DEF Closed, Aim, Closing, TypeOK, rebalance, decision
  <2>5. Listed'
    BY <1>3, <2>1 DEF Closed, Listed
  <2>6. QED
    BY <2>3, <2>4, <2>5 DEF PoolInv
<1>4. CASE CloseThrows
  <2>2. workers' \in Seq(Workers) /\ Len(workers') = 0
    BY <1>4 DEF CloseThrows
  <2>3. TypeOK'
    BY <1>0, <1>4, <2>2 DEF CloseThrows, TypeOK, streaks, cooling, demand, rebalance, decision
  <2>4. Aim' /\ Closing'
    BY <1>0, <1>4, <2>2, PoolAssumption DEF CloseThrows, Aim, Closing, TypeOK, rebalance, decision
  <2>5. Listed'
    BY <1>0, <1>4 DEF CloseThrows, Listed
  <2>6. QED
    BY <2>3, <2>4, <2>5 DEF PoolInv
<1>5. QED
  BY <1>1, <1>2, <1>3, <1>4

\* The steps of the workers, of the clocks and of the rest of the world.
LEMMA WorldStep ==
  ASSUME PoolInv,
         \/ UpCooldownEnds \/ DownCooldownEnds \/ Arrive \/ OthersChange
         \/ \E w \in Workers : Serve(w) \/ Served(w) \/ LoopEnds(w) \/ LoopThrows(w)
  PROVE  PoolInv'
<1>0. TypeOK /\ Aim /\ Closing /\ Listed
  BY DEF PoolInv
<1>1. CASE UpCooldownEnds \/ DownCooldownEnds \/ Arrive \/ OthersChange
  <2>1. TypeOK'
    <3>1. CASE UpCooldownEnds
      BY <1>0, <3>1 DEF UpCooldownEnds, TypeOK, streaks, demand, rebalance, decision
    <3>2. CASE DownCooldownEnds
      BY <1>0, <3>2 DEF DownCooldownEnds, TypeOK, streaks, demand, rebalance, decision
    <3>3. CASE Arrive
      BY <1>0, <3>3 DEF Arrive, TypeOK, streaks, cooling, rebalance, decision
    <3>4. CASE OthersChange
      BY <1>0, <3>4 DEF OthersChange, TypeOK, streaks, cooling, rebalance, decision
    <3>5. QED
      BY <1>1, <3>1, <3>2, <3>3, <3>4
  <2>2. Aim' /\ Closing' /\ Listed'
    BY <1>0, <1>1 DEF UpCooldownEnds, DownCooldownEnds, Arrive, OthersChange, Aim, Closing, Listed, rebalance, decision
  <2>3. QED
    BY <2>1, <2>2 DEF PoolInv
<1>2. ASSUME NEW w \in Workers, Serve(w) \/ Served(w) \/ LoopEnds(w) \/ LoopThrows(w) PROVE PoolInv'
  <2>1. TypeOK'
    <3>1. CASE Serve(w)
      BY <1>0, <3>1 DEF Serve, TypeOK, streaks, cooling, rebalance, decision
    <3>2. CASE Served(w)
      BY <1>0, <3>2 DEF Served, TypeOK, streaks, cooling, demand, rebalance, decision
    <3>3. CASE LoopEnds(w)
      BY <1>0, <3>3 DEF LoopEnds, TypeOK, streaks, cooling, demand, rebalance, decision
    <3>4. CASE LoopThrows(w)
      BY <1>0, <3>4 DEF LoopThrows, Failure, TypeOK, streaks, cooling, demand, rebalance, decision
    <3>5. QED
      BY <1>2, <3>1, <3>2, <3>3, <3>4
  <2>2. Aim' /\ Closing'
    BY <1>0, <1>2 DEF Serve, Served, LoopEnds, LoopThrows, Aim, Closing, rebalance, decision
  <2>3. Listed'
    BY <1>0, <1>2 DEF Serve, Served, LoopEnds, LoopThrows, Listed, TypeOK, rebalance
  <2>4. QED
    BY <2>1, <2>2, <2>3 DEF PoolInv
<1>3. QED
  BY <1>1, <1>2

\* Every step keeps the invariant.
LEMMA PoolInvStep == PoolInv /\ [Next]_vars => PoolInv'
<1>1. SUFFICES ASSUME PoolInv, [Next]_vars PROVE PoolInv'
  OBVIOUS
<1>2. CASE Next
  BY <1>1, <1>2, RebalanceStep, ResizeStep, CloseStep, WorldStep DEF Next, Rebalancing
<1>3. CASE UNCHANGED vars
  <2>1. TypeOK' /\ Aim' /\ Closing' /\ Listed'
    BY <1>1, <1>3 DEF PoolInv, vars, TypeOK, Aim, Closing, Listed, streaks, cooling, demand, rebalance, decision
  <2>2. QED
    BY <2>1 DEF PoolInv
<1>4. QED
  BY <1>1, <1>2, <1>3

-----------------------------------------------------------------------------
(* The theorems.                                                             *)

\* Every state of every behaviour satisfies the inductive invariant.
THEOREM PoolInvariance == Spec => []PoolInv
<1>1. QED
  BY InitPoolInv, PoolInvStep, PTL DEF Spec

\* The pool's state keeps its types; the size a rebalance aims at never exceeds
\* maxWorkers.
THEOREM PoolTypeCorrect == Spec => []TypeOK
<1>1. PoolInv => TypeOK
  BY DEF PoolInv
<1>2. QED
  BY <1>1, PoolInvariance, PTL

\* No worker is alive when close() has returned (run-worker-pool.ts, close).
THEOREM ClosedPoolIsQuiet == Spec => []ClosedIsQuiet
<1>1. PoolInv => ClosedIsQuiet
  BY DEF PoolInv, Closing, Listed, ClosedIsQuiet, Range
<1>2. QED
  BY <1>1, PoolInvariance, PTL

\* A decision counts no busy worker that has left the pool.
THEOREM BusyCountIsLocal == Spec => []BusyIsLocal
<1>1. PoolInv => BusyIsLocal
  BY DEF PoolInv, Closing, Listed, BusyIsLocal
<1>2. QED
  BY <1>1, PoolInvariance, PTL

\* The pool keeps to minWorkers and maxWorkers, whatever the load and whichever
\* calls fail (run-worker-pool.ts, #rebalance).
THEOREM PoolWithinBounds == Spec => WithinBounds
<1>1. PoolInv /\ [Next]_vars =>
        [ /\ Len(workers') <= MaxWorkers
          /\ active' /\ Len(workers') < Len(workers) => Len(workers') >= MinWorkers ]_vars
  <2>1. SUFFICES ASSUME PoolInv, Next
                 PROVE  /\ Len(workers') <= MaxWorkers
                        /\ active' /\ Len(workers') < Len(workers) => Len(workers') >= MinWorkers
    OBVIOUS
  <2>2. PoolInv'
    BY <2>1, PoolInvStep
  <2>3. Len(workers') <= MaxWorkers
    BY <2>2 DEF PoolInv, Aim
  <2>4. CASE workers' = workers
    BY <2>3, <2>4 DEF PoolInv, TypeOK
  <2>5. CASE RemoveWorker
    <3>1. workers \in Seq(Workers) /\ Len(workers) \in Nat /\ desired \in 0 .. MaxWorkers /\ Len(workers) > desired
          /\ desired >= MinWorkers
      BY <2>1, <2>5, PoolAssumption DEF PoolInv, TypeOK, Aim, RemoveWorker
    <3>2. Len(workers') = Len(workers) - 1
      BY <2>5, <3>1, FrontOfWorkers DEF RemoveWorker
    <3>3. QED
      BY <2>3, <3>1, <3>2, PoolAssumption
  <2>6. ASSUME NEW v \in Workers, AddWorker(v) PROVE Len(workers') = Len(workers) + 1 /\ Len(workers) \in Nat
    BY <2>1, <2>6, AppendedWorker DEF PoolInv, TypeOK, AddWorker
  <2>7. CASE Closed \/ CloseThrows
    <3>1. ~active'
      BY <2>1, <2>7 DEF PoolInv, Closing, Closed, CloseThrows
    <3>2. QED
      BY <2>3, <3>1
  <2>8. \/ workers' = workers \/ RemoveWorker \/ Closed \/ CloseThrows
        \/ \E v \in Workers : AddWorker(v)
    BY <2>1 DEF Next, Rebalancing, Start, Tick, ReadPressure, Decide, OpenQueue, Removed, RemoveThrows, EndRebalance,
         FactoryThrows, UpCooldownEnds, DownCooldownEnds, Close, CloseWorkers, Serve, Served, LoopEnds, LoopThrows,
         Arrive, OthersChange
  <2>9. QED
    BY <2>3, <2>4, <2>5, <2>6, <2>7, <2>8
<1>2. QED
  BY <1>1, PoolInvariance, PTL DEF Spec, WithinBounds

\* A pool shrinks only after the window of low samples, outside a cooldown, and
\* leaves room for the sessions it knows of (#desiredWorkerCount and
\* calculateRedisWorkerPoolSuggestion).
THEOREM PoolShrinksDeliberately == Spec => ShrinkIsDeliberate
<1>1. PoolInv /\ [Next]_vars =>
        [ step = "load" /\ step' = "scale" /\ desired' < Len(workers) /\ reason = "interval" =>
            /\ downs' = DownSamples /\ ~downCooling
            /\ (desired' + others.remote) * PerUnit >= pressure.ready + BusyWorkers \/ desired' = MaxWorkers ]_vars
  <2>1. SUFFICES ASSUME PoolInv, Next, step = "load", step' = "scale", desired' < Len(workers), reason = "interval"
                 PROVE  /\ downs' = DownSamples /\ ~downCooling
                        /\ (desired' + others.remote) * PerUnit >= pressure.ready + BusyWorkers \/ desired' = MaxWorkers
    OBVIOUS
  <2>2. Decide
    BY <2>1 DEF Next, Rebalancing, Start, Tick, Begin, ReadPressure, OpenQueue, AddWorker, RemoveWorker, Removed,
         RemoveThrows, EndRebalance, FactoryThrows, UpCooldownEnds, DownCooldownEnds, Close, CloseWorkers, Closed,
         CloseThrows, Serve, Served, LoopEnds, LoopThrows, Arrive, OthersChange, rebalance
  <2>3. QED
    BY <2>1, <2>2, DecideDecides
<1>2. QED
  BY <1>1, PoolInvariance, PTL DEF Spec, ShrinkIsDeliberate
=============================================================================
