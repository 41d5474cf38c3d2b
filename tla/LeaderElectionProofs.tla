------------------------- MODULE LeaderElectionProofs -------------------------
(***************************************************************************)
(* At most one controller leads, and at most one evaluates.                *)
(*                                                                         *)
(* The argument: whoever leads or evaluates acts on a renewal that is      *)
(* younger than a lease lasts, so the lease is still its own; and whoever  *)
(* may write the lease of another has found it expired.  So no write but   *)
(* the actor's own is applied while it acts.                               *)
(***************************************************************************)
EXTENDS LeaderElection, TLAPS

\* The longest that a leader goes without ending a tick, and that an evaluation
\* it begins goes on: both counted from the beginning of the tick that renewed.
Believed == 2 * MaxRequest + MaxEvaluation + RenewInterval
Worked == Believed + MaxEvaluation

\* Who leads or evaluates holds the lease, by a renewal no younger than it.
Backed(c) == Acting(c) => lease.holder = c /\ lease.age <= renewed[c]

\* A write that was applied, and whose answer is on its way, holds as well.
Granted(c) ==
  stage[c] = "written" /\ accepted[c] =>
    lease.holder = c /\ lease.age <= since[c] /\ \A s \in strays : s.by # c

\* A write with the version of the lease is the holder's, or the lease expired.
MayWrite(c) == lease.holder = c \/ Expired(c)
Justified(c) == stage[c] = "write" /\ current[c] => MayWrite(c)
StraysJustified ==
  \A s \in strays : MayWrite(s.by) /\ (Acting(s.by) => s.age <= renewed[s.by])

\* Which stages go with which flags.
Shape(c) ==
  /\ leader[c] => stage[c] # "down"
  /\ evaluating[c] => stage[c] # "down"
  /\ running[c] => leader[c]
  /\ stage[c] = "stopped" => closed[c]
  /\ stage[c] = "wait" => ~closed[c]
  /\ leader[c] /\ stage[c] \in Requesting => ~closed[c]

\* How old a renewal, and how long what depends on it, can be.
Clocks(c) ==
  /\ stage[c] \in Requesting => since[c] + rest[c] <= MaxRequest
  /\ stage[c] \in Requesting /\ Acting(c) => since[c] <= renewed[c]
  /\ stage[c] \in Requesting /\ leader[c] => renewed[c] <= since[c] + MaxRequest + MaxEvaluation + RenewInterval
  /\ stage[c] = "gained" => renewed[c] + rest[c] <= MaxRequest + MaxEvaluation
  /\ stage[c] = "wait" /\ leader[c] => renewed[c] + rest[c] <= MaxRequest + MaxEvaluation + RenewInterval
  /\ leader[c] /\ closed[c] => renewed[c] + exit[c] <= MaxRequest + MaxClose
  /\ closed[c] => exit[c] <= MaxClose
  /\ evaluating[c] => \/ renewed[c] + due[c] <= Worked
                      \/ closed[c] /\ renewed[c] + exit[c] <= MaxRequest + MaxClose

Kept(c) == Backed(c) /\ Granted(c) /\ Justified(c) /\ Shape(c) /\ Clocks(c)

IInv ==
  /\ TypeOK
  /\ StraysJustified
  /\ \A c \in Controllers : Kept(c)

-----------------------------------------------------------------------------
(* What the invariant says of a state.                                       *)

\* Whoever leads or evaluates acts on a renewal younger than a lease lasts.
LEMMA ActorIsFresh ==
  ASSUME IInv, NEW c \in Controllers, Acting(c)
  PROVE  renewed[c] + Skew < Duration
<1>1. TypeOK /\ Shape(c) /\ Clocks(c)
  BY DEF IInv, Kept
<1>2. CASE evaluating[c]
  BY <1>1, <1>2, ElectionAssumption, TimingAssumption DEF TypeOK, Clocks, Worked, Believed, Ages, Horizon
<1>3. CASE stage[c] = "gained"
  BY <1>1, <1>3, ElectionAssumption, TimingAssumption DEF TypeOK, Clocks, Ages, Horizon
<1>4. CASE leader[c]
  <2>1. CASE closed[c]
    BY <1>1, <1>4, <2>1, ElectionAssumption, TimingAssumption DEF TypeOK, Clocks, Ages, Horizon
  <2>2. CASE stage[c] \in {"wait", "gained"} \cup Requesting
    BY <1>1, <1>4, <2>2, ElectionAssumption, TimingAssumption DEF TypeOK, Clocks, Ages, Horizon
  <2>3. stage[c] \in {"wait", "gained", "stopped"} \cup Requesting
    BY <1>1, <1>4 DEF TypeOK, Shape
  <2>4. QED
    BY <1>1, <2>1, <2>2, <2>3 DEF Shape
<1>5. QED
  BY <1>2, <1>3, <1>4 DEF Acting, Reconciling

\* Nobody else may write the lease of a controller that acts, or that has been
\* granted the lease and does not know it yet.
LEMMA NobodyElseMayWrite ==
  ASSUME IInv, NEW c \in Controllers, NEW d \in Controllers, d # c,
         Acting(c) \/ (stage[c] = "written" /\ accepted[c])
  PROVE  ~MayWrite(d)
<1>1. TypeOK /\ Backed(c) /\ Granted(c) /\ Clocks(c)
  BY DEF IInv, Kept
<1>2. Offset[c] \in 0 .. Skew /\ Offset[d] \in 0 .. Skew
  BY ElectionAssumption
<1>3. lease.holder = c /\ c # NoOne /\ lease.age \in Nat
  BY <1>1, ElectionAssumption DEF Backed, Granted, TypeOK, Ages, Horizon
<1>4. lease.age + Skew < Duration
  <2>1. CASE Acting(c)
    BY <1>1, <1>3, <2>1, ActorIsFresh, ElectionAssumption DEF Backed, TypeOK, Ages, Horizon
  <2>2. CASE stage[c] = "written" /\ accepted[c]
    BY <1>1, <1>3, <2>2, ElectionAssumption, TimingAssumption DEF Granted, Clocks, Requesting, TypeOK, Ages, Horizon
  <2>3. QED
    BY <2>1, <2>2
<1>5. QED
  BY <1>2, <1>3, <1>4, ElectionAssumption DEF MayWrite, Expired

-----------------------------------------------------------------------------
(* Types.                                                                    *)

\* The invariant holds at first.
LEMMA InitIInv == Init => IInv
<1>1. SUFFICES ASSUME Init PROVE IInv
  OBVIOUS
<1>2. TypeOK
  BY <1>1, ElectionAssumption DEF Init, TypeOK, Ages, Horizon
<1>3. StraysJustified
  BY <1>1 DEF Init, StraysJustified
<1>4. ASSUME NEW c \in Controllers PROVE Backed(c) /\ Granted(c) /\ Justified(c) /\ Shape(c) /\ Clocks(c)
  <2>1. stage[c] = "down" /\ ~leader[c] /\ ~evaluating[c] /\ ~running[c] /\ ~closed[c]
    BY <1>1 DEF Init
  <2>2. QED
    BY <2>1 DEF Backed, Granted, Justified, Shape, Clocks, Acting, Reconciling, Requesting
<1>5. QED
  BY <1>2, <1>3, <1>4 DEF IInv, Kept

\* The end of a tick keeps the types of what it changes.
LEMMA ConcludeTypes ==
  ASSUME TypeOK, NEW c \in Controllers, NEW ok \in BOOLEAN, Conclude(c, ok)
  PROVE  /\ stage' \in [Controllers -> {"down", "wait", "gained", "stopped"} \cup Requesting]
         /\ since' \in [Controllers -> Ages] /\ rest' \in [Controllers -> Nat]
         /\ current' \in [Controllers -> BOOLEAN] /\ accepted' \in [Controllers -> BOOLEAN]
         /\ leader' \in [Controllers -> BOOLEAN] /\ renewed' \in [Controllers -> Ages]
         /\ closed' \in [Controllers -> BOOLEAN] /\ exit' \in [Controllers -> Nat]
         /\ running' \in [Controllers -> BOOLEAN] /\ evaluating' \in [Controllers -> BOOLEAN]
         /\ due' \in [Controllers -> Nat]
<1>1. CASE ok /\ ~leader[c]
  <2>1. leader' \in [Controllers -> BOOLEAN] /\ running' \in [Controllers -> BOOLEAN]
    BY <1>1, Zenon DEF TypeOK, Conclude
  <2>2. renewed' \in [Controllers -> Ages]
    BY <1>1 DEF TypeOK, Conclude
  <2>3. stage' \in [Controllers -> {"down", "wait", "gained", "stopped"} \cup Requesting] /\ rest' \in [Controllers -> Nat]
    BY <1>1, ElectionAssumption DEF TypeOK, Conclude
  <2>4. current' \in [Controllers -> BOOLEAN] /\ accepted' \in [Controllers -> BOOLEAN]
    BY DEF TypeOK, Conclude
  <2>5. QED
    BY <2>1, <2>2, <2>3, <2>4 DEF TypeOK, Conclude, shutdown
<1>2. CASE ~(ok /\ ~leader[c])
  <2>1. running' \in [Controllers -> BOOLEAN]
    BY <1>2, Zenon DEF TypeOK, Conclude
  <2>2. (IF closed[c] THEN "stopped" ELSE "wait") \in {"down", "wait", "gained", "stopped"} \cup Requesting
    OBVIOUS
  <2>3. (IF ok THEN RenewInterval ELSE RetryInterval) \in Nat
    BY ElectionAssumption
  <2>4. QED
    BY <1>2, <2>1, <2>2, <2>3 DEF TypeOK, Conclude, shutdown
<1>3. QED
  BY <1>1, <1>2

\* So does a write that is left behind.
LEMMA AbandonTypes ==
  ASSUME TypeOK, NEW c \in Controllers, Abandon(c)
  PROVE  strays' \subseteq [by : Controllers, age : Ages]
BY DEF TypeOK, Abandon

\* Every step keeps the types.
LEMMA TypeStep == TypeOK /\ [Next]_vars => TypeOK'
<1>1. SUFFICES ASSUME TypeOK, [Next]_vars PROVE TypeOK'
  OBVIOUS
<1>2. CASE UNCHANGED vars
  BY <1>1, <1>2 DEF TypeOK, vars, attempt, belief, shutdown, loop
<1>3. CASE TimePasses
  <2>1. \A age \in Ages : Older(age) \in Ages
    BY ElectionAssumption DEF Older, Ages, Horizon
  <2>2. \A time \in Nat : Sooner(time) \in Nat
    BY DEF Sooner
  <2>3. 0 \in Ages
    BY ElectionAssumption DEF Ages, Horizon
  <2>4. strays' \subseteq [by : Controllers, age : Ages]
    BY <1>1, <1>3, <2>1 DEF TypeOK, TimePasses
  <2>5. QED
    BY <1>1, <1>3, <2>1, <2>2, <2>3, <2>4 DEF TypeOK, TimePasses
<1>4. ASSUME NEW s \in strays, ServeStray(s) PROVE TypeOK'
  BY <1>1, <1>4 DEF TypeOK, ServeStray, Apply, belief, shutdown, loop
<1>5. ASSUME NEW c \in Controllers,
             \/ Start(c) \/ Proceed(c) \/ BeginEvaluation(c)
             \/ RequestFails(c) \/ Close(c) \/ Crash(c)
      PROVE  TypeOK'
  <2>0. 0 \in Ages
    BY ElectionAssumption DEF Ages, Horizon
  <2>1. CASE Start(c) \/ Tick(c)
    BY <1>1, <2>0, <2>1, ElectionAssumption DEF TypeOK, Start, Tick, Attempt, belief, shutdown, loop, Requesting
  <2>2. CASE ServeGet(c)
    BY <1>1, <2>2 DEF TypeOK, ServeGet, belief, shutdown, loop, Requesting
  <2>3. CASE Judge(c)
    BY <1>1, <2>3, ConcludeTypes DEF TypeOK, Judge, belief, shutdown, loop, Requesting
  <2>4. CASE ServeWrite(c)
    <3>1. lease' \in [holder : Controllers \cup {NoOne}, age : Ages] /\ strays' \subseteq [by : Controllers, age : Ages]
      BY <1>1, <2>4 DEF TypeOK, ServeWrite, Apply
    <3>2. current' \in [Controllers -> BOOLEAN] /\ accepted' \in [Controllers -> BOOLEAN]
      BY <1>1, <2>4, Zenon DEF TypeOK, ServeWrite, Apply
    <3>3. QED
      BY <1>1, <2>4, <3>1, <3>2 DEF TypeOK, ServeWrite, belief, shutdown, loop, Requesting
  <2>5. CASE Answer(c)
    BY <1>1, <2>5, ConcludeTypes DEF TypeOK, Answer
  <2>6. CASE RequestFails(c)
    <3>1. Conclude(c, FALSE) /\ Abandon(c) /\ UNCHANGED lease
      BY <2>6, Zenon DEF RequestFails
    <3>2. faults' \in Nat
      BY <1>1, <2>6 DEF TypeOK, RequestFails, Fault
    <3>3. QED
      BY <1>1, <3>1, <3>2, ConcludeTypes, AbandonTypes DEF TypeOK
  <2>7. CASE FirstEvaluationEnds(c)
    BY <1>1, <2>7, ElectionAssumption DEF TypeOK, FirstEvaluationEnds, belief, shutdown, loop
  <2>8. CASE BeginEvaluation(c)
    BY <1>1, <2>8, ElectionAssumption DEF TypeOK, BeginEvaluation, attempt, belief, shutdown
  <2>8a. CASE EndEvaluation(c)
    BY <1>1, <2>8a DEF TypeOK, EndEvaluation, attempt, belief, shutdown
  <2>9. CASE Close(c)
    BY <1>1, <2>9, ElectionAssumption DEF TypeOK, Close, Fault
  <2>10. CASE Exit(c) \/ Crash(c)
    <3>1. Die(c) /\ faults' \in Nat
      BY <1>1, <2>10 DEF TypeOK, Exit, Crash, Fault
    <3>2. strays' \subseteq [by : Controllers, age : Ages]
      BY <1>1, <3>1, AbandonTypes DEF Die
    <3>3. QED
      BY <1>1, <3>1, <3>2 DEF TypeOK, Die
  <2>11. QED
    BY <1>5, <2>1, <2>2, <2>3, <2>4, <2>5, <2>6, <2>7, <2>8, <2>8a, <2>9, <2>10 DEF Proceed
<1>6. QED
  BY <1>1, <1>2, <1>3, <1>4, <1>5 DEF Next

-----------------------------------------------------------------------------
(* What a step leaves alone.                                                 *)

Same(d) ==
  /\ stage'[d] = stage[d] /\ since'[d] = since[d] /\ rest'[d] = rest[d] /\ accepted'[d] = accepted[d]
  /\ leader'[d] = leader[d] /\ renewed'[d] = renewed[d] /\ closed'[d] = closed[d] /\ exit'[d] = exit[d]
  /\ running'[d] = running[d] /\ evaluating'[d] = evaluating[d] /\ due'[d] = due[d]

\* What speaks of one controller alone is kept when that controller is left alone.
LEMMA SameShape ==
  ASSUME NEW d \in Controllers, Shape(d), Clocks(d), Same(d)
  PROVE  Shape(d)' /\ Clocks(d)' /\ (Acting(d)' <=> Acting(d))
<1>1. Shape(d)'
  BY Zenon DEF Shape, Same
<1>2. Acting(d)' <=> Acting(d)
  BY Zenon DEF Acting, Reconciling, Same
<1>3. Clocks(d)'
  BY <1>2, Zenon DEF Clocks, Same
<1>4. QED
  BY <1>1, <1>2, <1>3

\* A step of another controller that writes no lease.
LEMMA OthersKept ==
  ASSUME IInv, NEW d \in Controllers, Same(d), current'[d] = current[d], lease' = lease,
         \A s \in strays' : s \in strays \/ s.by # d
  PROVE  Kept(d)' /\ (Acting(d)' <=> Acting(d))
<1>1. Backed(d) /\ Granted(d) /\ Justified(d) /\ Shape(d) /\ Clocks(d)
  BY DEF IInv, Kept
<1>2. Shape(d)' /\ Clocks(d)' /\ (Acting(d)' <=> Acting(d))
  BY <1>1, SameShape
<1>3. Backed(d)'
  BY <1>1, <1>2, Zenon DEF Backed, Same
<1>4. Granted(d)'
  BY <1>1, Zenon DEF Granted, Same
<1>5. Justified(d)'
  BY <1>1, Zenon DEF Justified, MayWrite, Expired, Same
<1>6. QED
  BY <1>2, <1>3, <1>4, <1>5 DEF Kept

\* A step in which the write of another controller is applied.
LEMMA OthersOfWrite ==
  ASSUME IInv, NEW c \in Controllers, NEW d \in Controllers, c # d, MayWrite(c), Same(d), ~current'[d]
  PROVE  Kept(d)' /\ ~Acting(d)'
<1>1. Backed(d) /\ Granted(d) /\ Justified(d) /\ Shape(d) /\ Clocks(d)
  BY DEF IInv, Kept
<1>2. Shape(d)' /\ Clocks(d)' /\ (Acting(d)' <=> Acting(d))
  BY <1>1, SameShape
<1>3. ~Acting(d) /\ ~(stage[d] = "written" /\ accepted[d])
  BY NobodyElseMayWrite
<1>4. Granted(d)'
  BY <1>3, Zenon DEF Granted, Same
<1>5. QED
  BY <1>2, <1>3, <1>4 DEF Kept, Backed, Justified

\* A step of c that writes no lease keeps the invariant when it keeps c's part
\* of it and when the writes that c leaves behind are justified.
LEMMA StepKeeps ==
  ASSUME IInv, NEW c \in Controllers, lease' = lease, Kept(c)', strays' \subseteq [by : Controllers, age : Ages],
         \A d \in Controllers \ {c} : Same(d) /\ current'[d] = current[d],
         \A s \in strays' : s.by # c => s \in strays,
         \A s \in strays' : s.by = c => MayWrite(c) /\ (Acting(c)' => s.age <= renewed'[c])
  PROVE  StraysJustified' /\ \A d \in Controllers : Kept(d)'
<1>1. ASSUME NEW d \in Controllers, d # c PROVE Kept(d)' /\ (Acting(d)' <=> Acting(d))
  <2>1. \A s \in strays' : s \in strays \/ s.by # d
    BY <1>1
  <2>2. QED
    BY <1>1, <2>1, OthersKept
<1>2. ASSUME NEW s \in strays' PROVE MayWrite(s.by)' /\ (Acting(s.by)' => s.age <= renewed'[s.by])
  <2>1. MayWrite(s.by)' <=> MayWrite(s.by)
    BY Zenon DEF MayWrite, Expired
  <2>2. CASE s.by = c
    BY <1>2, <2>1, <2>2
  <2>3. CASE s.by # c
    BY <1>1, <1>2, <2>1, <2>3 DEF IInv, StraysJustified, Same
  <2>4. QED
    BY <2>2, <2>3
<1>3. QED
  BY <1>1, <1>2 DEF StraysJustified

\* In most steps c begins no new act and leaves no write behind.
LEMMA PlainStepKeeps ==
  ASSUME IInv, NEW c \in Controllers, lease' = lease, strays' = strays,
         \A d \in Controllers \ {c} : Same(d) /\ current'[d] = current[d],
         Acting(c)' => Acting(c) /\ renewed'[c] = renewed[c],
         Granted(c)' /\ Justified(c)' /\ Shape(c)' /\ Clocks(c)'
  PROVE  StraysJustified' /\ \A d \in Controllers : Kept(d)'
<1>1. TypeOK /\ StraysJustified /\ Backed(c)
  BY DEF IInv, Kept
<1>2. Kept(c)'
  BY <1>1 DEF Kept, Backed
<1>3. \A s \in strays' : s.by = c => MayWrite(c) /\ (Acting(c)' => s.age <= renewed'[c])
  BY <1>1 DEF StraysJustified
<1>4. QED
  BY <1>1, <1>2, <1>3, StepKeeps DEF TypeOK

-----------------------------------------------------------------------------
(* The steps of one controller that write no lease.                          *)

\* A tick begins.
LEMMA AttemptKeeps ==
  ASSUME IInv, NEW c \in Controllers, Start(c) \/ Tick(c)
  PROVE  StraysJustified' /\ \A d \in Controllers : Kept(d)'
<1>1. TypeOK /\ Granted(c) /\ Justified(c) /\ Shape(c) /\ Clocks(c)
  BY DEF IInv, Kept
<1>2. lease' = lease /\ strays' = strays
  BY DEF Start, Tick, Attempt
<1>3. ASSUME NEW d \in Controllers \ {c} PROVE Same(d) /\ current'[d] = current[d]
  BY <1>1, <1>3 DEF Same, TypeOK, Start, Tick, Attempt, attempt, belief, shutdown, loop
<1>4. Acting(c)' => Acting(c) /\ renewed'[c] = renewed[c]
  BY <1>1 DEF TypeOK, Shape, Acting, Reconciling, Start, Tick, Attempt, attempt, belief, shutdown, loop
<1>5. Granted(c)'
  BY <1>1, <1>2 DEF Granted, TypeOK, Start, Tick, Attempt, attempt, belief, shutdown, loop
<1>6. Justified(c)'
  BY <1>1, <1>2 DEF Justified, MayWrite, Expired, TypeOK, Start, Tick, Attempt, attempt, belief, shutdown, loop
<1>7. Shape(c)'
  BY <1>1 DEF Shape, Requesting, TypeOK, Start, Tick, Attempt, attempt, belief, shutdown, loop
<1>8. Clocks(c)'
  BY <1>1, ElectionAssumption DEF Clocks, Shape, Acting, Reconciling, Requesting, Worked, Believed, TypeOK, Ages, Horizon,
       Start, Tick, Attempt, attempt, belief, shutdown, loop
<1>9. QED
  BY <1>2, <1>3, <1>4, <1>5, <1>6, <1>7, <1>8, PlainStepKeeps

\* The lease is read.
LEMMA ServeGetKeeps ==
  ASSUME IInv, NEW c \in Controllers, ServeGet(c)
  PROVE  StraysJustified' /\ \A d \in Controllers : Kept(d)'
<1>1. TypeOK /\ Granted(c) /\ Justified(c) /\ Shape(c) /\ Clocks(c)
  BY DEF IInv, Kept
<1>2. lease' = lease /\ strays' = strays
  BY DEF ServeGet
<1>3. ASSUME NEW d \in Controllers \ {c} PROVE Same(d) /\ current'[d] = current[d]
  BY <1>1, <1>3 DEF Same, TypeOK, ServeGet, attempt, belief, shutdown, loop
<1>4. Acting(c)' => Acting(c) /\ renewed'[c] = renewed[c]
  BY <1>1 DEF TypeOK, Shape, Acting, Reconciling, ServeGet, attempt, belief, shutdown, loop
<1>5. Granted(c)'
  BY <1>1, <1>2 DEF Granted, TypeOK, ServeGet, attempt, belief, shutdown, loop
<1>6. Justified(c)'
  BY <1>1, <1>2 DEF Justified, MayWrite, Expired, TypeOK, ServeGet, attempt, belief, shutdown, loop
<1>7. Shape(c)'
  BY <1>1 DEF Shape, Requesting, TypeOK, ServeGet, attempt, belief, shutdown, loop
<1>8. Clocks(c)'
  BY <1>1, ElectionAssumption DEF Clocks, Shape, Acting, Reconciling, Requesting, Worked, Believed, TypeOK, Ages, Horizon,
       ServeGet, attempt, belief, shutdown, loop
<1>9. QED
  BY <1>2, <1>3, <1>4, <1>5, <1>6, <1>7, <1>8, PlainStepKeeps

\* The first evaluation ends.
LEMMA FirstEvaluationEndsKeeps ==
  ASSUME IInv, NEW c \in Controllers, FirstEvaluationEnds(c)
  PROVE  StraysJustified' /\ \A d \in Controllers : Kept(d)'
<1>1. TypeOK /\ Granted(c) /\ Justified(c) /\ Shape(c) /\ Clocks(c)
  BY DEF IInv, Kept
<1>2. lease' = lease /\ strays' = strays
  BY DEF FirstEvaluationEnds
<1>3. ASSUME NEW d \in Controllers \ {c} PROVE Same(d) /\ current'[d] = current[d]
  BY <1>1, <1>3 DEF Same, TypeOK, FirstEvaluationEnds, attempt, belief, shutdown, loop
<1>4. Acting(c)' => Acting(c) /\ renewed'[c] = renewed[c]
  BY <1>1 DEF TypeOK, Shape, Acting, Reconciling, FirstEvaluationEnds, attempt, belief, shutdown, loop
<1>5. Granted(c)'
  BY <1>1, <1>2 DEF Granted, TypeOK, FirstEvaluationEnds, attempt, belief, shutdown, loop
<1>6. Justified(c)'
  BY <1>1, <1>2 DEF Justified, MayWrite, Expired, TypeOK, FirstEvaluationEnds, attempt, belief, shutdown, loop
<1>7. Shape(c)'
  BY <1>1 DEF Shape, Requesting, TypeOK, FirstEvaluationEnds, attempt, belief, shutdown, loop
<1>8. Clocks(c)'
  BY <1>1, ElectionAssumption DEF Clocks, Shape, Acting, Reconciling, Requesting, Worked, Believed, TypeOK, Ages, Horizon,
       FirstEvaluationEnds, attempt, belief, shutdown, loop
<1>9. QED
  BY <1>2, <1>3, <1>4, <1>5, <1>6, <1>7, <1>8, PlainStepKeeps

\* The loop begins an evaluation.
LEMMA BeginEvaluationKeeps ==
  ASSUME IInv, NEW c \in Controllers, BeginEvaluation(c)
  PROVE  StraysJustified' /\ \A d \in Controllers : Kept(d)'
<1>1. TypeOK /\ Granted(c) /\ Justified(c) /\ Shape(c) /\ Clocks(c)
  BY DEF IInv, Kept
<1>2. lease' = lease /\ strays' = strays
  BY DEF BeginEvaluation
<1>3. ASSUME NEW d \in Controllers \ {c} PROVE Same(d) /\ current'[d] = current[d]
  BY <1>1, <1>3 DEF Same, TypeOK, BeginEvaluation, attempt, belief, shutdown, loop
<1>4. Acting(c)' => Acting(c) /\ renewed'[c] = renewed[c]
  BY <1>1 DEF TypeOK, Shape, Acting, Reconciling, BeginEvaluation, attempt, belief, shutdown, loop
<1>5. Granted(c)'
  BY <1>1, <1>2 DEF Granted, TypeOK, BeginEvaluation, attempt, belief, shutdown, loop
<1>6. Justified(c)'
  BY <1>1, <1>2 DEF Justified, MayWrite, Expired, TypeOK, BeginEvaluation, attempt, belief, shutdown, loop
<1>7. Shape(c)'
  BY <1>1 DEF Shape, Requesting, TypeOK, BeginEvaluation, attempt, belief, shutdown, loop
<1>8. Clocks(c)'
  BY <1>1, ElectionAssumption DEF Clocks, Shape, Acting, Reconciling, Requesting, Worked, Believed, TypeOK, Ages, Horizon,
       BeginEvaluation, attempt, belief, shutdown, loop
<1>9. QED
  BY <1>2, <1>3, <1>4, <1>5, <1>6, <1>7, <1>8, PlainStepKeeps

\* An evaluation ends.
LEMMA EndEvaluationKeeps ==
  ASSUME IInv, NEW c \in Controllers, EndEvaluation(c)
  PROVE  StraysJustified' /\ \A d \in Controllers : Kept(d)'
<1>1. TypeOK /\ Granted(c) /\ Justified(c) /\ Shape(c) /\ Clocks(c)
  BY DEF IInv, Kept
<1>2. lease' = lease /\ strays' = strays
  BY DEF EndEvaluation
<1>3. ASSUME NEW d \in Controllers \ {c} PROVE Same(d) /\ current'[d] = current[d]
  BY <1>1, <1>3 DEF Same, TypeOK, EndEvaluation, attempt, belief, shutdown, loop
<1>4. Acting(c)' => Acting(c) /\ renewed'[c] = renewed[c]
  BY <1>1 DEF TypeOK, Shape, Acting, Reconciling, EndEvaluation, attempt, belief, shutdown, loop
<1>5. Granted(c)'
  BY <1>1, <1>2 DEF Granted, TypeOK, EndEvaluation, attempt, belief, shutdown, loop
<1>6. Justified(c)'
  BY <1>1, <1>2 DEF Justified, MayWrite, Expired, TypeOK, EndEvaluation, attempt, belief, shutdown, loop
<1>7. Shape(c)'
  BY <1>1 DEF Shape, Requesting, TypeOK, EndEvaluation, attempt, belief, shutdown, loop
<1>8. Clocks(c)'
  BY <1>1, ElectionAssumption DEF Clocks, Shape, Acting, Reconciling, Requesting, Worked, Believed, TypeOK, Ages, Horizon,
       EndEvaluation, attempt, belief, shutdown, loop
<1>9. QED
  BY <1>2, <1>3, <1>4, <1>5, <1>6, <1>7, <1>8, PlainStepKeeps

\* close()
LEMMA CloseKeeps ==
  ASSUME IInv, NEW c \in Controllers, Close(c)
  PROVE  StraysJustified' /\ \A d \in Controllers : Kept(d)'
<1>1. TypeOK /\ Granted(c) /\ Justified(c) /\ Shape(c) /\ Clocks(c)
  BY DEF IInv, Kept
<1>2. lease' = lease /\ strays' = strays
  BY DEF Close
<1>3. ASSUME NEW d \in Controllers \ {c} PROVE Same(d) /\ current'[d] = current[d]
  BY <1>1, <1>3 DEF Same, TypeOK, Close, attempt, belief, shutdown, loop
<1>4. Acting(c)' => Acting(c) /\ renewed'[c] = renewed[c]
  BY <1>1 DEF TypeOK, Shape, Acting, Reconciling, Close, attempt, belief, shutdown, loop
<1>5. Granted(c)'
  BY <1>1, <1>2 DEF Granted, TypeOK, Close, attempt, belief, shutdown, loop
<1>6. Justified(c)'
  BY <1>1, <1>2 DEF Justified, MayWrite, Expired, TypeOK, Close, attempt, belief, shutdown, loop
<1>7. Shape(c)'
  BY <1>1 DEF Shape, Requesting, TypeOK, Close, attempt, belief, shutdown, loop
<1>8. Clocks(c)'
  BY <1>1, ElectionAssumption DEF Clocks, Shape, Acting, Reconciling, Requesting, Worked, Believed, TypeOK, Ages, Horizon,
       Close, attempt, belief, shutdown, loop
<1>9. QED
  BY <1>2, <1>3, <1>4, <1>5, <1>6, <1>7, <1>8, PlainStepKeeps

\* What a tick that ends without the lease makes of its controller.
LEMMA ConcludeWithout ==
  ASSUME IInv, NEW c \in Controllers, Conclude(c, FALSE), lease' = lease
  PROVE  /\ \A d \in Controllers \ {c} : Same(d) /\ current'[d] = current[d]
         /\ Acting(c)' => Acting(c) /\ renewed'[c] = renewed[c]
         /\ Granted(c)' /\ Justified(c)' /\ Shape(c)' /\ Clocks(c)'
<1>1. TypeOK /\ Shape(c) /\ Clocks(c)
  BY DEF IInv, Kept
<1>2. /\ stage'[c] = IF closed[c] THEN "stopped" ELSE "wait"
      /\ ~leader'[c] /\ ~running'[c]
      /\ renewed'[c] = renewed[c] /\ closed'[c] = closed[c] /\ exit'[c] = exit[c]
      /\ evaluating'[c] = evaluating[c] /\ due'[c] = due[c]
  BY <1>1 DEF TypeOK, Conclude, Shape, shutdown
<1>3. ASSUME NEW d \in Controllers \ {c} PROVE Same(d) /\ current'[d] = current[d]
  BY <1>1, <1>3 DEF Same, TypeOK, Conclude, shutdown
<1>4. Acting(c)' => Acting(c) /\ renewed'[c] = renewed[c]
  BY <1>2 DEF Acting, Reconciling
<1>5. Granted(c)' /\ Justified(c)'
  BY <1>2 DEF Granted, Justified
<1>6. Shape(c)'
  BY <1>1, <1>2 DEF Shape, Requesting
<1>7. Clocks(c)'
  BY <1>1, <1>2 DEF Clocks, Requesting
<1>8. QED
  BY <1>3, <1>4, <1>5, <1>6, <1>7

\* The answer to the read is judged.
LEMMA JudgeKeeps ==
  ASSUME IInv, NEW c \in Controllers, Judge(c)
  PROVE  StraysJustified' /\ \A d \in Controllers : Kept(d)'
<1>1. lease' = lease /\ strays' = strays
  BY DEF Judge
<1>2. CASE Conclude(c, FALSE)
  BY <1>1, <1>2, ConcludeWithout, PlainStepKeeps
<1>3. CASE /\ ~current[c] \/ lease.holder = c \/ Expired(c)
           /\ stage' = [stage EXCEPT ![c] = "write"]
           /\ UNCHANGED <<since, rest, current, accepted, belief, shutdown, loop>>
  <2>1. TypeOK /\ Shape(c) /\ Clocks(c) /\ stage[c] = "read"
    BY DEF IInv, Kept, Judge
  <2>2. \A d \in Controllers \ {c} : Same(d) /\ current'[d] = current[d]
    BY <1>3, <2>1 DEF Same, TypeOK, belief, shutdown, loop
  <2>3. stage'[c] = "write" /\ current' = current
    BY <1>3, <2>1 DEF TypeOK
  <2>4. Acting(c)' => Acting(c) /\ renewed'[c] = renewed[c]
    BY <1>3, <2>1, <2>3 DEF Acting, Reconciling, belief, loop
  <2>5. Granted(c)' /\ Justified(c)'
    BY <1>1, <1>3, <2>3 DEF Granted, Justified, MayWrite, Expired
  <2>6. Shape(c)'
    BY <1>3, <2>1, <2>3 DEF Shape, Requesting, belief, shutdown, loop
  <2>7. Clocks(c)'
    BY <1>3, <2>1, <2>3, <2>4 DEF Clocks, Requesting, belief, shutdown, loop
  <2>8. QED
    BY <1>1, <2>2, <2>4, <2>5, <2>6, <2>7, PlainStepKeeps
<1>4. QED
  BY <1>2, <1>3 DEF Judge

\* A write left behind was justified when its sender gave up, and no older than
\* the renewal that its sender still acts on.
LEMMA AbandonJustified ==
  ASSUME IInv, NEW c \in Controllers, Abandon(c), Acting(c)' => Acting(c) /\ renewed'[c] = renewed[c]
  PROVE  /\ strays' \subseteq [by : Controllers, age : Ages]
         /\ \A s \in strays' : s.by # c => s \in strays
         /\ \A s \in strays' : s.by = c => MayWrite(c) /\ (Acting(c)' => s.age <= renewed'[c])
<1>1. TypeOK /\ StraysJustified /\ Justified(c) /\ Clocks(c)
  BY DEF IInv, Kept
<1>2. strays' \subseteq [by : Controllers, age : Ages]
  BY <1>1, AbandonTypes
<1>3. ASSUME NEW s \in strays', s \notin strays
      PROVE  s = [by |-> c, age |-> since[c]] /\ stage[c] = "write" /\ current[c]
  BY <1>3 DEF Abandon
<1>4. ASSUME NEW s \in strays', s.by = c PROVE MayWrite(c) /\ (Acting(c)' => s.age <= renewed'[c])
  <2>1. CASE s \in strays
    BY <1>1, <1>4, <2>1 DEF StraysJustified
  <2>2. CASE s \notin strays
    <3>1. s.age = since[c] /\ stage[c] = "write" /\ current[c]
      BY <1>3, <2>2
    <3>2. MayWrite(c)
      BY <1>1, <3>1 DEF Justified
    <3>3. Acting(c) => since[c] <= renewed[c]
      BY <1>1, <3>1 DEF Clocks, Requesting
    <3>4. QED
      BY <3>1, <3>2, <3>3
  <2>3. QED
    BY <2>1, <2>2
<1>5. QED
  BY <1>2, <1>3, <1>4

\* A request fails.
LEMMA RequestFailsKeeps ==
  ASSUME IInv, NEW c \in Controllers, RequestFails(c)
  PROVE  StraysJustified' /\ \A d \in Controllers : Kept(d)'
<1>1. Conclude(c, FALSE) /\ Abandon(c) /\ lease' = lease
  BY Zenon DEF RequestFails
<1>2. /\ \A d \in Controllers \ {c} : Same(d) /\ current'[d] = current[d]
      /\ Acting(c)' => Acting(c) /\ renewed'[c] = renewed[c]
      /\ Granted(c)' /\ Justified(c)' /\ Shape(c)' /\ Clocks(c)'
  BY <1>1, ConcludeWithout
<1>3. Kept(c)'
  BY <1>1, <1>2 DEF IInv, Kept, Backed
<1>4. QED
  BY <1>1, <1>2, <1>3, AbandonJustified, StepKeeps

\* The process ends.
LEMMA DieKeeps ==
  ASSUME IInv, NEW c \in Controllers, Exit(c) \/ Crash(c)
  PROVE  StraysJustified' /\ \A d \in Controllers : Kept(d)'
<1>1. TypeOK /\ Die(c) /\ Abandon(c) /\ lease' = lease
  BY DEF IInv, Exit, Crash, Die
<1>2. \A d \in Controllers \ {c} : Same(d) /\ current'[d] = current[d]
  BY <1>1 DEF Same, TypeOK, Die
<1>3. stage'[c] = "down" /\ ~leader'[c] /\ ~evaluating'[c] /\ ~running'[c] /\ ~closed'[c]
  BY <1>1 DEF TypeOK, Die
<1>4. Kept(c)' /\ ~Acting(c)'
  BY <1>3 DEF Kept, Backed, Granted, Justified, Shape, Clocks, Acting, Reconciling, Requesting
<1>5. QED
  BY <1>1, <1>2, <1>4, AbandonJustified, StepKeeps

\* What a tick that ends with the lease makes of its controller: it acts on the
\* renewal that was granted.
LEMMA ConcludeWith ==
  ASSUME IInv, NEW c \in Controllers, Conclude(c, TRUE), lease' = lease, stage[c] = "written", accepted[c]
  PROVE  (\A d \in Controllers \ {c} : Same(d) /\ current'[d] = current[d]) /\ Kept(c)'
<1>1. TypeOK /\ Granted(c) /\ Shape(c) /\ Clocks(c)
  BY DEF IInv, Kept
<1>2. ASSUME NEW d \in Controllers \ {c} PROVE Same(d) /\ current'[d] = current[d]
  BY <1>1, <1>2 DEF Same, TypeOK, Conclude, shutdown
<1>3. /\ leader'[c] /\ renewed'[c] = since[c]
      /\ closed'[c] = closed[c] /\ exit'[c] = exit[c]
      /\ evaluating'[c] = evaluating[c] /\ due'[c] = due[c]
  BY <1>1 DEF TypeOK, Conclude, shutdown
<1>4. \/ stage'[c] = "gained" /\ rest'[c] = MaxEvaluation
      \/ leader[c] /\ ~closed[c] /\ stage'[c] = "wait" /\ rest'[c] = RenewInterval
  BY <1>1 DEF TypeOK, Conclude, Shape, Requesting
<1>5. Backed(c)'
  BY <1>1, <1>3 DEF Backed, Granted
<1>6. Granted(c)' /\ Justified(c)'
  BY <1>4 DEF Granted, Justified
<1>7. Shape(c)'
  BY <1>3, <1>4 DEF Shape, Requesting
<1>8. Clocks(c)'
  <2>1. since[c] + rest[c] <= MaxRequest /\ since[c] \in Nat /\ rest[c] \in Nat /\ exit[c] \in Nat /\ due[c] \in Nat
        /\ renewed[c] \in Nat
    BY <1>1, ElectionAssumption DEF TypeOK, Clocks, Requesting, Ages, Horizon
  <2>2. closed[c] => exit[c] <= MaxClose
    BY <1>1 DEF Clocks
  <2>3. evaluating[c] =>
          /\ since[c] <= renewed[c]
          /\ \/ renewed[c] + due[c] <= Worked
             \/ closed[c] /\ renewed[c] + exit[c] <= MaxRequest + MaxClose
    BY <1>1 DEF Clocks, Acting, Reconciling, Requesting
  <2>4. evaluating[c] =>
          \/ since[c] + due[c] <= Worked
          \/ closed[c] /\ since[c] + exit[c] <= MaxRequest + MaxClose
    <3>1. ASSUME evaluating[c], renewed[c] + due[c] <= Worked PROVE since[c] + due[c] <= Worked
      BY <2>1, <2>3, <3>1, ElectionAssumption DEF Worked, Believed
    <3>2. ASSUME evaluating[c], renewed[c] + exit[c] <= MaxRequest + MaxClose
          PROVE  since[c] + exit[c] <= MaxRequest + MaxClose
      BY <2>1, <2>3, <3>2, ElectionAssumption
    <3>3. QED
      BY <2>3, <3>1, <3>2, Zenon
  <2>5. QED
    BY <1>3, <1>4, <2>1, <2>2, <2>4, ElectionAssumption DEF Clocks, Requesting
<1>9. QED
  BY <1>2, <1>5, <1>6, <1>7, <1>8 DEF Kept

\* The answer to the write arrives.
LEMMA AnswerKeeps ==
  ASSUME IInv, NEW c \in Controllers, Answer(c)
  PROVE  StraysJustified' /\ \A d \in Controllers : Kept(d)'
<1>1. TypeOK /\ Granted(c) /\ lease' = lease /\ strays' = strays /\ stage[c] = "written"
  BY DEF Answer, IInv, Kept
<1>2. CASE accepted[c]
  <2>1. Conclude(c, TRUE)
    BY <1>1, <1>2, Zenon DEF Answer, Conclude
  <2>2. \A s \in strays' : s.by # c
    BY <1>1, <1>2 DEF Granted
  <2>3. QED
    BY <1>1, <1>2, <2>1, <2>2, ConcludeWith, StepKeeps DEF TypeOK
<1>3. CASE ~accepted[c]
  <2>1. Conclude(c, FALSE)
    <3>1. accepted[c] = FALSE
      BY <1>1, <1>3 DEF TypeOK
    <3>2. QED
      BY <3>1 DEF Answer
  <2>2. QED
    BY <1>1, <2>1, ConcludeWithout, PlainStepKeeps
<1>4. QED
  BY <1>2, <1>3

-----------------------------------------------------------------------------
(* Writes, and time.                                                         *)

\* The write of a tick is applied or refused.
LEMMA ServeWriteKeeps ==
  ASSUME IInv, NEW c \in Controllers, ServeWrite(c)
  PROVE  StraysJustified' /\ \A d \in Controllers : Kept(d)'
<1>1. TypeOK /\ Backed(c) /\ Justified(c) /\ Shape(c) /\ Clocks(c) /\ stage[c] = "write"
  BY DEF IInv, Kept, ServeWrite
<1>2. /\ stage'[c] = "written" /\ since' = since /\ rest' = rest /\ leader' = leader /\ renewed' = renewed
      /\ closed' = closed /\ exit' = exit /\ running' = running /\ evaluating' = evaluating /\ due' = due
  BY <1>1 DEF TypeOK, ServeWrite, belief, shutdown, loop
<1>3. accepted'[c] <=> current[c]
  BY <1>1 DEF TypeOK, ServeWrite
<1>4. ASSUME NEW d \in Controllers \ {c} PROVE Same(d)
  BY <1>1, <1>2, <1>4 DEF Same, TypeOK, ServeWrite
<1>5. Shape(c)'
  BY <1>1, <1>2 DEF Shape, Requesting
<1>6. Acting(c)' <=> Acting(c)
  BY <1>1, <1>2 DEF Acting, Reconciling
<1>7. Clocks(c)'
  BY <1>1, <1>2, <1>6 DEF Clocks, Requesting
<1>8. Justified(c)'
  BY <1>2 DEF Justified
<1>9. CASE current[c]
  <2>1. MayWrite(c)
    BY <1>1, <1>9 DEF Justified
  <2>2. lease' = [holder |-> c, age |-> since[c]] /\ strays' = {} /\ \A d \in Controllers : ~current'[d]
    BY <1>9 DEF ServeWrite, Apply
  <2>3. ASSUME NEW d \in Controllers, d # c PROVE Kept(d)'
    BY <1>4, <2>1, <2>2, <2>3, OthersOfWrite
  <2>4. Granted(c)'
    BY <1>1, <1>2, <2>2, ElectionAssumption DEF Granted, TypeOK, Ages, Horizon
  <2>5. Backed(c)'
    BY <1>1, <1>2, <1>6, <2>2 DEF Backed, Clocks, Requesting
  <2>6. QED
    BY <1>5, <1>7, <1>8, <2>2, <2>3, <2>4, <2>5 DEF Kept, StraysJustified
<1>10. CASE ~current[c]
  <2>1. lease' = lease /\ strays' = strays /\ current' = current
    BY <1>10 DEF ServeWrite
  <2>2. Granted(c)'
    BY <1>3, <1>10 DEF Granted
  <2>3. QED
    BY <1>2, <1>4, <1>5, <1>6, <1>7, <1>8, <2>1, <2>2, PlainStepKeeps
<1>11. QED
  BY <1>9, <1>10

\* A write left behind is applied.
LEMMA ServeStrayKeeps ==
  ASSUME IInv, NEW s \in strays, ServeStray(s)
  PROVE  StraysJustified' /\ \A d \in Controllers : Kept(d)'
<1>1. TypeOK /\ s.by \in Controllers /\ MayWrite(s.by) /\ (Acting(s.by) => s.age <= renewed[s.by])
  BY DEF IInv, TypeOK, StraysJustified
<1>2. lease' = [holder |-> s.by, age |-> s.age] /\ strays' = {} /\ \A d \in Controllers : ~current'[d]
  BY DEF ServeStray, Apply
<1>3. ASSUME NEW d \in Controllers PROVE Same(d)
  BY DEF Same, ServeStray, belief, shutdown, loop
<1>4. ASSUME NEW d \in Controllers, d # s.by PROVE Kept(d)'
  BY <1>1, <1>2, <1>3, <1>4, OthersOfWrite
<1>5. Kept(s.by)'
  <2>1. Granted(s.by) /\ Shape(s.by) /\ Clocks(s.by)
    BY <1>1 DEF IInv, Kept
  <2>2. Shape(s.by)' /\ Clocks(s.by)' /\ (Acting(s.by)' <=> Acting(s.by)) /\ Same(s.by)
    BY <1>1, <1>3, <2>1, SameShape
  <2>3. ~(stage[s.by] = "written" /\ accepted[s.by])
    BY <2>1 DEF Granted
  <2>4. Granted(s.by)'
    BY <2>2, <2>3, Zenon DEF Granted, Same
  <2>5. Backed(s.by)'
    BY <1>1, <1>2, <2>2 DEF Backed, Same
  <2>6. QED
    BY <1>1, <1>2, <2>2, <2>4, <2>5 DEF Kept, Justified
<1>6. QED
  BY <1>2, <1>4, <1>5 DEF StraysJustified

\* An expired lease stays so.
LEMMA TimeKeepsMayWrite ==
  ASSUME TypeOK, TimePasses, NEW c \in Controllers, MayWrite(c)
  PROVE  MayWrite(c)'
<1>1. lease'.holder = lease.holder /\ lease'.age = Older(lease.age) /\ lease.age \in Ages
  BY DEF TypeOK, TimePasses
<1>2. lease.holder # NoOne => lease.holder \in Controllers
  BY DEF TypeOK
<1>3. lease.age \in Nat /\ lease'.age \in Nat /\ lease'.age >= lease.age
  BY <1>1, ElectionAssumption DEF Older, Ages, Horizon
<1>4. QED
  BY <1>1, <1>2, <1>3, ElectionAssumption DEF MayWrite, Expired

\* Time passes.
LEMMA TimePassesKeeps ==
  ASSUME IInv, TimePasses
  PROVE  StraysJustified' /\ \A d \in Controllers : Kept(d)'
<1>1. TypeOK /\ StraysJustified
  BY DEF IInv
<1>2. lease'.holder = lease.holder /\ lease'.age = Older(lease.age) /\ lease.age \in Ages
  BY <1>1 DEF TypeOK, TimePasses
<1>3. /\ stage' = stage /\ current' = current /\ accepted' = accepted /\ leader' = leader
      /\ closed' = closed /\ running' = running /\ evaluating' = evaluating
  BY DEF TimePasses
<1>4. ASSUME NEW d \in Controllers PROVE Acting(d)' <=> Acting(d)
  BY <1>3 DEF Acting, Reconciling
<1>5. ASSUME NEW d \in Controllers, Acting(d)
      PROVE  renewed'[d] = renewed[d] + 1 /\ renewed[d] \in Nat
  <2>1. renewed[d] + Skew < Duration /\ renewed[d] \in Nat
    BY <1>1, <1>5, ActorIsFresh, ElectionAssumption DEF TypeOK, Ages, Horizon
  <2>2. QED
    BY <1>1, <1>5, <2>1, ElectionAssumption DEF TypeOK, TimePasses, Older, Horizon
<1>6. ASSUME NEW age \in Ages PROVE Older(age) <= age + 1 /\ Older(age) \in Nat
  BY ElectionAssumption DEF Older, Ages, Horizon
<1>7. ASSUME NEW d \in Controllers, stage[d] \in Requesting
      PROVE  /\ since'[d] = since[d] + 1 /\ since[d] \in Nat
             /\ rest'[d] = rest[d] - 1 /\ rest[d] \in Nat /\ rest[d] > 0
  <2>1. since[d] + rest[d] <= MaxRequest /\ since[d] \in Nat /\ rest[d] \in Nat
    BY <1>1, <1>7, ElectionAssumption DEF IInv, Kept, Clocks, TypeOK, Ages, Horizon
  <2>2. rest[d] # 0
    BY <1>7 DEF TimePasses, Urgent
  <2>3. QED
    BY <1>7, <2>1, <2>2, ElectionAssumption, TimingAssumption DEF TimePasses, Older, Sooner, Horizon
<1>8. ASSUME NEW d \in Controllers, stage[d] \in {"wait", "gained"}
      PROVE  rest'[d] = rest[d] - 1 /\ rest[d] \in Nat
  BY <1>1, <1>8 DEF TypeOK, TimePasses, Urgent, Sooner
<1>9. ASSUME NEW d \in Controllers, closed[d] PROVE exit'[d] = exit[d] - 1 /\ exit[d] \in Nat
  BY <1>1, <1>9 DEF TypeOK, TimePasses, Urgent, Sooner
<1>10. ASSUME NEW d \in Controllers, evaluating[d] PROVE due'[d] = due[d] - 1 /\ due[d] \in Nat
  BY <1>1, <1>10 DEF TypeOK, TimePasses, Urgent, Sooner
<1>11. ASSUME NEW d \in Controllers PROVE Kept(d)'
  <2>1. Backed(d) /\ Granted(d) /\ Justified(d) /\ Shape(d) /\ Clocks(d)
    BY DEF IInv, Kept
  <2>2. Backed(d)'
    BY <1>2, <1>4, <1>5, <1>6, <2>1, ElectionAssumption DEF Backed, Ages, Horizon
  <2>3. Granted(d)'
    <3>1. SUFFICES ASSUME stage[d] = "written", accepted[d]
                   PROVE  lease'.holder = d /\ lease'.age <= since'[d] /\ \A s \in strays' : s.by # d
      BY <1>3 DEF Granted
    <3>2. \A s \in strays' : s.by # d
      BY <1>1, <2>1, <3>1 DEF Granted, TimePasses, TypeOK
    <3>3. QED
      BY <1>2, <1>6, <1>7, <2>1, <3>1, <3>2, ElectionAssumption DEF Granted, Requesting, Ages, Horizon
  <2>4. Justified(d)'
    BY <1>1, <1>3, <2>1, TimeKeepsMayWrite DEF Justified
  <2>5. Shape(d)'
    BY <1>3, <2>1 DEF Shape
  <2>6. Clocks(d)'
    <3>1. Acting(d) => leader[d] \/ evaluating[d] \/ stage[d] = "gained"
      BY DEF Acting, Reconciling
    <3>2. leader[d] \/ evaluating[d] \/ stage[d] = "gained" => Acting(d)
      BY DEF Acting, Reconciling
    <3>3. stage[d] \in Requesting => since'[d] + rest'[d] <= MaxRequest
      BY <1>7, <2>1, ElectionAssumption DEF Clocks
    <3>4. stage[d] \in Requesting /\ Acting(d) => since'[d] <= renewed'[d]
      BY <1>5, <1>7, <2>1 DEF Clocks
    <3>5. stage[d] \in Requesting /\ leader[d] => renewed'[d] <= since'[d] + MaxRequest + MaxEvaluation + RenewInterval
      BY <1>5, <1>7, <2>1, <3>2, ElectionAssumption DEF Clocks
    <3>6. stage[d] = "gained" => renewed'[d] + rest'[d] <= MaxRequest + MaxEvaluation
      BY <1>5, <1>8, <2>1, <3>2, ElectionAssumption DEF Clocks
    <3>7. stage[d] = "wait" /\ leader[d] => renewed'[d] + rest'[d] <= MaxRequest + MaxEvaluation + RenewInterval
      BY <1>5, <1>8, <2>1, <3>2, ElectionAssumption DEF Clocks
    <3>8. leader[d] /\ closed[d] => renewed'[d] + exit'[d] <= MaxRequest + MaxClose
      BY <1>5, <1>9, <2>1, <3>2, ElectionAssumption DEF Clocks
    <3>9. closed[d] => exit'[d] <= MaxClose
      BY <1>9, <2>1, ElectionAssumption DEF Clocks
    <3>10. evaluating[d] =>
             \/ renewed'[d] + due'[d] <= Worked
             \/ closed[d] /\ renewed'[d] + exit'[d] <= MaxRequest + MaxClose
      <4>1. ASSUME evaluating[d], renewed[d] + due[d] <= Worked PROVE renewed'[d] + due'[d] <= Worked
        BY <1>5, <1>10, <3>2, <4>1, ElectionAssumption DEF Worked, Believed
      <4>2. ASSUME evaluating[d], closed[d], renewed[d] + exit[d] <= MaxRequest + MaxClose
            PROVE  renewed'[d] + exit'[d] <= MaxRequest + MaxClose
        BY <1>5, <1>9, <3>2, <4>2, ElectionAssumption
      <4>3. QED
        BY <2>1, <4>1, <4>2, Zenon DEF Clocks
    <3>11. QED
      BY <1>3, <1>4, <3>3, <3>4, <3>5, <3>6, <3>7, <3>8, <3>9, <3>10 DEF Clocks
  <2>7. QED
    BY <2>2, <2>3, <2>4, <2>5, <2>6 DEF Kept
<1>12. StraysJustified'
  <2>1. ASSUME NEW t \in strays' PROVE MayWrite(t.by)' /\ (Acting(t.by)' => t.age <= renewed'[t.by])
    <3>1. PICK s \in strays : t = [s EXCEPT !.age = Older(s.age)]
      BY <2>1 DEF TimePasses
    <3>2. s.by \in Controllers /\ s.age \in Ages /\ t.by = s.by /\ t.age = Older(s.age)
      BY <1>1, <3>1 DEF TypeOK
    <3>3. MayWrite(s.by) /\ (Acting(s.by) => s.age <= renewed[s.by])
      BY <1>1 DEF StraysJustified
    <3>4. MayWrite(s.by)'
      BY <1>1, <3>2, <3>3, TimeKeepsMayWrite
    <3>5. Acting(s.by)' => Older(s.age) <= renewed'[s.by]
      BY <1>4, <1>5, <1>6, <3>2, <3>3, ElectionAssumption DEF Ages, Horizon
    <3>6. QED
      BY <3>2, <3>4, <3>5
  <2>2. QED
    BY <2>1 DEF StraysJustified
<1>13. QED
  BY <1>11, <1>12

-----------------------------------------------------------------------------
(* The theorems.                                                             *)

\* The invariant is kept by every step.
LEMMA IInvStep == IInv /\ [Next]_vars => IInv'
<1>1. SUFFICES ASSUME IInv, [Next]_vars PROVE IInv'
  OBVIOUS
<1>2. TypeOK'
  BY <1>1, TypeStep DEF IInv
<1>3. StraysJustified' /\ \A d \in Controllers : Kept(d)'
  <2>1. CASE UNCHANGED vars
    <3>1. /\ lease' = lease /\ strays' = strays /\ current' = current
          /\ \A d \in Controllers : Same(d)
      BY <2>1 DEF vars, attempt, belief, shutdown, loop, Same
    <3>2. ASSUME NEW d \in Controllers PROVE Kept(d)' /\ (Acting(d)' <=> Acting(d)) /\ Same(d)
      BY <1>1, <3>1, OthersKept
    <3>3. ASSUME NEW s \in strays PROVE MayWrite(s.by)' /\ (Acting(s.by)' => s.age <= renewed'[s.by])
      <4>1. s.by \in Controllers /\ MayWrite(s.by) /\ (Acting(s.by) => s.age <= renewed[s.by])
        BY <1>1 DEF IInv, TypeOK, StraysJustified
      <4>2. MayWrite(s.by)'
        BY <3>1, <4>1 DEF MayWrite, Expired
      <4>3. QED
        BY <3>2, <4>1, <4>2 DEF Same
    <3>4. QED
      BY <3>1, <3>2, <3>3 DEF StraysJustified
  <2>2. CASE TimePasses
    BY <1>1, <2>2, TimePassesKeeps
  <2>3. ASSUME NEW s \in strays, ServeStray(s) PROVE StraysJustified' /\ \A d \in Controllers : Kept(d)'
    BY <1>1, <2>3, ServeStrayKeeps
  <2>4. ASSUME NEW c \in Controllers,
               \/ Start(c) \/ Proceed(c) \/ BeginEvaluation(c)
               \/ RequestFails(c) \/ Close(c) \/ Crash(c)
        PROVE  StraysJustified' /\ \A d \in Controllers : Kept(d)'
    BY <1>1, <2>4, AttemptKeeps, ServeGetKeeps, JudgeKeeps, ServeWriteKeeps, AnswerKeeps, FirstEvaluationEndsKeeps,
       BeginEvaluationKeeps, EndEvaluationKeeps, CloseKeeps, RequestFailsKeeps, DieKeeps DEF Proceed
  <2>5. QED
    BY <1>1, <2>1, <2>2, <2>3, <2>4 DEF Next
<1>4. QED
  BY <1>2, <1>3 DEF IInv

\* Every state of every behaviour satisfies the inductive invariant.
THEOREM Invariance == Spec => []IInv
<1>1. QED
  BY InitIInv, IInvStep, PTL DEF Spec

\* The state of the lease and of the controllers keeps its types.
THEOREM TypeCorrect == Spec => []TypeOK
<1>1. IInv => TypeOK
  BY DEF IInv
<1>2. QED
  BY <1>1, Invariance, PTL

\* No two controllers lead (leader-election.ts), however many there are and
\* whatever they do, if their requests and evaluations are as fast, and their
\* clocks as close, as TimingAssumption says.
THEOREM AtMostOneLeader == Spec => []OneLeader
<1>1. IInv => OneLeader
  BY DEF IInv, Kept, OneLeader, Backed, Acting
<1>2. QED
  BY <1>1, Invariance, PTL

\* No two controllers evaluate at the same time (controller.ts), although an
\* evaluation outlives the leadership in which it began.
THEOREM AtMostOneReconciler == Spec => []OneReconciler
<1>1. IInv => OneReconciler
  BY DEF IInv, Kept, OneReconciler, Backed, Acting
<1>2. QED
  BY <1>1, Invariance, PTL
=============================================================================
