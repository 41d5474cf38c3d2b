------------------------- MODULE RunLifecycleProofs -------------------------
(***************************************************************************)
(* Theorems about the life of a run (RunLifecycle), for every recovery     *)
(* strategy, attempt limit and bound.                                      *)
(*                                                                         *)
(*   TypeCorrect        the specification keeps its types                  *)
(*   RecoveryIsBounded  the attempt counter never passes its limit,        *)
(*                      whoever overtakes whom                             *)
(*   SingleOwner        until two writers overlap, one party changes the   *)
(*                      status at a time                                   *)
(*   NoLostRun          a queued run is on its way unless it was dropped   *)
(*                      or contested                                       *)
(*   EndIsFinal         a completed or cancelled run stays so unless it    *)
(*                      was contested                                      *)
(*   QueuedCancelKept   so does the cancellation mark of a queued run      *)
(***************************************************************************)
EXTENDS RunLifecycle, TLAPS

-----------------------------------------------------------------------------
(* What each form of write makes of a row.                                  *)

\* A write of the status leaves a row, with the other fields it had.
LEMMA StatusWrite ==
  ASSUME NEW r \in Rows, NEW st \in Statuses
  PROVE  LET q == [r EXCEPT !.status = st] IN
         q \in Rows /\ q.status = st /\ q.attempts = r.attempts /\ q.stale = r.stale
<1>1. [r EXCEPT !.status = st] \in Rows
  BY Zenon DEF Rows
<1> QED
  BY <1>1 DEF Rows

\* So does a write of the cancellation mark, which keeps the status ...
LEMMA CancelWrite ==
  ASSUME NEW r \in Rows, NEW c \in BOOLEAN
  PROVE  LET q == [r EXCEPT !.cancel = c] IN
         q \in Rows /\ q.status = r.status /\ q.attempts = r.attempts /\ q.stale = r.stale
<1>1. [r EXCEPT !.cancel = c] \in Rows
  BY Zenon DEF Rows
<1> QED
  BY <1>1 DEF Rows

\* ... a write of the heartbeat ...
LEMMA StaleWrite ==
  ASSUME NEW r \in Rows, NEW b \in BOOLEAN
  PROVE  LET q == [r EXCEPT !.stale = b] IN
         q \in Rows /\ q.status = r.status /\ q.attempts = r.attempts /\ q.stale = b
<1>1. [r EXCEPT !.stale = b] \in Rows
  BY Zenon DEF Rows
<1> QED
  BY <1>1 DEF Rows

\* ... and a write of the status and the cancellation mark together.
LEMMA OutcomeWrite ==
  ASSUME NEW r \in Rows, NEW st \in Statuses, NEW c \in BOOLEAN
  PROVE  LET q == [r EXCEPT !.status = st, !.cancel = c] IN
         q \in Rows /\ q.status = st /\ q.attempts = r.attempts /\ q.stale = r.stale
<1>1. [r EXCEPT !.status = st, !.cancel = c] \in Rows
  BY Zenon DEF Rows
<1> QED
  BY <1>1 DEF Rows

\* A write of the status that also refreshes the heartbeat.
LEMMA StartWrite ==
  ASSUME NEW r \in Rows, NEW st \in Statuses
  PROVE  LET q == [r EXCEPT !.status = st, !.stale = FALSE] IN
         q \in Rows /\ q.status = st /\ q.attempts = r.attempts /\ ~q.stale
<1>1. [r EXCEPT !.status = st, !.stale = FALSE] \in Rows
  BY Zenon DEF Rows
<1> QED
  BY <1>1 DEF Rows

\* A write of the status that also adds recovery metadata.
LEMMA FailureWrite ==
  ASSUME NEW r \in Rows, NEW st \in Statuses
  PROVE  LET q == [r EXCEPT !.status = st, !.managed = TRUE] IN
         q \in Rows /\ q.status = st /\ q.attempts = r.attempts /\ q.stale = r.stale
<1>1. [r EXCEPT !.status = st, !.managed = TRUE] \in Rows
  BY Zenon DEF Rows
<1> QED
  BY <1>1 DEF Rows

\* A requeue makes a fresh row.
LEMMA RequeueWrite ==
  ASSUME NEW n \in Nat
  PROVE  /\ Requeued(n) \in Rows
         /\ Requeued(n).status = "queued"
         /\ Requeued(n).attempts = n
  BY DEF Requeued, Rows, Statuses

\* The row of a new run is a queued row without recovery attempts.
LEMMA CreatedRow == Created \in Rows /\ Created.status = "queued" /\ Created.attempts = 0
  BY DEF Created, Rows, Statuses

\* What recovery makes of a row: a row, queued, failed or (never by hand)
\* cancelled, whose attempts stay within the limit.
LEMMA RecoveredRow ==
  ASSUME NEW kind, NEW r \in Rows
  PROVE  /\ Recovered(kind, r) \in Rows
         /\ Recovered(kind, r).status \in {"queued", "failed", "cancelled"}
         /\ kind = "manual" => Recovered(kind, r).status = "queued"
         /\ r.attempts <= MaxAttempts => Recovered(kind, r).attempts <= MaxAttempts
<1> DEFINE strategy == IF kind = "drain" THEN DrainStrategy ELSE Strategy
<1> r.attempts \in Nat /\ r.attempts + 1 \in Nat /\ MaxAttempts \in Nat
  BY LifecycleAssumption DEF Rows
<1>1. CASE kind = "manual"
  BY <1>1, RequeueWrite DEF Recovered
<1>2. CASE kind # "manual" /\ kind = "stale" /\ (r.cancel \/ parentEnded)
  <2> "cancelled" \in Statuses /\ TRUE \in BOOLEAN
    BY DEF Statuses, Terminal
  <2> QED
    BY <1>2, OutcomeWrite DEF Recovered, Cancelled
<1>3. CASE kind # "manual" /\ ~(kind = "stale" /\ (r.cancel \/ parentEnded)) /\ Requeues(strategy, r)
  BY <1>3, RequeueWrite DEF Recovered, Requeues
<1>4. CASE kind # "manual" /\ ~(kind = "stale" /\ (r.cancel \/ parentEnded)) /\ ~Requeues(strategy, r)
  <2> "failed" \in Statuses
    BY DEF Statuses, Terminal
  <2> QED
    BY <1>4, FailureWrite DEF Recovered, Failed
<1> QED
  BY <1>1, <1>2, <1>3, <1>4

-----------------------------------------------------------------------------
(* Types.                                                                   *)

\* The status about to be recorded is known when it is recorded.
TargetKnown ==
  /\ pc = "tool" => target \in Active
  /\ pc \in {"finish", "record"} => target \in Terminal

\* The initial state has its types.
LEMMA InitType == Init => TypeOK /\ TargetKnown
<1> SUFFICES ASSUME Init PROVE TypeOK /\ TargetKnown
  OBVIOUS
<1>1. row \in Rows /\ snap \in Rows
  BY CreatedRow DEF Init
<1>2. beat \in Rows \cup {NoRow} /\ cancelling \in Rows \cup {NoRow} /\ recovering \in [Recoverers -> Recoveries]
  BY DEF Init, Recoveries
<1>3. /\ deliveries \in Nat
      /\ pc \in {"idle"} /\ target \in {"none"}
      /\ registered \in BOOLEAN /\ aborted \in BOOLEAN /\ timedOut \in BOOLEAN /\ skip \in BOOLEAN
      /\ parentEnded \in BOOLEAN
      /\ cancels \in Nat /\ drains \in Nat /\ manuals \in Nat /\ lostRecoveries \in Nat
      /\ contested \in BOOLEAN /\ dropped \in BOOLEAN
  BY DEF Init
<1> QED
  BY <1>1, <1>2, <1>3 DEF TypeOK, TargetKnown

\* Leaving processRun, and the way out of an exception, keep the types of the
\* executor's variables.
LEMMA LeaveType ==
  ASSUME TypeOK, Leave \/ Catch
  PROVE  /\ pc' \in {"idle", "finish"}
         /\ target' \in {"none"} \cup Terminal
         /\ pc' = "finish" => target' \in Terminal
         /\ snap' \in Rows
         /\ registered' \in BOOLEAN /\ aborted' \in BOOLEAN /\ timedOut' \in BOOLEAN /\ skip' \in BOOLEAN
<1>1. CASE Leave
  BY <1>1, CreatedRow DEF Leave
<1>2. CASE ~Leave
  BY <1>2 DEF Catch, TypeOK, Terminal
<1> QED
  BY <1>1, <1>2

\* The executor's writes keep the types.
LEMMA ExecutorType == TypeOK /\ TargetKnown /\ ExecutorStep => TypeOK' /\ TargetKnown'
<1> SUFFICES ASSUME TypeOK, TargetKnown, ExecutorStep PROVE TypeOK' /\ TargetKnown'
  OBVIOUS
<1> USE DEF TypeOK, TargetKnown, others, boundVars, history
<1> "running" \in Statuses /\ "cancelled" \in Statuses /\ Terminal \subseteq Statuses /\ Active \subseteq Statuses
  BY DEF Statuses, Active, Terminal
<1>1. CASE Deliver
  BY <1>1 DEF Deliver
<1>2. CASE BeginCancelled
  <2>1. row' \in Rows
    BY <1>2, StatusWrite DEF BeginCancelled
  <2> QED
    BY <1>2, <2>1, LeaveType DEF BeginCancelled
<1>3. CASE Begin
  <2>1. row' \in Rows
    BY <1>3, StartWrite DEF Begin
  <2> QED
    BY <1>3, <2>1 DEF Begin
<1>4. CASE BeginRefused
  BY <1>4, LeaveType DEF BeginRefused
<1>5. CASE Register
  BY <1>5 DEF Register
<1>6. CASE RecordToolStatus
  <2>1. row' \in Rows
    BY <1>6, StatusWrite DEF RecordToolStatus
  <2> QED
    BY <1>6, <2>1 DEF RecordToolStatus
<1>7. CASE Finish
  BY <1>7 DEF Finish
<1>8. CASE Record
  <2>1. row' \in Rows
    BY <1>8, OutcomeWrite DEF Record
  <2>2. CASE target = "completed"
    BY <1>8, <2>1, <2>2 DEF Record
  <2>3. CASE target # "completed"
    BY <1>8, <2>1, <2>3, LeaveType DEF Record
  <2> QED
    BY <2>2, <2>3
<1>9. CASE RecordRefused
  BY <1>9, LeaveType DEF RecordRefused
<1>10. CASE Return
  BY <1>10, LeaveType DEF Return
<1> QED
  BY <1>1, <1>2, <1>3, <1>4, <1>5, <1>6, <1>7, <1>8, <1>9, <1>10 DEF ExecutorStep

\* A recovery that goes from one step to another keeps the types.
LEMMA RecoveringType ==
  ASSUME TypeOK, NEW c \in Recoverers, NEW x \in Recoveries,
         recovering' = [recovering EXCEPT ![c] = x]
  PROVE  recovering' \in [Recoverers -> Recoveries] /\ recovering'[c] = x
  BY DEF TypeOK

\* The steps of a recovery keep the types.
LEMMA RecoveryType ==
  ASSUME TypeOK, TargetKnown, NEW c \in Recoverers, RecoveryStep(c)
  PROVE  TypeOK' /\ TargetKnown'
<1> USE DEF TypeOK, TargetKnown, execVars, boundVars, history, unread
<1>1. CASE ListStaleRun(c) \/ SkipListedRun(c)
  <2>1. NotRecovering \in Recoveries /\ [step |-> "listed"] \in Recoveries
    BY DEF Recoveries
  <2>2. recovering' \in [Recoverers -> Recoveries]
    BY <1>1, <2>1, RecoveringType DEF ListStaleRun, SkipListedRun
  <2> QED
    BY <1>1, <2>2 DEF ListStaleRun, SkipListedRun
<1>2. CASE RecoverStaleRun(c) \/ RecoverAfterDrainTimeout(c) \/ RequeueRun(c)
  <2>1. PICK kind \in {"drain", "stale", "manual"} : ReadForRecovery(c, kind)
    BY <1>2 DEF RecoverStaleRun, RecoverAfterDrainTimeout, RequeueRun
  <2>2. [step |-> "write", kind |-> kind, snap |-> row] \in Recoveries
    BY DEF Recoveries
  <2>3. recovering' \in [Recoverers -> Recoveries]
    BY <2>1, <2>2, RecoveringType DEF ReadForRecovery
  <2>4. contested' \in BOOLEAN
    BY <2>1, Zenon DEF ReadForRecovery
  <2>5. aborted' \in BOOLEAN /\ skip' \in BOOLEAN /\ drains' \in Nat /\ manuals' \in Nat
    BY <1>2 DEF RecoverStaleRun, RecoverAfterDrainTimeout, RequeueRun
  <2> QED
    BY <2>1, <2>3, <2>4, <2>5 DEF ReadForRecovery
<1>3. CASE RecoveryLands(c)
  <2> DEFINE new == Recovered(recovering[c].kind, recovering[c].snap)
  <2>1. recovering[c].snap \in Rows
    BY <1>3 DEF RecoveryLands, Recoveries, NotRecovering
  <2>2. row' = new /\ new \in Rows
    BY <1>3, <2>1, RecoveredRow DEF RecoveryLands, WriteRecovery
  <2>3. (IF new.status = "queued" THEN [step |-> "enqueue"] ELSE NotRecovering) \in Recoveries
    BY DEF Recoveries
  <2>4. recovering' \in [Recoverers -> Recoveries]
    BY <1>3, <2>3, RecoveringType DEF RecoveryLands, WriteRecovery
  <2> QED
    BY <1>3, <2>2, <2>4 DEF RecoveryLands
<1>4. CASE EnqueueRecovered(c) \/ RecoveryCrash(c)
  <2>1. NotRecovering \in Recoveries
    BY DEF Recoveries
  <2>2. recovering' \in [Recoverers -> Recoveries]
    BY <1>4, <2>1, RecoveringType DEF EnqueueRecovered, RecoveryCrash
  <2>3. dropped' \in BOOLEAN
    BY <1>4, Zenon DEF EnqueueRecovered, RecoveryCrash
  <2> QED
    BY <1>4, <2>2, <2>3 DEF EnqueueRecovered, RecoveryCrash
<1> QED
  BY <1>1, <1>2, <1>3, <1>4 DEF RecoveryStep

\* So do the other steps.
LEMMA TypeStep == TypeOK /\ TargetKnown /\ [Next]_vars => TypeOK' /\ TargetKnown'
<1> SUFFICES ASSUME TypeOK, TargetKnown, [Next]_vars PROVE TypeOK' /\ TargetKnown'
  OBVIOUS
<1>1. CASE ExecutorStep
  BY <1>1, ExecutorType
<1>2. ASSUME NEW c \in Recoverers, RecoveryStep(c) PROVE TypeOK' /\ TargetKnown'
  BY <1>2, RecoveryType
<1> USE DEF TypeOK, TargetKnown, others, boundVars, execVars, history
<1>3. CASE CompleteStream
  <2>1. CASE skip
    BY <1>3, <2>1, LeaveType DEF CompleteStream
  <2>2. CASE ~skip
    BY <1>3, <2>2 DEF CompleteStream, Terminal
  <2> QED
    BY <2>1, <2>2
<1>4. CASE Throw \/ Crash
  BY <1>4, LeaveType DEF Throw, Crash
<1>5. CASE TimeOut
  BY <1>5 DEF TimeOut
<1>6. ASSUME NEW to \in Active, SyncToolStatus(to) PROVE TypeOK' /\ TargetKnown'
  BY <1>6 DEF SyncToolStatus, Active
<1>7. CASE Heartbeat \/ HeartbeatLands \/ BecomeStale
  <2>1. row' \in Rows
    BY <1>7, StaleWrite DEF Heartbeat, HeartbeatLands, BecomeStale
  <2>2. contested' \in BOOLEAN
    BY <1>7, Zenon DEF Heartbeat, HeartbeatLands, BecomeStale
  <2> QED
    BY <1>7, <2>1, <2>2 DEF Heartbeat, HeartbeatLands, BecomeStale
<1>8. CASE RequestCancellation \/ CancellationLands
  <2>1. row' \in Rows
    BY <1>8, CancelWrite DEF RequestCancellation, CancellationLands, WriteCancellation
  <2>2. aborted' \in BOOLEAN /\ contested' \in BOOLEAN
    BY <1>8, Zenon DEF RequestCancellation, CancellationLands, WriteCancellation
  <2> QED
    BY <1>8, <2>1, <2>2 DEF RequestCancellation, CancellationLands, WriteCancellation
<1>9. CASE ParentEnds
  BY <1>9 DEF ParentEnds
<1>10. CASE UNCHANGED vars
  BY <1>10 DEF vars
<1> QED
  BY <1>1, <1>2, <1>3, <1>4, <1>5, <1>6, <1>7, <1>8, <1>9, <1>10 DEF Next

\* The specification keeps its types: the row is a row, whoever wrote it.
THEOREM TypeCorrect == Spec => [](TypeOK /\ TargetKnown)
  BY InitType, TypeStep, PTL DEF Spec

-----------------------------------------------------------------------------
(* The attempt counter.  Any copy of the row that somebody holds may become *)
(* the row again, so the invariant bounds the counter in every copy.        *)

CopiesBounded ==
  /\ row.attempts <= MaxAttempts
  /\ snap.attempts <= MaxAttempts
  /\ beat \in Rows => beat.attempts <= MaxAttempts
  /\ cancelling \in Rows => cancelling.attempts <= MaxAttempts
  /\ \A c \in Recoverers :
       recovering[c].step = "write" => recovering[c].snap.attempts <= MaxAttempts

\* A step of the executor keeps every copy's counter within the limit.
LEMMA ExecutorBounded ==
  ASSUME TypeOK, TargetKnown, CopiesBounded, ExecutorStep \/ CompleteStream \/ Throw \/ Crash
  PROVE  CopiesBounded'
<1> USE DEF TypeOK, others
<1> "running" \in Statuses /\ "cancelled" \in Statuses /\ Terminal \subseteq Statuses /\ Active \subseteq Statuses
  BY DEF Statuses, Active, Terminal
<1>1. UNCHANGED <<beat, cancelling, recovering>>
  BY DEF ExecutorStep, Deliver, BeginCancelled, Begin, BeginRefused, Register, RecordToolStatus,
     Finish, Record, RecordRefused, Return, CompleteStream, Throw, Crash
<1>2. snap' \in {row, snap, Created}
  BY DEF ExecutorStep, Deliver, BeginCancelled, Begin, BeginRefused, Register, RecordToolStatus,
     Finish, Record, RecordRefused, Return, CompleteStream, Throw, Crash, Leave, Catch
<1>3. row'.attempts \in {row.attempts, snap.attempts}
  <2>1. CASE BeginCancelled
    BY <2>1, StatusWrite DEF BeginCancelled
  <2>2. CASE Begin
    BY <2>2, StartWrite DEF Begin
  <2>3. CASE RecordToolStatus
    BY <2>3, StatusWrite DEF RecordToolStatus, TargetKnown
  <2>4. CASE Record
    <3>1. PICK c \in BOOLEAN : row' = row \/ row' = [snap EXCEPT !.status = target, !.cancel = c]
      BY <2>4, Zenon DEF Record
    <3>2. [snap EXCEPT !.status = target, !.cancel = c].attempts = snap.attempts
      BY DEF Rows
    <3> QED
      BY <3>1, <3>2
  <2>5. CASE Deliver \/ BeginRefused \/ Register \/ Finish \/ RecordRefused \/ Return
             \/ CompleteStream \/ Throw \/ Crash
    BY <2>5 DEF Deliver, BeginRefused, Register, Finish, RecordRefused, Return, CompleteStream, Throw, Crash
  <2> QED
    BY <2>1, <2>2, <2>3, <2>4, <2>5 DEF ExecutorStep
<1>4. Created.attempts <= MaxAttempts
  BY CreatedRow, LifecycleAssumption
<1> QED
  BY <1>1, <1>2, <1>3, <1>4 DEF CopiesBounded

\* A step of a recovery does, too: it writes a copy, or a requeue that it
\* checked against the limit.
LEMMA RecoveryBounded ==
  ASSUME TypeOK, CopiesBounded, NEW c \in Recoverers, RecoveryStep(c)
  PROVE  CopiesBounded'
<1> USE DEF TypeOK, CopiesBounded, execVars, unread
<1>1. CASE ListStaleRun(c) \/ SkipListedRun(c) \/ RecoveryCrash(c) \/ EnqueueRecovered(c)
  <2>1. \A d \in Recoverers : recovering'[d].step = "write" => recovering'[d] = recovering[d]
    BY <1>1 DEF ListStaleRun, SkipListedRun, RecoveryCrash, EnqueueRecovered, NotRecovering
  <2> QED
    BY <1>1, <2>1 DEF ListStaleRun, SkipListedRun, RecoveryCrash, EnqueueRecovered
<1>2. CASE RecoverStaleRun(c) \/ RecoverAfterDrainTimeout(c) \/ RequeueRun(c)
  <2>1. PICK kind : ReadForRecovery(c, kind)
    BY <1>2 DEF RecoverStaleRun, RecoverAfterDrainTimeout, RequeueRun
  <2>2. \A d \in Recoverers : recovering'[d] = recovering[d] \/ recovering'[d].snap = row
    BY <2>1 DEF ReadForRecovery
  <2> QED
    BY <2>1, <2>2 DEF ReadForRecovery
<1>3. CASE RecoveryLands(c)
  <2>1. recovering[c].snap \in Rows /\ recovering[c].step = "write"
    BY <1>3 DEF RecoveryLands, Recoveries, NotRecovering
  <2>2. row'.attempts <= MaxAttempts
    BY <1>3, <2>1, RecoveredRow DEF RecoveryLands, WriteRecovery
  <2>3. \A d \in Recoverers : recovering'[d].step = "write" => recovering'[d] = recovering[d]
    BY <1>3 DEF RecoveryLands, WriteRecovery, NotRecovering
  <2> QED
    BY <1>3, <2>2, <2>3 DEF RecoveryLands
<1> QED
  BY <1>1, <1>2, <1>3 DEF RecoveryStep

\* Every step does.
LEMMA BoundedStep == TypeOK /\ TargetKnown /\ CopiesBounded /\ [Next]_vars => CopiesBounded'
<1> SUFFICES ASSUME TypeOK, TargetKnown, CopiesBounded, [Next]_vars PROVE CopiesBounded'
  OBVIOUS
<1>1. CASE ExecutorStep \/ CompleteStream \/ Throw \/ Crash
  BY <1>1, ExecutorBounded
<1> USE DEF CopiesBounded, TypeOK, others, execVars
<1>2. CASE TimeOut \/ ParentEnds
  BY <1>2 DEF TimeOut, ParentEnds
<1>3. ASSUME NEW to \in Active, SyncToolStatus(to) PROVE CopiesBounded'
  BY <1>3 DEF SyncToolStatus
<1>4. CASE Heartbeat
  <2>1. row'.attempts = row.attempts /\ beat' \in {beat, row}
    BY <1>4, StaleWrite DEF Heartbeat
  <2> QED
    BY <1>4, <2>1 DEF Heartbeat
<1>5. CASE HeartbeatLands
  <2>1. beat \in Rows
    BY <1>5 DEF HeartbeatLands
  <2>2. row'.attempts = beat.attempts
    BY <1>5, <2>1, StaleWrite DEF HeartbeatLands
  <2>3. NoRow \notin Rows
    BY DEF NoRow, Rows
  <2> QED
    BY <1>5, <2>1, <2>2, <2>3 DEF HeartbeatLands
<1>6. CASE BecomeStale
  BY <1>6, StaleWrite DEF BecomeStale
<1>7. CASE RequestCancellation
  <2>1. row'.attempts = row.attempts /\ cancelling' \in {cancelling, row} /\ snap' = snap
    BY <1>7, CancelWrite DEF RequestCancellation, WriteCancellation
  <2> QED
    BY <1>7, <2>1 DEF RequestCancellation
<1>8. CASE CancellationLands
  <2>1. cancelling \in Rows
    BY <1>8 DEF CancellationLands
  <2>2. row'.attempts = cancelling.attempts /\ snap' = snap
    BY <1>8, <2>1, CancelWrite DEF CancellationLands, WriteCancellation
  <2>3. NoRow \notin Rows
    BY DEF NoRow, Rows
  <2> QED
    BY <1>8, <2>1, <2>2, <2>3 DEF CancellationLands
<1>9. ASSUME NEW c \in Recoverers, RecoveryStep(c) PROVE CopiesBounded'
  BY <1>9, RecoveryBounded
<1>10. CASE UNCHANGED vars
  BY <1>10 DEF vars
<1> QED
  BY <1>1, <1>2, <1>3, <1>4, <1>5, <1>6, <1>7, <1>8, <1>9, <1>10 DEF Next

\* Whatever overtakes what, the counter in the row never passes
\* staleRunRecoveryMaxAttempts.
THEOREM RecoveryIsBounded == Spec => []AttemptsBounded
<1>1. Init => CopiesBounded
  <2> SUFFICES ASSUME Init PROVE CopiesBounded
    OBVIOUS
  <2>1. row.attempts <= MaxAttempts /\ snap.attempts <= MaxAttempts
    BY CreatedRow, LifecycleAssumption DEF Init
  <2>2. beat \notin Rows /\ cancelling \notin Rows
        /\ \A c \in Recoverers : recovering[c].step # "write"
    BY DEF Init, NoRow, Rows, NotRecovering
  <2> QED
    BY <2>1, <2>2 DEF CopiesBounded
<1>2. CopiesBounded => AttemptsBounded
  BY DEF CopiesBounded, AttemptsBounded
<1> QED
  BY <1>1, <1>2, BoundedStep, TypeCorrect, PTL DEF Spec

-----------------------------------------------------------------------------
(* One owner.  OneOwner is inductive, given the types: a contest is for     *)
(* ever, and before it every writer of the status acts on the current one.  *)

\* The owner depends on the run's status and on the recoveries that hold the
\* run, and on nothing else of the row and of the recoveries.
LEMMA SameOwner ==
  ASSUME OneOwner, ~contested,
         UNCHANGED <<pc, deliveries, snap, target, dropped>>,
         row'.status = row.status,
         Holding' = Holding,
         \A c \in Holding : recovering'[c] = recovering[c]
  PROVE  OneOwner'
<1>1. Holding \subseteq Recoverers
  BY DEF Holding
<1>2. CASE Waiting
  BY <1>2 DEF OneOwner, Waiting
<1>3. CASE Taken
  BY <1>3 DEF OneOwner, Taken
<1>4. CASE Executing
  BY <1>4 DEF OneOwner, Executing
<1>5. CASE Abandoned
  BY <1>5 DEF OneOwner, Abandoned
<1>6. CASE Returning
  <2>1. PICK c \in Recoverers : Holding = {c} /\ recovering[c].step = "enqueue"
    BY <1>6 DEF Returning
  <2>2. Returning'
    BY <1>6, <2>1 DEF Returning
  <2> QED
    BY <2>2 DEF OneOwner
<1>7. CASE Ended
  BY <1>7 DEF OneOwner, Ended
<1>8. CASE Dropped
  BY <1>8 DEF OneOwner, Dropped
<1> QED
  BY <1>2, <1>3, <1>4, <1>5, <1>6, <1>7, <1>8 DEF OneOwner

\* Who holds the run after one recovery went from one step to another.
LEMMA HoldingStep ==
  ASSUME TypeOK, NEW c \in Recoverers, NEW x \in Recoveries,
         recovering' = [recovering EXCEPT ![c] = x]
  PROVE  /\ recovering'[c] = x
         /\ x.step \in {"write", "enqueue"} => Holding' = Holding \cup {c}
         /\ x.step \notin {"write", "enqueue"} => Holding' = Holding \ {c}
         /\ \A d \in Holding \ {c} : recovering'[d] = recovering[d]
  BY DEF TypeOK, Holding

\* A write of the heartbeat or of the cancellation mark that is not out of date
\* keeps the status, and so the owner.
LEMMA SmallWrites ==
  ASSUME TypeOK, OneOwner, ~contested, ~contested',
         Heartbeat \/ HeartbeatLands \/ BecomeStale \/ RequestCancellation \/ CancellationLands
  PROVE  row'.status = row.status /\ OneOwner'
<1> USE DEF TypeOK, others, execVars, history
<1>1. row'.status = row.status
  <2>1. CASE Heartbeat \/ BecomeStale
    BY <2>1, StaleWrite DEF Heartbeat, BecomeStale
  <2>2. CASE HeartbeatLands
    <3>1. beat \in Rows /\ ~Outdated(beat) /\ row' = [beat EXCEPT !.stale = FALSE]
      BY <2>2 DEF HeartbeatLands
    <3>2. [beat EXCEPT !.stale = row.stale] = row
      BY <3>1 DEF Outdated
    <3>3. row.stale \in BOOLEAN
      BY DEF Rows
    <3>4. [beat EXCEPT !.stale = row.stale].status = beat.status
      BY <3>1, <3>3, StaleWrite
    <3> QED
      BY <3>1, <3>2, <3>4, StaleWrite
  <2>3. CASE RequestCancellation
    BY <2>3, CancelWrite DEF RequestCancellation, WriteCancellation
  <2>4. CASE CancellationLands
    <3>1. cancelling \in Rows /\ ~Outdated(cancelling) /\ row' = [cancelling EXCEPT !.cancel = TRUE]
      BY <2>4 DEF CancellationLands, WriteCancellation
    <3>2. [cancelling EXCEPT !.stale = row.stale] = row
      BY <3>1 DEF Outdated
    <3>3. row.stale \in BOOLEAN
      BY DEF Rows
    <3>4. [cancelling EXCEPT !.stale = row.stale].status = cancelling.status
      BY <3>1, <3>3, StaleWrite
    <3> QED
      BY <3>1, <3>2, <3>4, CancelWrite
  <2> QED
    BY <2>1, <2>2, <2>3, <2>4
<1>2. UNCHANGED <<pc, deliveries, snap, target, dropped, recovering>>
  BY DEF Heartbeat, HeartbeatLands, BecomeStale, RequestCancellation, CancellationLands, WriteCancellation
<1>3. Holding' = Holding
  BY <1>2 DEF Holding
<1> QED
  BY <1>1, <1>2, <1>3, SameOwner

\* The executor takes a waiting run, executes it and ends it, or dies.
LEMMA ExecutorOwns ==
  ASSUME TypeOK, OneOwner, ~contested, ~contested',
         ExecutorStep \/ CompleteStream \/ Throw \/ Crash
  PROVE  OneOwner'
<1> USE DEF TypeOK, others, OneOwner
<1>0. recovering' = recovering /\ Holding' = Holding
  BY DEF Holding, ExecutorStep, Deliver, BeginCancelled, Begin, BeginRefused, Register, RecordToolStatus,
     Finish, Record, RecordRefused, Return, CompleteStream, Throw, Crash
<1>1. CASE Deliver
  <2>1. Waiting
    BY <1>1 DEF Deliver, Taken, Executing, Abandoned, Returning, Ended, Dropped
  <2> QED
    BY <1>0, <1>1, <2>1 DEF Deliver, Waiting, Taken
<1>2. CASE BeginCancelled
  <2>1. Taken /\ CanTransition("queued", "cancelled")
    BY <1>2 DEF BeginCancelled, Waiting, Taken, Executing, Abandoned, Returning, Ended, Dropped, CanTransition
  <2>2. row'.status = "cancelled"
    BY <1>2, <2>1 DEF BeginCancelled, Taken, Rows
  <2> QED
    BY <1>0, <1>2, <2>1, <2>2 DEF BeginCancelled, Leave, Taken, Ended, Terminal
<1>3. CASE Begin
  <2>1. Taken
    BY <1>3 DEF Begin, Waiting, Taken, Executing, Abandoned, Returning, Ended, Dropped
  <2>2. row'.status = "running"
    BY <1>3 DEF Begin, Rows
  <2> QED
    BY <1>0, <1>3, <2>1, <2>2 DEF Begin, Taken, Executing, Active
<1>4. CASE BeginRefused
  BY <1>4 DEF BeginRefused, Waiting, Taken, Executing, Abandoned, Returning, Ended, Dropped, CanTransition
<1>5. CASE Register
  <2>1. Executing
    BY <1>5 DEF Register, Waiting, Taken, Executing, Abandoned, Returning, Ended, Dropped
  <2> QED
    BY <1>0, <1>5, <2>1 DEF Register, Executing
<1>6. CASE RecordToolStatus
  <2>1. Executing
    BY <1>6 DEF RecordToolStatus, Waiting, Taken, Executing, Abandoned, Returning, Ended, Dropped
  <2>2. row'.status = target
    BY <1>6 DEF RecordToolStatus, Rows
  <2> QED
    BY <1>0, <1>6, <2>1, <2>2 DEF RecordToolStatus, Executing
<1>7. CASE Finish
  <2>1. Executing \/ Ended
    BY <1>7 DEF Finish, Waiting, Taken, Abandoned, Returning, Dropped
  <2> QED
    BY <1>0, <1>7, <2>1 DEF Finish, Executing, Ended
<1>8. CASE Record
  <2>1. Executing
    BY <1>8 DEF Record, Waiting, Taken, Executing, Abandoned, Returning, Ended, Dropped, AlreadyEnded,
       CanTransition, Active, Terminal
  <2>2. ~AlreadyEnded
    BY <1>8, <2>1 DEF Record, Executing, AlreadyEnded, Active, Terminal
  <2>3. PICK c \in BOOLEAN : row' = [snap EXCEPT !.status = target, !.cancel = c]
    BY <1>8, <2>2, Zenon DEF Record
  <2>4. row'.status = target
    BY <2>3 DEF Rows
  <2> QED
    BY <1>0, <1>8, <2>1, <2>4 DEF Record, Leave, Executing, Ended, Terminal
<1>9. CASE RecordRefused
  <2>1. Ended
    BY <1>9 DEF RecordRefused, Waiting, Taken, Executing, Abandoned, Returning, Ended, Dropped,
       CanTransition, Active, Terminal
  <2> QED
    BY <1>0, <1>9, <2>1 DEF RecordRefused, Leave, Ended
<1>10. CASE Return
  <2>1. Ended
    BY <1>10 DEF Return, Waiting, Taken, Executing, Abandoned, Returning, Ended, Dropped
  <2> QED
    BY <1>0, <1>10, <2>1 DEF Return, Leave, Ended
<1>11. CASE CompleteStream
  <2>1. Executing
    BY <1>11 DEF CompleteStream, Waiting, Taken, Executing, Abandoned, Returning, Ended, Dropped
  <2> QED
    BY <1>0, <1>11, <2>1 DEF CompleteStream, Leave, Executing, Abandoned, Terminal
<1>12. CASE Throw
  <2>1. CASE pc = "stream"
    <3>1. Executing
      BY <2>1 DEF Waiting, Taken, Abandoned, Returning, Ended, Dropped
    <3> QED
      BY <1>0, <1>12, <2>1, <3>1 DEF Throw, Catch, Leave, Executing, Abandoned, Terminal
  <2>2. CASE pc = "after"
    <3>1. Ended
      BY <2>2 DEF Waiting, Taken, Executing, Abandoned, Returning, Dropped
    <3> QED
      BY <1>0, <1>12, <2>2, <3>1 DEF Throw, Catch, Leave, Ended, Terminal
  <2> QED
    BY <1>12, <2>1, <2>2 DEF Throw
<1>13. CASE Crash
  <2>1. Taken \/ Executing \/ Ended
    BY <1>13 DEF Crash, Waiting, Abandoned, Returning, Dropped
  <2>2. CASE Taken
    BY <1>0, <1>13, <2>2 DEF Crash, Leave, Taken, Dropped
  <2>3. CASE Executing
    BY <1>0, <1>13, <2>3 DEF Crash, Leave, Executing, Abandoned
  <2>4. CASE Ended
    BY <1>0, <1>13, <2>4 DEF Crash, Leave, Ended
  <2> QED
    BY <2>1, <2>2, <2>3, <2>4
<1> QED
  BY <1>1, <1>2, <1>3, <1>4, <1>5, <1>6, <1>7, <1>8, <1>9, <1>10, <1>11, <1>12, <1>13 DEF ExecutorStep

\* Recovery takes an abandoned or failed run, and hands it to the queue.
LEMMA RecoveryOwns ==
  ASSUME TypeOK, OneOwner, ~contested, ~contested', NEW c \in Recoverers, RecoveryStep(c)
  PROVE  OneOwner'
<1> USE DEF TypeOK, execVars, unread, OneOwner
<1>0. NotRecovering \in Recoveries /\ NotRecovering.step = "none"
  BY DEF Recoveries, NotRecovering
<1>1. CASE ListStaleRun(c) \/ SkipListedRun(c)
  <2>1. PICK x \in Recoveries : x.step \in {"none", "listed"} /\ recovering' = [recovering EXCEPT ![c] = x]
    <3>1. [step |-> "listed"] \in Recoveries
      BY DEF Recoveries
    <3> QED
      BY <1>0, <1>1, <3>1 DEF ListStaleRun, SkipListedRun
  <2>2. c \notin Holding
    BY <1>0, <1>1 DEF ListStaleRun, SkipListedRun, Holding
  <2>3. Holding' = Holding /\ \A d \in Holding : recovering'[d] = recovering[d]
    <3>1. x.step \notin {"write", "enqueue"}
      BY <2>1
    <3>2. Holding' = Holding \ {c} /\ \A d \in Holding \ {c} : recovering'[d] = recovering[d]
      BY <2>1, <3>1, HoldingStep
    <3> QED
      BY <2>2, <3>2
  <2> QED
    BY <1>1, <2>3, SameOwner DEF ListStaleRun, SkipListedRun
<1>2. CASE RecoverStaleRun(c) \/ RecoverAfterDrainTimeout(c) \/ RequeueRun(c)
  <2>1. PICK kind \in {"drain", "stale", "manual"} : ReadForRecovery(c, kind)
    BY <1>2 DEF RecoverStaleRun, RecoverAfterDrainTimeout, RequeueRun
  <2>2. pc = "idle" /\ \A d \in Recoverers : recovering[d].step # "write"
    BY <2>1 DEF ReadForRecovery
  <2>3. [step |-> "write", kind |-> kind, snap |-> row] \in Recoveries
    BY DEF Recoveries
  <2>4. /\ recovering'[c] = [step |-> "write", kind |-> kind, snap |-> row]
        /\ Holding' = Holding \cup {c}
    BY <2>1, <2>3, HoldingStep DEF ReadForRecovery
  <2>5. CASE RecoverStaleRun(c)
    <3>1. Abandoned
      BY <2>2, <2>5 DEF RecoverStaleRun, Waiting, Taken, Executing, Returning, Ended, Dropped, Active, Terminal
    <3>2. Holding = {}
      BY <2>2, <3>1 DEF Abandoned, Holding
    <3>3. recovering'[c].kind = "stale" /\ recovering'[c].step = "write" /\ recovering'[c].snap = row
      BY <2>5 DEF RecoverStaleRun, ReadForRecovery
    <3> QED
      BY <2>1, <2>4, <3>1, <3>2, <3>3 DEF ReadForRecovery, Abandoned
  <2>6. CASE RequeueRun(c)
    <3>1. Ended
      BY <2>2, <2>6 DEF RequeueRun, Waiting, Taken, Executing, Abandoned, Returning, Dropped, Active
    <3>2. Holding = {}
      BY <2>2, <3>1 DEF Ended, Holding
    <3>3. recovering'[c].kind = "manual" /\ recovering'[c].step = "write"
      BY <2>6 DEF RequeueRun, ReadForRecovery
    <3> QED
      BY <2>1, <2>2, <2>4, <2>6, <3>1, <3>2, <3>3 DEF ReadForRecovery, RequeueRun, Ended
  <2> QED
    BY <1>2, <2>2, <2>5, <2>6 DEF RecoverAfterDrainTimeout
<1>3. CASE RecoveryLands(c)
  <2> DEFINE new == Recovered(recovering[c].kind, recovering[c].snap)
             x == IF new.status = "queued" THEN [step |-> "enqueue"] ELSE NotRecovering
  <2>1. recovering[c].step = "write" /\ c \in Holding
    BY <1>3 DEF RecoveryLands, Holding
  <2>2. Abandoned \/ Ended
    BY <2>1 DEF Waiting, Taken, Executing, Returning, Dropped
  <2>3. Holding = {c} /\ pc = "idle" /\ deliveries = 0
    BY <2>1, <2>2 DEF Abandoned, Ended
  <2>4. recovering[c].snap \in Rows
    BY <2>1 DEF Recoveries, NotRecovering
  <2>5. row' = new /\ new.status \in {"queued", "failed", "cancelled"}
    BY <1>3, <2>4, RecoveredRow DEF RecoveryLands, WriteRecovery
  <2>6. x \in Recoveries /\ recovering' = [recovering EXCEPT ![c] = x]
    BY <1>3 DEF RecoveryLands, WriteRecovery, Recoveries
  <2>7. CASE new.status = "queued"
    <3>1. recovering'[c].step = "enqueue" /\ Holding' = {c}
      BY <2>3, <2>6, <2>7, HoldingStep
    <3> QED
      BY <1>3, <2>3, <2>5, <2>7, <3>1 DEF RecoveryLands, Returning
  <2>8. CASE new.status # "queued"
    <3>1. Holding' = {}
      BY <1>0, <2>3, <2>6, <2>8, HoldingStep
    <3> QED
      BY <1>3, <2>3, <2>5, <2>8, <3>1 DEF RecoveryLands, Ended, Terminal
  <2> QED
    BY <2>7, <2>8
<1>4. CASE EnqueueRecovered(c) \/ RecoveryCrash(c)
  <2>1. recovering' = [recovering EXCEPT ![c] = NotRecovering]
    BY <1>4 DEF EnqueueRecovered, RecoveryCrash
  <2>2. Holding' = Holding \ {c} /\ \A d \in Holding \ {c} : recovering'[d] = recovering[d]
    BY <1>0, <2>1, HoldingStep
  <2>3. UNCHANGED <<row, pc, snap, target>>
    BY <1>4 DEF EnqueueRecovered, RecoveryCrash
  <2>4. CASE recovering[c].step = "enqueue"
    <3>1. Returning /\ Holding = {c}
      BY <2>4 DEF Waiting, Taken, Executing, Abandoned, Ended, Dropped, Returning, Holding
    <3>2. Holding' = {}
      BY <2>2, <3>1
    <3>3. CASE EnqueueRecovered(c)
      BY <2>3, <3>1, <3>2, <3>3 DEF EnqueueRecovered, Returning, Waiting
    <3>4. CASE RecoveryCrash(c)
      <4>1. dropped' = TRUE
        BY <2>4, <3>4 DEF RecoveryCrash
      <4> QED
        BY <2>3, <3>1, <3>2, <3>4, <4>1 DEF RecoveryCrash, Returning, Dropped
    <3> QED
      BY <1>4, <3>3, <3>4
  <2>5. CASE recovering[c].step # "enqueue"
    <3>1. UNCHANGED <<deliveries, dropped>>
      BY <1>4, <2>5 DEF EnqueueRecovered, RecoveryCrash
    <3>2. CASE c \in Holding
      <4>1. Abandoned \/ Ended
        BY <2>5, <3>2 DEF Waiting, Taken, Executing, Returning, Dropped
      <4>2. Holding' = {}
        BY <2>2, <3>2, <4>1 DEF Abandoned, Ended
      <4> QED
        BY <2>3, <3>1, <4>1, <4>2 DEF Abandoned, Ended
    <3>3. CASE c \notin Holding
      BY <2>2, <2>3, <3>1, <3>3, SameOwner
    <3> QED
      BY <3>2, <3>3
  <2> QED
    BY <2>4, <2>5
<1> QED
  BY <1>1, <1>2, <1>3, <1>4 DEF RecoveryStep

\* A contest is for ever.
LEMMA ContestStands == contested /\ [Next]_vars => contested'
<1> SUFFICES ASSUME contested, [Next]_vars PROVE contested'
  OBVIOUS
<1>1. ASSUME NEW c \in Recoverers, RecoveryStep(c) PROVE contested'
  BY <1>1 DEF RecoveryStep, ListStaleRun, RecoverStaleRun, SkipListedRun, RecoverAfterDrainTimeout,
     RequeueRun, ReadForRecovery, RecoveryLands, EnqueueRecovered, RecoveryCrash, history
<1>2. CASE ExecutorStep \/ CompleteStream \/ Throw \/ Crash \/ TimeOut
           \/ \E to \in Active : SyncToolStatus(to)
  BY <1>2 DEF ExecutorStep, Deliver, BeginCancelled, Begin, BeginRefused, Register, RecordToolStatus,
     Finish, Record, RecordRefused, Return, CompleteStream, Throw, Crash, TimeOut, SyncToolStatus,
     others, history
<1>3. CASE Heartbeat \/ HeartbeatLands \/ BecomeStale \/ RequestCancellation \/ CancellationLands
           \/ ParentEnds \/ UNCHANGED vars
  BY <1>3 DEF Heartbeat, HeartbeatLands, BecomeStale, RequestCancellation, CancellationLands, ParentEnds,
     vars, others, history
<1> QED
  BY <1>1, <1>2, <1>3 DEF Next

\* Every step leaves the run with one owner.
LEMMA OwnerStep == TypeOK /\ OneOwner /\ [Next]_vars => OneOwner'
<1> SUFFICES ASSUME TypeOK, OneOwner, [Next]_vars, ~contested, ~contested' PROVE OneOwner'
  BY ContestStands DEF OneOwner
<1>1. CASE Heartbeat \/ HeartbeatLands \/ BecomeStale \/ RequestCancellation \/ CancellationLands
  BY <1>1, SmallWrites
<1>2. CASE ExecutorStep \/ CompleteStream \/ Throw \/ Crash
  BY <1>2, ExecutorOwns
<1>3. ASSUME NEW c \in Recoverers, RecoveryStep(c) PROVE OneOwner'
  BY <1>3, RecoveryOwns
<1>4. CASE TimeOut \/ ParentEnds \/ UNCHANGED vars
  <2>1. UNCHANGED <<row, pc, deliveries, snap, target, dropped, recovering>>
    BY <1>4 DEF TimeOut, ParentEnds, vars, others, execVars, history
  <2>2. Holding' = Holding
    BY <2>1 DEF Holding
  <2> QED
    BY <2>1, <2>2, SameOwner
<1>5. ASSUME NEW to \in Active, SyncToolStatus(to) PROVE OneOwner'
  <2>1. Executing
    BY <1>5 DEF SyncToolStatus, OneOwner, Waiting, Taken, Abandoned, Returning, Ended, Dropped
  <2>2. Holding' = Holding
    BY <1>5 DEF SyncToolStatus, others, Holding
  <2> QED
    BY <1>5, <2>1, <2>2 DEF SyncToolStatus, OneOwner, Executing
<1> QED
  BY <1>1, <1>2, <1>3, <1>4, <1>5 DEF Next

\* OneOwner is inductive, given the types.
LEMMA OwnerInvariant == Spec => [](TypeOK /\ OneOwner)
<1>1. Init => OneOwner
  <2> SUFFICES ASSUME Init PROVE OneOwner
    OBVIOUS
  <2>1. Holding = {}
    BY DEF Init, Holding, NotRecovering
  <2> QED
    BY <2>1, CreatedRow DEF Init, OneOwner, Waiting
<1> QED
  BY <1>1, OwnerStep, TypeCorrect, PTL DEF Spec

\* Until two writers overlap, at most one party may change the run's status at
\* a time, whatever the strategy, the limits, the number of recoveries and the
\* crashes.
THEOREM SingleOwner == Spec => []OneOwner
  BY OwnerInvariant, PTL

\* So a run recorded as queued is on its way to an executor, unless it was
\* dropped or contested.
THEOREM NoLostRun == Spec => []QueuedIsDelivered
<1>1. TypeOK /\ OneOwner => QueuedIsDelivered
  BY DEF TypeOK, OneOwner, Waiting, Taken, Executing, Abandoned, Returning, Ended, Dropped,
     QueuedIsDelivered, Active, Terminal
<1> QED
  BY <1>1, OwnerInvariant, PTL

\* A step that may change the status of a run that completed or was cancelled
\* would need an owner other than the executor that is leaving it.
LEMMA FinalStep ==
  ASSUME TypeOK, OneOwner, [Next]_vars, row.status \in {"completed", "cancelled"}, ~contested'
  PROVE  row'.status = row.status
<1>0. ~contested
  BY ContestStands
<1>1. Ended /\ Holding = {}
  BY <1>0 DEF OneOwner, Waiting, Taken, Executing, Abandoned, Returning, Ended, Dropped, Active
<1>2. CASE ExecutorStep
  <2>1. ~Record
    BY <1>1 DEF Ended, TypeOK, Record, AlreadyEnded, CanTransition, Active, Terminal
  <2> QED
    BY <1>1, <1>2, <2>1 DEF Ended, ExecutorStep, Deliver, BeginCancelled, Begin, BeginRefused, Register,
       RecordToolStatus, Finish, RecordRefused, Return
<1>3. CASE CompleteStream \/ Throw \/ Crash \/ TimeOut \/ ParentEnds \/ UNCHANGED vars
           \/ \E to \in Active : SyncToolStatus(to)
  BY <1>3 DEF CompleteStream, Throw, Crash, TimeOut, ParentEnds, SyncToolStatus, vars
<1>4. CASE Heartbeat \/ HeartbeatLands \/ BecomeStale \/ RequestCancellation \/ CancellationLands
  BY <1>0, <1>4, SmallWrites
<1>5. ASSUME NEW c \in Recoverers, RecoveryStep(c) PROVE row'.status = row.status
  <2>1. recovering[c].step # "write"
    BY <1>1 DEF Holding
  <2> QED
    BY <1>5, <2>1 DEF RecoveryStep, ListStaleRun, RecoverStaleRun, SkipListedRun, RecoverAfterDrainTimeout,
       RequeueRun, RecoveryLands, EnqueueRecovered, RecoveryCrash, ReadForRecovery, unread
<1> QED
  BY <1>2, <1>3, <1>4, <1>5 DEF Next

\* And a run that completed or was cancelled stays so, unless two writers of
\* its row overlapped.
THEOREM EndIsFinal == Spec => EndedIsFinal
<1>1. TypeOK /\ OneOwner /\ [Next]_vars
        => [row.status \in {"completed", "cancelled"} => row'.status = row.status \/ contested']_vars
  BY FinalStep
<1> QED
  BY <1>1, OwnerInvariant, PTL DEF Spec, EndedIsFinal

-----------------------------------------------------------------------------
(* A cancellation of a queued run.  That it is honoured in the end is          *)
(* liveness (QueuedCancelHonoured); that nothing but the recording of it can   *)
(* happen to the run is not.                                                   *)

\* The mark was set while the run waited, and whoever took the run since saw it.
CancelStands ==
  /\ row.status = "queued" /\ row.cancel = TRUE
  /\ pc = "idle" \/ (pc = "begin" /\ snap.cancel = TRUE)

\* The run is never started, set back, failed or stripped of its mark: the mark
\* stands until the run is recorded as cancelled, or two writers overlap.
CancelIsKept == [][CancelStands => CancelStands' \/ row'.status = "cancelled" \/ contested']_vars

\* What each writer of the row does to a run with a standing cancellation.
LEMMA CancelStep ==
  ASSUME TypeOK, OneOwner, [Next]_vars, CancelStands, ~contested'
  PROVE  CancelStands' \/ row'.status = "cancelled"
<1>0. ~contested
  BY ContestStands
<1>1. Waiting \/ Taken \/ Returning \/ Dropped
  BY <1>0 DEF OneOwner, CancelStands, Waiting, Taken, Executing, Abandoned, Returning, Ended, Dropped, Active, Terminal
<1>2. /\ row \in Rows /\ snap \in Rows
      /\ row.status = "queued" /\ row.cancel = TRUE
      /\ pc = "idle" \/ (pc = "begin" /\ snap.cancel = TRUE /\ snap.status = "queued")
      /\ \A c \in Recoverers : recovering[c].step # "write"
  BY <1>1 DEF TypeOK, CancelStands, Waiting, Taken, Returning, Dropped, Holding
<1>3. CASE Deliver
  BY <1>2, <1>3 DEF Deliver, CancelStands
<1>4. CASE BeginCancelled
  <2>1. CanTransition("queued", "cancelled")
    BY DEF CanTransition
  <2> QED
    BY <1>2, <1>4, <2>1 DEF BeginCancelled, Rows
<1>5. CASE RequestCancellation \/ CancellationLands
  <2>1. PICK r \in Rows : row' = [r EXCEPT !.cancel = TRUE]
    BY <1>2, <1>5 DEF RequestCancellation, CancellationLands, WriteCancellation, TypeOK, Rows
  <2>2. row'.cancel = TRUE /\ row'.status = "queued"
    <3>1. CASE RequestCancellation
      BY <1>2, <3>1, SmallWrites, <1>0 DEF RequestCancellation, WriteCancellation, Rows
    <3>2. CASE CancellationLands
      BY <1>2, <2>1, <3>2, SmallWrites, <1>0 DEF Rows
    <3> QED
      BY <1>5, <3>1, <3>2
  <2>3. pc' = pc /\ snap' = snap
    BY <1>5 DEF RequestCancellation, CancellationLands, WriteCancellation, execVars
  <2> QED
    BY <1>2, <2>2, <2>3 DEF CancelStands
<1>6. CASE HeartbeatLands
  <2>1. beat \in Rows /\ ~Outdated(beat) /\ row' = [beat EXCEPT !.stale = FALSE]
    BY <1>6 DEF HeartbeatLands, TypeOK
  <2>2. [beat EXCEPT !.stale = row.stale] = row
    BY <2>1 DEF Outdated
  <2>3. row'.status = row.status /\ row'.cancel = row.cancel
    BY <1>2, <2>1, <2>2 DEF Rows
  <2>4. pc' = pc /\ snap' = snap
    BY <1>6 DEF HeartbeatLands, execVars
  <2> QED
    BY <1>2, <2>3, <2>4 DEF CancelStands
<1>7. CASE Crash
  BY <1>2, <1>7 DEF Crash, Leave, CancelStands
<1>8. CASE TimeOut \/ ParentEnds \/ UNCHANGED vars
  <2>1. row' = row /\ pc' = pc /\ snap' = snap
    BY <1>8 DEF TimeOut, ParentEnds, vars, execVars
  <2> QED
    BY <2>1 DEF CancelStands
<1>9. ASSUME NEW c \in Recoverers, RecoveryStep(c) PROVE CancelStands'
  <2>1. row' = row /\ pc' = pc /\ snap' = snap
    BY <1>2, <1>9 DEF RecoveryStep, ListStaleRun, RecoverStaleRun, SkipListedRun, RecoverAfterDrainTimeout,
       RequeueRun, RecoveryLands, EnqueueRecovered, RecoveryCrash, ReadForRecovery, unread, execVars
  <2> QED
    BY <2>1 DEF CancelStands
<1>10. ~(Heartbeat \/ BecomeStale)
  BY <1>2 DEF Heartbeat, BecomeStale, Active
<1>11. ~(Begin \/ BeginRefused \/ Register \/ RecordToolStatus \/ Finish \/ Record \/ RecordRefused \/ Return
          \/ CompleteStream \/ Throw)
  BY <1>2 DEF Begin, BeginRefused, Register, RecordToolStatus, Finish, Record, RecordRefused, Return,
     CompleteStream, Throw
<1>12. \A to \in Active : ~SyncToolStatus(to)
  BY <1>2 DEF SyncToolStatus
<1> QED
  BY <1>3, <1>4, <1>5, <1>6, <1>7, <1>8, <1>9, <1>10, <1>11, <1>12 DEF Next, ExecutorStep

\* A run cancelled while it waits in the queue is never started (processRun
\* looks at cancelRequestedAt first), and until two writers overlap no
\* heartbeat, recovery or second request takes the mark away before the run is
\* recorded as cancelled.
THEOREM QueuedCancelKept == Spec => CancelIsKept
<1>1. TypeOK /\ OneOwner /\ [Next]_vars
        => [CancelStands => CancelStands' \/ row'.status = "cancelled" \/ contested']_vars
  BY CancelStep
<1> QED
  BY <1>1, OwnerInvariant, PTL DEF Spec, CancelIsKept
=============================================================================
