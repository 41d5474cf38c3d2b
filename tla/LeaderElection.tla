---------------------------- MODULE LeaderElection ----------------------------
(***************************************************************************)
(* The controllers of a deployment elect the one that reconciles with a    *)
(* Kubernetes Lease (apps/controller/src/leader-election.ts), and start    *)
(* and stop their control loop with it (index.ts).                         *)
(*                                                                         *)
(* Nothing of this is atomic: a tick reads the lease and writes it with    *)
(* the version it read; time passes before, between and after; an answer   *)
(* may be lost, and the write it answers be applied late all the same.  A  *)
(* leader learns that it leads no more only when its next tick ends, and   *)
(* an evaluation that it began goes on after that.                         *)
(*                                                                         *)
(* Times are kept relative to the present: the age of what has happened,   *)
(* the time left until what must happen.                                   *)
(***************************************************************************)
EXTENDS Integers

CONSTANTS
  Controllers,
  Duration, RenewInterval, RetryInterval,  \* leaseDurationMs, renewIntervalMs, retryIntervalMs
  Offset,          \* how far each controller's clock is ahead
  Skew,            \* bound: how far a clock may be ahead
  MaxRequest,      \* bound: a tick has its answers within this time
  MaxEvaluation,   \* bound: an evaluation takes no longer
  MaxClose,        \* bound: a controller that closes exits within this time
  MaxFaults        \* bound: crashes, lost answers, shutdowns

NoOne == "no one"

ASSUME ElectionAssumption ==
  /\ NoOne \notin Controllers
  /\ Duration \in Nat \ {0} /\ RenewInterval \in Nat \ {0} /\ RetryInterval \in Nat \ {0}
  /\ MaxRequest \in Nat \ {0} /\ MaxEvaluation \in Nat \ {0} /\ MaxClose \in Nat
  /\ Skew \in Nat /\ MaxFaults \in Nat
  /\ Offset \in [Controllers -> 0 .. Skew]

\* What the intervals must leave for a lease to outlive its holder's belief in
\* it: the code asks for no such thing, and gives its requests no time limit.
ASSUME TimingAssumption ==
  /\ 2 * MaxRequest + 2 * MaxEvaluation + RenewInterval + Skew < Duration
  /\ MaxRequest + MaxClose + Skew < Duration

VARIABLES
  lease,       \* its holder, and the age of its renewTime
  strays,      \* writes whose sender has given up, with a version that is still the lease's
  stage,       \* what each controller's tick waits for
  since,       \* the age of that tick's attemptAt, while it has requests
  rest,        \* the time left for it
  current,     \* the lease has not been written since the tick read it
  accepted,    \* the tick's write was applied
  leader,      \* #leader
  renewed,     \* the age of #status.lastRenewAt, while the controller acts on it
  closed,      \* #closed, until the process exits
  exit,        \* the time left until then
  running,     \* the control loop's timer is set
  evaluating,  \* an evaluation that the timer began is in flight
  due,         \* the time left for it
  faults       \* crashes, lost answers, shutdowns so far

attempt == <<stage, since, rest, current, accepted>>
belief == <<leader, renewed>>
shutdown == <<closed, exit>>
loop == <<running, evaluating, due>>
vars == <<lease, strays, attempt, belief, shutdown, loop, faults>>

\* An age is told apart up to the one at which a lease has expired for everyone.
Horizon == Duration + Skew
Ages == 0 .. Horizon
Requesting == {"get", "read", "write", "written"}

TypeOK ==
  /\ lease \in [holder : Controllers \cup {NoOne}, age : Ages]
  /\ strays \subseteq [by : Controllers, age : Ages]
  /\ stage \in [Controllers -> {"down", "wait", "gained", "stopped"} \cup Requesting]
  /\ since \in [Controllers -> Ages]
  /\ rest \in [Controllers -> Nat]
  /\ current \in [Controllers -> BOOLEAN]
  /\ accepted \in [Controllers -> BOOLEAN]
  /\ leader \in [Controllers -> BOOLEAN]
  /\ renewed \in [Controllers -> Ages]
  /\ closed \in [Controllers -> BOOLEAN]
  /\ exit \in [Controllers -> Nat]
  /\ running \in [Controllers -> BOOLEAN]
  /\ evaluating \in [Controllers -> BOOLEAN]
  /\ due \in [Controllers -> Nat]
  /\ faults \in Nat

Init ==
  /\ lease = [holder |-> NoOne, age |-> 0]
  /\ strays = {}
  /\ stage = [c \in Controllers |-> "down"]
  /\ since = [c \in Controllers |-> 0]
  /\ rest = [c \in Controllers |-> 0]
  /\ current = [c \in Controllers |-> FALSE]
  /\ accepted = [c \in Controllers |-> FALSE]
  /\ leader = [c \in Controllers |-> FALSE]
  /\ renewed = [c \in Controllers |-> 0]
  /\ closed = [c \in Controllers |-> FALSE]
  /\ exit = [c \in Controllers |-> 0]
  /\ running = [c \in Controllers |-> FALSE]
  /\ evaluating = [c \in Controllers |-> FALSE]
  /\ due = [c \in Controllers |-> 0]
  /\ faults = 0

-----------------------------------------------------------------------------
(* Time.                                                                     *)

Older(age) == IF age < Horizon THEN age + 1 ELSE age
Sooner(time) == IF time > 0 THEN time - 1 ELSE time

\* Something is due at once: an answer, a timer, the end of an evaluation or of
\* the process.
Urgent(c) ==
  \/ stage[c] \in {"wait", "gained"} \cup Requesting /\ rest[c] = 0
  \/ evaluating[c] /\ due[c] = 0
  \/ closed[c] /\ exit[c] = 0

\* The controller leads, or an evaluation of it is in flight.
Reconciling(c) == stage[c] = "gained" \/ evaluating[c]
Acting(c) == leader[c] \/ Reconciling(c)

TimePasses ==
  /\ \A c \in Controllers : ~Urgent(c)
  /\ lease' = [lease EXCEPT !.age = Older(lease.age)]
  /\ strays' = {[s EXCEPT !.age = Older(s.age)] : s \in strays}
  /\ since' = [c \in Controllers |-> IF stage[c] \in Requesting THEN Older(since[c]) ELSE 0]
  /\ renewed' = [c \in Controllers |-> IF Acting(c) THEN Older(renewed[c]) ELSE 0]
  /\ rest' = [c \in Controllers |-> Sooner(rest[c])]
  /\ exit' = [c \in Controllers |-> Sooner(exit[c])]
  /\ due' = [c \in Controllers |-> Sooner(due[c])]
  /\ UNCHANGED <<stage, current, accepted, leader, closed, running, evaluating, faults>>

-----------------------------------------------------------------------------
(* A tick.                                                                   *)

Attempt(c) ==
  /\ stage' = [stage EXCEPT ![c] = "get"]
  /\ since' = [since EXCEPT ![c] = 0]
  /\ rest' = [rest EXCEPT ![c] = MaxRequest]
  /\ UNCHANGED <<lease, strays, current, accepted, belief, shutdown, loop, faults>>

\* start(), in a new process.
Start(c) == stage[c] = "down" /\ Attempt(c)

\* The timer that the tick before this one has set.
Tick(c) == stage[c] = "wait" /\ rest[c] = 0 /\ Attempt(c)

\* The lease is read; there may be none.
ServeGet(c) ==
  /\ stage[c] = "get"
  /\ stage' = [stage EXCEPT ![c] = "read"]
  /\ current' = [current EXCEPT ![c] = TRUE]
  /\ UNCHANGED <<lease, strays, since, rest, accepted, belief, shutdown, loop, faults>>

\* Mutated form: only a leader sets the timer for another tick.
ConcludeForGood(c, ok) ==
  /\ leader' = [leader EXCEPT ![c] = ok]
  /\ renewed' = [renewed EXCEPT ![c] = IF ok THEN since[c] ELSE @]
  /\ current' = [current EXCEPT ![c] = FALSE]
  /\ accepted' = [accepted EXCEPT ![c] = FALSE]
  /\ IF ok /\ ~leader[c]
     THEN /\ stage' = [stage EXCEPT ![c] = "gained"]
          /\ rest' = [rest EXCEPT ![c] = MaxEvaluation]
          /\ running' = [running EXCEPT ![c] = TRUE]
     ELSE /\ stage' = [stage EXCEPT ![c] = IF closed[c] \/ ~ok THEN "stopped" ELSE "wait"]
          /\ rest' = [rest EXCEPT ![c] = IF ok THEN RenewInterval ELSE RetryInterval]
          /\ running' = [running EXCEPT ![c] = @ /\ (leader[c] => ok)]
  /\ UNCHANGED <<since, shutdown, evaluating, due>>

\* The tick ends.  A controller that begins to lead starts its loop and waits
\* for its first evaluation; one that ceases to lead stops its loop.  A tick
\* that was in flight when close() was called ends like any other, but it sets
\* no timer.
Conclude(c, ok) ==
  /\ leader' = [leader EXCEPT ![c] = ok]
  /\ renewed' = [renewed EXCEPT ![c] = IF ok THEN since[c] ELSE @]
  /\ current' = [current EXCEPT ![c] = FALSE]
  /\ accepted' = [accepted EXCEPT ![c] = FALSE]
  /\ IF ok /\ ~leader[c]
     THEN /\ stage' = [stage EXCEPT ![c] = "gained"]
          /\ rest' = [rest EXCEPT ![c] = MaxEvaluation]
          /\ running' = [running EXCEPT ![c] = TRUE]
     ELSE /\ stage' = [stage EXCEPT ![c] = IF closed[c] THEN "stopped" ELSE "wait"]
          /\ rest' = [rest EXCEPT ![c] = IF ok THEN RenewInterval ELSE RetryInterval]
          /\ running' = [running EXCEPT ![c] = @ /\ (leader[c] => ok)]
  /\ UNCHANGED <<since, shutdown, evaluating, due>>

\* Mutated form: the duration is rounded down.
ExpiredEarly(c) ==
  lease.holder # NoOne => lease.age + Offset[c] - Offset[lease.holder] >= Duration - 1

\* isLeaseExpired, by the clock of the controller that asks.
Expired(c) ==
  lease.holder # NoOne => lease.age + Offset[c] - Offset[lease.holder] >= Duration

\* Mutated form: a lease is not renewed by the one who holds it.
JudgeExpiryOnly(c) ==
  /\ stage[c] = "read"
  /\ \/ /\ ~current[c] \/ Expired(c)
        /\ stage' = [stage EXCEPT ![c] = "write"]
        /\ UNCHANGED <<since, rest, current, accepted, belief, shutdown, loop>>
     \/ /\ ~current[c] \/ ~Expired(c)
        /\ Conclude(c, FALSE)
  /\ UNCHANGED <<lease, strays, faults>>

\* The answer to the read is judged.  One that a later write has overtaken may
\* be judged either way: the write that it leads to is refused.
Judge(c) ==
  /\ stage[c] = "read"
  /\ \/ /\ ~current[c] \/ lease.holder = c \/ Expired(c)
        /\ stage' = [stage EXCEPT ![c] = "write"]
        /\ UNCHANGED <<since, rest, current, accepted, belief, shutdown, loop>>
     \/ /\ ~current[c] \/ ~(lease.holder = c \/ Expired(c))
        /\ Conclude(c, FALSE)
  /\ UNCHANGED <<lease, strays, faults>>

\* Mutated form: the renewTime written is the time at which the lease expires.
ApplyExpiry(c, age) ==
  /\ lease' = [holder |-> c, age |-> age - Duration]
  /\ strays' = {}
  /\ current' = [d \in Controllers |-> FALSE]

\* A write is applied: what others have read is not the lease any more.
Apply(c, age) ==
  /\ lease' = [holder |-> c, age |-> age]
  /\ strays' = {}
  /\ current' = [d \in Controllers |-> FALSE]

\* Mutated form: the version is not sent.
ServeWriteBlindly(c) ==
  /\ stage[c] = "write"
  /\ stage' = [stage EXCEPT ![c] = "written"]
  /\ accepted' = [accepted EXCEPT ![c] = TRUE]
  /\ Apply(c, since[c])
  /\ UNCHANGED <<since, rest, belief, shutdown, loop, faults>>

\* The lease is created or patched, or the version is refused (409).  Its
\* renewTime is the time at which the tick began.
ServeWrite(c) ==
  /\ stage[c] = "write"
  /\ stage' = [stage EXCEPT ![c] = "written"]
  /\ accepted' = [accepted EXCEPT ![c] = current[c]]
  /\ IF current[c] THEN Apply(c, since[c]) ELSE UNCHANGED <<lease, strays, current>>
  /\ UNCHANGED <<since, rest, belief, shutdown, loop, faults>>

Answer(c) ==
  /\ stage[c] = "written"
  /\ Conclude(c, accepted[c])
  /\ UNCHANGED <<lease, strays, faults>>

\* The write of a sender that has given up is still on its way.
Abandon(c) ==
  strays' = IF stage[c] = "write" /\ current[c] THEN strays \cup {[by |-> c, age |-> since[c]]} ELSE strays

Fault ==
  /\ faults < MaxFaults
  /\ faults' = faults + 1

\* A request fails, or its answer is lost.
RequestFails(c) ==
  /\ stage[c] \in Requesting
  /\ Fault
  /\ Abandon(c)
  /\ Conclude(c, FALSE)
  /\ UNCHANGED lease

ServeStray(s) ==
  /\ Apply(s.by, s.age)
  /\ UNCHANGED <<stage, since, rest, accepted, belief, shutdown, loop, faults>>

\* onGainedLeadership returns, and the next tick is set.
FirstEvaluationEnds(c) ==
  /\ stage[c] = "gained"
  /\ stage' = [stage EXCEPT ![c] = IF closed[c] THEN "stopped" ELSE "wait"]
  /\ rest' = [rest EXCEPT ![c] = RenewInterval]
  /\ UNCHANGED <<lease, strays, since, current, accepted, belief, shutdown, loop, faults>>

-----------------------------------------------------------------------------
(* The control loop, shutdown, crashes.                                      *)

BeginEvaluation(c) ==
  /\ running[c]
  /\ evaluating' = [evaluating EXCEPT ![c] = TRUE]
  /\ due' = [due EXCEPT ![c] = MaxEvaluation]
  /\ UNCHANGED <<lease, strays, attempt, belief, shutdown, running, faults>>

\* The last of the evaluations in flight ends.
EndEvaluation(c) ==
  /\ evaluating[c]
  /\ evaluating' = [evaluating EXCEPT ![c] = FALSE]
  /\ due' = [due EXCEPT ![c] = 0]
  /\ UNCHANGED <<lease, strays, attempt, belief, shutdown, running, faults>>

Close(c) ==
  /\ stage[c] # "down" /\ ~closed[c]
  /\ Fault
  /\ closed' = [closed EXCEPT ![c] = TRUE]
  /\ exit' = [exit EXCEPT ![c] = MaxClose]
  /\ leader' = [leader EXCEPT ![c] = FALSE]
  /\ running' = [running EXCEPT ![c] = FALSE]
  /\ stage' = [stage EXCEPT ![c] = IF @ = "wait" THEN "stopped" ELSE @]
  /\ UNCHANGED <<lease, strays, since, rest, current, accepted, renewed, evaluating, due>>

Die(c) ==
  /\ Abandon(c)
  /\ stage' = [stage EXCEPT ![c] = "down"]
  /\ current' = [current EXCEPT ![c] = FALSE]
  /\ accepted' = [accepted EXCEPT ![c] = FALSE]
  /\ leader' = [leader EXCEPT ![c] = FALSE]
  /\ closed' = [closed EXCEPT ![c] = FALSE]
  /\ running' = [running EXCEPT ![c] = FALSE]
  /\ evaluating' = [evaluating EXCEPT ![c] = FALSE]
  /\ rest' = [rest EXCEPT ![c] = 0]
  /\ exit' = [exit EXCEPT ![c] = 0]
  /\ due' = [due EXCEPT ![c] = 0]
  /\ UNCHANGED <<lease, since, renewed>>

Exit(c) == closed[c] /\ Die(c) /\ UNCHANGED faults

\* A crash, or the rejection of onGainedLeadership, which nothing catches.
Crash(c) == stage[c] # "down" /\ Fault /\ Die(c)

Proceed(c) ==
  \/ Tick(c) \/ ServeGet(c) \/ Judge(c) \/ ServeWrite(c) \/ Answer(c)
  \/ FirstEvaluationEnds(c) \/ EndEvaluation(c) \/ Exit(c)

Next ==
  \/ TimePasses
  \/ \E c \in Controllers :
       \/ Start(c) \/ Proceed(c) \/ BeginEvaluation(c)
       \/ RequestFails(c) \/ Close(c) \/ Crash(c)
  \/ \E s \in strays : ServeStray(s)

Spec == Init /\ [][Next]_vars

\* Time passes, and what is due happens.
FairSpec ==
  /\ Spec
  /\ WF_vars(TimePasses)
  /\ \A c \in Controllers : WF_vars(Proceed(c))

-----------------------------------------------------------------------------
(* Properties.                                                               *)

\* No two controllers believe that they lead: neither one that is late to learn
\* that its lease was taken, nor one whose tick outlives its close().
OneLeader == \A c, d \in Controllers : leader[c] /\ leader[d] => c = d

\* No two controllers evaluate at the same time, although an evaluation goes on
\* when its controller leads no more.
OneReconciler == \A c, d \in Controllers : Reconciling(c) /\ Reconciling(d) => c = d

\* The lease is taken over: while some controller stays up, there is a leader
\* again and again, whatever crashes, failed requests and late writes came before.
SomeoneLeads ==
  (\E c \in Controllers : <>[](stage[c] # "down")) => []<>(\E c \in Controllers : leader[c])

\* Leadership does not go back and forth: each controller in the end leads for
\* good or not at all.
LeadershipSettles ==
  \A c \in Controllers : <>[]leader[c] \/ <>[]~leader[c]
=============================================================================
