---------------------------- MODULE SessionSerial ----------------------------
(***************************************************************************)
(* What the queue and its workers promise, said without any of their       *)
(* machinery: the runs of one session execute one at a time, in the order  *)
(* they were submitted, and a run that was executed is not executed again. *)
(* A failure may interrupt the run in execution (it can then be submitted  *)
(* again) or lose the run at the head of the queue; it never reorders or   *)
(* duplicates one.                                                         *)
(***************************************************************************)
EXTENDS Sequences

CONSTANTS Sessions, Runs, SessionOf, None

VARIABLES
  pending,      \* per session, the submitted runs that have not begun
  executing,    \* per session, the run in execution, or None
  submitted,    \* every run ever submitted
  done,         \* the runs whose execution ended
  orphaned      \* the runs interrupted by a failure and not submitted again

serialVars == <<pending, executing, submitted, done, orphaned>>

Init ==
  /\ pending = [s \in Sessions |-> <<>>]
  /\ executing = [s \in Sessions |-> None]
  /\ submitted = {}
  /\ done = {}
  /\ orphaned = {}

Submit(r) ==
  /\ r \notin submitted \/ r \in orphaned
  /\ pending' = [pending EXCEPT ![SessionOf[r]] = Append(@, r)]
  /\ submitted' = submitted \cup {r}
  /\ orphaned' = orphaned \ {r}
  /\ UNCHANGED <<executing, done>>

Begin(s) ==
  /\ executing[s] = None
  /\ pending[s] # <<>>
  /\ executing' = [executing EXCEPT ![s] = Head(pending[s])]
  /\ pending' = [pending EXCEPT ![s] = Tail(@)]
  /\ UNCHANGED <<submitted, done, orphaned>>

Finish(s) ==
  /\ executing[s] # None
  /\ done' = done \cup {executing[s]}
  /\ executing' = [executing EXCEPT ![s] = None]
  /\ UNCHANGED <<pending, submitted, orphaned>>

Interrupt(s) ==
  /\ executing[s] # None
  /\ orphaned' = orphaned \cup {executing[s]}
  /\ executing' = [executing EXCEPT ![s] = None]
  /\ UNCHANGED <<pending, submitted, done>>

Lose(s) ==
  /\ executing[s] = None
  /\ pending[s] # <<>>
  /\ pending' = [pending EXCEPT ![s] = Tail(@)]
  /\ UNCHANGED <<executing, submitted, done, orphaned>>

Next ==
  \/ \E r \in Runs : Submit(r)
  \/ \E s \in Sessions : Begin(s) \/ Finish(s) \/ Interrupt(s) \/ Lose(s)

Spec == Init /\ [][Next]_serialVars
=============================================================================
