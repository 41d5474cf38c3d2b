---------------------------- MODULE SessionDispatch ----------------------------
(***************************************************************************)
(* Which run of a session goes to the run queue next.                      *)
(*                                                                         *)
(* A session has its rows in the runs table, its entries in the table of   *)
(* pending runs, and its list in the run queue.  Whoever creates a run     *)
(* (createSessionMessage, delegateAgentRun, enqueueParentContinuation-     *)
(* IfReady, triggerActionRun, compactSession) reads the first two and then *)
(* hands the run to the queue or makes it wait in the pending table;       *)
(* dispatchNextQueuedRun moves one waiting run to the queue when a run     *)
(* ends.  Nothing locks the session: every await lets another process in.  *)
(*                                                                         *)
(* One executor consumes the session's queue (RunWorker shows that workers *)
(* take turns), and what happens to one row under overlapping writers is   *)
(* RunLifecycle's subject: here a row is read and written in one step.     *)
(* running stands for waiting_tool too, and ended for the four terminal    *)
(* statuses.                                                               *)
(***************************************************************************)
EXTENDS Naturals, Sequences, SequencesExt, FiniteSets

CONSTANTS
  Runs,        \* the runs that may be created in the session
  Mixes,       \* the kinds of runs that may come together, see RunKinds
  Guides,      \* guideQueuedRun requests
  Executor,    \* the worker that holds the session's lock
  Recovery,    \* the process that recovers and requeues runs
  MaxEvents,   \* bound: requests of users, faults and recoveries of live runs, together
  Faults       \* what may go wrong, see FaultKinds

\* "message"       createSessionMessage, runningRunBehavior "queue"
\* "interrupt"     createSessionMessage, runningRunBehavior "interrupt"
\* "child"         SubAgent on a session that exists
\* "continuation"  a parent is told that its subagents are done
\* "action"        triggerActionRun
\* "compact"       compactSession
RunKinds == {"message", "interrupt", "child", "continuation", "action", "compact"}

\* "crash"   the executor dies
\* "death"   another process dies, or one of its calls throws
\* "hook"    a hook, an event or a follow-up throws after the run's outcome is recorded
\* "unread"  a listing fails to read the run of a pending entry
FaultKinds == {"crash", "death", "hook", "unread"}

NoRun == "none"

ASSUME DispatchAssumption ==
  /\ Mixes \subseteq [Runs -> RunKinds]
  /\ Executor # Recovery
  /\ {Executor, Recovery} \cap (Runs \cup Guides) = {}
  /\ Runs \cap Guides = {}
  /\ NoRun \notin Runs
  /\ MaxEvents \in Nat
  /\ Faults \subseteq FaultKinds

Procs == Runs \cup Guides \cup {Executor, Recovery}

VARIABLES
  kind,      \* the kind of each run
  status,    \* runs.status
  cancel,    \* runs.cancel_requested_at is set
  pending,   \* session_pending_runs, in the order of position
  queue,     \* the session's list in the run queue
  pc,        \* where each process is; a run stands for the request that creates it
  reads,     \* which of the two reads of the session's state a process has done
  listed,    \* the pending runs it read
  found,     \* the active runs it read, or the runs it still has to cancel
  hand,      \* the run it is busy with
  starts,    \* how often each run was started
  managed,   \* runs whose rows have recovery metadata
  events,    \* how many of the bounded events came about
  crashes,   \* deaths of the executor
  retries,   \* requeues of runs that were being executed, or had ended
  lost,      \* history: runs that a step left in nobody's hands, see MessageNotForgotten
  missed     \* history: a step left the pending runs to nobody, see NothingStrandedOtherwise

local == <<reads, listed, found>>
bounds == <<managed, events, crashes, retries>>
vars == <<kind, status, cancel, pending, queue, pc, local, hand, starts, bounds, lost, missed>>

ReadKinds == {"pending", "rows"}

TypeOK ==
  /\ kind \in [Runs -> RunKinds]
  /\ status \in [Runs -> {"none", "queued", "running", "ended"}]
  /\ cancel \in [Runs -> BOOLEAN]
  /\ pending \in Seq(Runs) /\ queue \in Seq(Runs)
  /\ pc \in [Procs -> {"create", "read", "enqueue", "promote", "interrupt", "cancel",
                       "compact", "dispatch", "select", "delete", "handover",
                       "idle", "begin", "running", "done"}]
  /\ reads \in [Procs -> SUBSET ReadKinds]
  /\ listed \in [Procs -> SUBSET Runs]
  /\ found \in [Procs -> SUBSET Runs]
  /\ hand \in [Procs -> Runs \cup {NoRun}]
  /\ starts \in [Runs -> Nat]
  /\ managed \in SUBSET Runs
  /\ events \in Nat /\ crashes \in Nat /\ retries \in Nat
  /\ lost \in SUBSET Runs
  /\ missed \in BOOLEAN

\* delegateAgentRun and compactSession read the session's state before they
\* create the run, the others afterwards.
ReadsFirst(k) == k \in {"child", "compact"}

Init ==
  /\ kind \in Mixes
  /\ status = [r \in Runs |-> "none"]
  /\ cancel = [r \in Runs |-> FALSE]
  /\ pending = <<>> /\ queue = <<>>
  /\ pc = [p \in Procs |-> IF p \notin Runs THEN "idle"
                           ELSE IF ReadsFirst(kind[p]) THEN "read" ELSE "create"]
  /\ reads = [p \in Procs |-> {}]
  /\ listed = [p \in Procs |-> {}]
  /\ found = [p \in Procs |-> {}]
  /\ hand = [p \in Procs |-> NoRun]
  /\ starts = [r \in Runs |-> 0]
  /\ managed = {}
  /\ events = 0 /\ crashes = 0 /\ retries = 0
  /\ lost = {}
  /\ missed = FALSE

\* remove: the entry of a run is deleted.  run_id is the primary key, so there
\* is at most one.
Without(entries, r) ==
  IF r \in Range(entries) THEN RemoveAt(entries, CHOOSE i \in DOMAIN entries : entries[i] = r) ELSE entries

Event == events < MaxEvents /\ events' = events + 1

Goto(p, where) == pc' = [pc EXCEPT ![p] = where]

\* A process leaves the session's state unread, before it begins or reads again.
Forget(p) ==
  /\ reads' = [reads EXCEPT ![p] = {}]
  /\ listed' = [listed EXCEPT ![p] = {}]
  /\ found' = [found EXCEPT ![p] = {}]

\* hasActiveRunForSession: the rows that keep a session busy.
ActiveRows == {r \in Runs : status[r] \in {"queued", "running"} /\ ~cancel[r]}

\* Runs that will come to an end in the executor's hands.
InFlight ==
  Range(queue)
    \cup {hand[p] : p \in {q \in Procs : pc[q] = "handover"}}
    \cup {hand[p] : p \in {q \in {Executor} : pc[q] \in {"begin", "running"}}}

-----------------------------------------------------------------------------
(* getSessionQueueState.  session-engine.ts and compactSession ask for both  *)
(* answers at once, the others read the pending runs first.                  *)

Parallel(p) == p \in Guides \/ (p \in Runs /\ kind[p] = "compact")

ReadPending(p) ==
  /\ pc[p] \in {"read", "dispatch"}
  /\ "pending" \notin reads[p]
  /\ reads' = [reads EXCEPT ![p] = @ \cup {"pending"}]
  /\ listed' = [listed EXCEPT ![p] = Range(pending)]
  /\ UNCHANGED <<kind, status, cancel, pending, queue, pc, found, hand, starts, bounds, lost, missed>>

ReadRows(p) ==
  /\ pc[p] = "read"
  /\ "rows" \notin reads[p]
  /\ Parallel(p) \/ "pending" \in reads[p]
  /\ reads' = [reads EXCEPT ![p] = @ \cup {"rows"}]
  /\ found' = [found EXCEPT ![p] = ActiveRows \ {p}]
  /\ UNCHANGED <<kind, status, cancel, pending, queue, pc, listed, hand, starts, bounds, lost, missed>>

HaveRead(p) == pc[p] = "read" /\ reads[p] = ReadKinds
HasActiveRun(p) == found[p] \ listed[p] # {}
Busy(p) == HasActiveRun(p) \/ listed[p] # {}

-----------------------------------------------------------------------------
(* Requests that create a run.                                               *)

\* The row is inserted.  A delegated run knows by now where it goes, and an
\* action's run goes straight to the queue.
Create(r) ==
  /\ pc[r] = "create"
  /\ status' = [status EXCEPT ![r] = "queued"]
  /\ Goto(r, IF kind[r] = "action" THEN "enqueue" ELSE "read")
  /\ UNCHANGED <<kind, cancel, pending, queue, local, hand, starts, bounds, lost, missed>>

CreateChild(r) ==
  /\ HaveRead(r)
  /\ kind[r] = "child"
  /\ status[r] = "none"
  /\ status' = [status EXCEPT ![r] = "queued"]
  /\ UNCHANGED <<kind, cancel, pending, queue, pc, local, hand, starts, bounds, lost, missed>>

\* The row exists, and it is known whether the session is busy.
Decided(r) == HaveRead(r) /\ status[r] = "queued"

EnqueueDirectly(r) ==
  /\ pc[r] = "enqueue" \/ (Decided(r) /\ ~Busy(r))
  /\ queue' = Append(queue, r)
  /\ Goto(r, "done")
  /\ Forget(r)
  /\ UNCHANGED <<kind, status, cancel, pending, hand, starts, bounds, lost, missed>>

\* The run waits.  Nobody will dispatch it if what kept the session busy has
\* ended, and its dispatch has looked at the pending runs, since they were read.
Pend(r) ==
  /\ Decided(r) /\ Busy(r)
  /\ pending' = Append(pending, r)
  /\ missed' = (missed \/ (InFlight = {} /\ pc[Executor] = "idle"))
  /\ IF kind[r] = "interrupt"
     THEN Goto(r, "promote") /\ UNCHANGED local
     ELSE Goto(r, "done") /\ Forget(r)
  /\ UNCHANGED <<kind, status, cancel, queue, hand, starts, bounds, lost>>

\* compactSession refuses a busy session, and otherwise executes its run itself.
RefuseCompaction(r) ==
  /\ HaveRead(r)
  /\ kind[r] = "compact"
  /\ Busy(r)
  /\ Goto(r, "done")
  /\ Forget(r)
  /\ UNCHANGED <<kind, status, cancel, pending, queue, hand, starts, bounds, lost, missed>>

BeginCompaction(r) ==
  /\ HaveRead(r)
  /\ kind[r] = "compact"
  /\ ~Busy(r)
  /\ status' = [status EXCEPT ![r] = "running"]
  /\ Goto(r, "compact")
  /\ Forget(r)
  /\ UNCHANGED <<kind, cancel, pending, queue, hand, starts, bounds, lost, missed>>

\* The statuses an execution may leave behind: a recovery that set the row back
\* meanwhile makes the lifecycle refuse some outcomes.
Outcomes(r) == {"ended"} \cup ({status[r]} \cap {"queued"})

\* It ends without a look at the pending runs.
EndCompaction(r) ==
  /\ pc[r] = "compact"
  /\ \E s \in Outcomes(r) : status' = [status EXCEPT ![r] = s]
  /\ missed' = TRUE
  /\ Goto(r, "done")
  /\ UNCHANGED <<kind, cancel, pending, queue, local, hand, starts, bounds, lost>>

-----------------------------------------------------------------------------
(* Interrupting.  A message that interrupts and guideQueuedRun move their run *)
(* to the front and cancel what is active, or dispatch if nothing is.         *)

Target(p) == IF p \in Runs THEN p ELSE hand[p]

Guide(g, r) ==
  /\ Event
  /\ pc[g] = "idle"
  /\ r \in Range(pending)
  /\ hand' = [hand EXCEPT ![g] = r]
  /\ Goto(g, "read")
  /\ UNCHANGED <<kind, status, cancel, pending, queue, local, starts, managed, crashes, retries, lost, missed>>

Promote(p) ==
  /\ pc[p] = "promote" \/ (p \in Guides /\ HaveRead(p))
  /\ pending' = IF Target(p) \in Range(pending) THEN <<Target(p)>> \o Without(pending, Target(p)) ELSE pending
  /\ IF HasActiveRun(p)
     THEN Goto(p, "interrupt") /\ UNCHANGED local
     ELSE Goto(p, "dispatch") /\ Forget(p)
  /\ hand' = [hand EXCEPT ![p] = NoRun]
  /\ UNCHANGED <<kind, status, cancel, queue, starts, bounds, lost, missed>>

\* interruptActiveSessionRuns reads the rows again, but not the pending runs.
Interrupt(p) ==
  /\ pc[p] = "interrupt"
  /\ found' = [found EXCEPT ![p] = ActiveRows \ (listed[p] \cup {q \in {p} : q \in Runs})]
  /\ Goto(p, "cancel")
  /\ UNCHANGED <<kind, status, cancel, pending, queue, reads, listed, hand, starts, bounds, lost, missed>>

\* requestRunCancellation marks a run that has not ended.
Mark(r) == cancel' = [cancel EXCEPT ![r] = @ \/ status[r] \in {"queued", "running"}]

CancelFound(p, r) ==
  /\ pc[p] = "cancel"
  /\ r \in found[p]
  /\ Mark(r)
  /\ found' = [found EXCEPT ![p] = @ \ {r}]
  /\ UNCHANGED <<kind, status, pending, queue, pc, reads, listed, hand, starts, bounds, lost, missed>>

EndInterrupt(p) ==
  /\ pc[p] = "cancel"
  /\ found[p] = {}
  /\ Goto(p, "done")
  /\ Forget(p)
  /\ UNCHANGED <<kind, status, cancel, pending, queue, hand, starts, bounds, lost, missed>>

\* cancelRun, for a run that nobody may want any more.
CancelRun(r) ==
  /\ Event
  /\ status[r] \in {"queued", "running"}
  /\ Mark(r)
  /\ UNCHANGED <<kind, status, pending, queue, pc, local, hand, starts, managed, crashes, retries, lost, missed>>

-----------------------------------------------------------------------------
(* dispatchNextQueuedRun.                                                    *)

AfterDispatch(p) == IF p = Executor THEN "idle" ELSE "done"

\* The pending runs were read: go on unless a row keeps the session busy.  The
\* row may be of a run that was pended since, or that is about to be.
DispatchRows(p) ==
  LET active == ActiveRows \ listed[p] IN
  /\ pc[p] = "dispatch"
  /\ "pending" \in reads[p]
  /\ Forget(p)
  /\ IF active = {}
     THEN Goto(p, "select") /\ UNCHANGED missed
     ELSE Goto(p, AfterDispatch(p)) /\ missed' = (missed \/ active \cap InFlight = {})
  /\ UNCHANGED <<kind, status, cancel, pending, queue, hand, starts, bounds, lost>>

\* Mutated form: that there may be no entry is not considered.
SelectUnchecked(p) ==
  /\ pc[p] = "select"
  /\ Goto(p, "delete")
  /\ hand' = [hand EXCEPT ![p] = IF pending = <<>> THEN NoRun ELSE Head(pending)]
  /\ UNCHANGED <<kind, status, cancel, pending, queue, local, starts, bounds, lost, missed>>

\* dequeueNext selects the first entry ...
SelectNext(p) ==
  /\ pc[p] = "select"
  /\ IF pending = <<>>
     THEN Goto(p, AfterDispatch(p)) /\ UNCHANGED hand
     ELSE Goto(p, "delete") /\ hand' = [hand EXCEPT ![p] = Head(pending)]
  /\ UNCHANGED <<kind, status, cancel, pending, queue, local, starts, bounds, lost, missed>>

\* Mutated form: the entry is read and stays.
DeleteNothing(p) ==
  /\ pc[p] = "delete"
  /\ Goto(p, "handover")
  /\ UNCHANGED <<kind, status, cancel, pending, queue, local, hand, starts, bounds, lost, missed>>

\* ... and deletes it.  A second dispatcher that selected the same entry
\* deletes nothing and still returns it.
DeleteNext(p) ==
  /\ pc[p] = "delete"
  /\ pending' = Without(pending, hand[p])
  /\ Goto(p, "handover")
  /\ UNCHANGED <<kind, status, cancel, queue, local, hand, starts, bounds, lost, missed>>

\* enqueueRun, by a dispatcher or by the recovery.
HandOver(p) ==
  /\ pc[p] = "handover"
  /\ queue' = Append(queue, hand[p])
  /\ Goto(p, IF p = Recovery THEN "idle" ELSE AfterDispatch(p))
  /\ hand' = [hand EXCEPT ![p] = NoRun]
  /\ UNCHANGED <<kind, status, cancel, pending, local, starts, bounds, lost, missed>>

-----------------------------------------------------------------------------
(* The executor: processRun and the finalization of a run.                   *)

Take ==
  /\ pc[Executor] = "idle"
  /\ queue # <<>>
  /\ hand' = [hand EXCEPT ![Executor] = Head(queue)]
  /\ queue' = Tail(queue)
  /\ Goto(Executor, "begin")
  /\ UNCHANGED <<kind, status, cancel, pending, local, starts, bounds, lost, missed>>

\* The run was cancelled while it waited, or has ended: a delivery that starts
\* nothing.  Neither path dispatches the next run.
BeginNothing ==
  LET r == hand[Executor] IN
  /\ pc[Executor] = "begin"
  /\ cancel[r] \/ status[r] = "ended"
  /\ status' = [status EXCEPT ![r] = "ended"]
  /\ missed' = TRUE
  /\ hand' = [hand EXCEPT ![Executor] = NoRun]
  /\ Goto(Executor, "idle")
  /\ UNCHANGED <<kind, cancel, pending, queue, local, starts, bounds, lost>>

\* Mutated form: a run that has ended may be started again.
BeginAgain ==
  LET r == hand[Executor] IN
  /\ pc[Executor] = "begin"
  /\ ~cancel[r]
  /\ status' = [status EXCEPT ![r] = "running"]
  /\ starts' = [starts EXCEPT ![r] = @ + 1]
  /\ Goto(Executor, "running")
  /\ UNCHANGED <<kind, cancel, pending, queue, local, hand, bounds, lost, missed>>

Begin ==
  LET r == hand[Executor] IN
  /\ pc[Executor] = "begin"
  /\ ~cancel[r]
  /\ status[r] # "ended"
  /\ status' = [status EXCEPT ![r] = "running"]
  /\ starts' = [starts EXCEPT ![r] = @ + 1]
  /\ Goto(Executor, "running")
  /\ UNCHANGED <<kind, cancel, pending, queue, local, hand, bounds, lost, missed>>

\* Mutated form: finalization does not dispatch.
FinishOnly ==
  /\ pc[Executor] = "running"
  /\ status' = [status EXCEPT ![hand[Executor]] = "ended"]
  /\ hand' = [hand EXCEPT ![Executor] = NoRun]
  /\ Goto(Executor, "idle")
  /\ UNCHANGED <<kind, cancel, pending, queue, local, starts, bounds, lost, missed>>

\* The run completed, failed, timed out or was cancelled: the next one is
\* dispatched.
Finish ==
  /\ pc[Executor] = "running"
  /\ status' = [status EXCEPT ![hand[Executor]] = "ended"]
  /\ hand' = [hand EXCEPT ![Executor] = NoRun]
  /\ Goto(Executor, "dispatch")
  /\ UNCHANGED <<kind, cancel, pending, queue, local, starts, bounds, lost, missed>>

\* An action that completed, or a throw after the outcome was recorded: the
\* run ends and nothing is dispatched.  So it goes when a recovery took the run
\* over meanwhile: the outcome is refused, or not even tried after a drain.
FinishWithoutDispatch ==
  LET r == hand[Executor] IN
  /\ pc[Executor] = "running"
  /\ kind[r] = "action" \/ "hook" \in Faults \/ status[r] # "running"
  /\ \E s \in Outcomes(r) : status' = [status EXCEPT ![r] = s]
  /\ missed' = TRUE
  /\ hand' = [hand EXCEPT ![Executor] = NoRun]
  /\ Goto(Executor, "idle")
  /\ UNCHANGED <<kind, cancel, pending, queue, local, starts, bounds, lost>>

\* The executor dies.  The row of a run that it executes says so; a run that it
\* took off the queue or out of the pending table is gone from both.
Crash ==
  LET r == hand[Executor] IN
  /\ "crash" \in Faults
  /\ Event
  /\ pc[Executor] # "idle"
  /\ crashes' = crashes + 1
  /\ lost' = IF pc[Executor] \in {"begin", "handover"} THEN lost \cup {r} ELSE lost
  /\ missed' = (missed \/ ~(pc[Executor] = "running" /\ status[r] = "running"))
  /\ hand' = [hand EXCEPT ![Executor] = NoRun]
  /\ Goto(Executor, "idle")
  /\ Forget(Executor)
  /\ UNCHANGED <<kind, status, cancel, pending, queue, starts, managed, retries>>

\* Another process dies, or gives up because a call of it throws.  A request may
\* leave a row that it has put nowhere; a dispatcher or the recovery may leave a
\* run that it has taken from where it was.
Die(p) ==
  /\ "death" \in Faults
  /\ Event
  /\ p # Executor
  /\ pc[p] \notin {"idle", "done"}
  /\ lost' = IF p \in Runs /\ pc[p] \in {"read", "enqueue"} THEN lost \cup {p}
             ELSE IF pc[p] = "handover" THEN lost \cup {hand[p]} ELSE lost
  /\ missed' = (missed \/ pc[p] = "handover")
  /\ hand' = [hand EXCEPT ![p] = NoRun]
  /\ Goto(p, IF p = Recovery THEN "idle" ELSE "done")
  /\ Forget(p)
  /\ UNCHANGED <<kind, status, cancel, pending, queue, starts, managed, crashes, retries>>

-----------------------------------------------------------------------------
(* Recovery.  It looks at the row, never at whether somebody executes the     *)
(* run: a heartbeat may be late, a drain may time out.                        *)

Executes(r) == (pc[Executor] = "running" /\ hand[Executor] = r) \/ pc[r] = "compact"

\* The run is set back and enqueued.  A cancelled run is, if its worker drains.
Requeue(r) ==
  /\ pc[Recovery] = "idle"
  /\ status[r] = "running"
  /\ cancel[r] => Executes(r)
  /\ IF Executes(r) THEN Event /\ retries' = retries + 1 ELSE UNCHANGED <<events, retries>>
  /\ status' = [status EXCEPT ![r] = "queued"]
  /\ cancel' = [cancel EXCEPT ![r] = FALSE]
  /\ managed' = managed \cup {r}
  /\ hand' = [hand EXCEPT ![Recovery] = r]
  /\ Goto(Recovery, "handover")
  /\ UNCHANGED <<kind, pending, queue, local, starts, crashes, lost, missed>>

\* The run is out of attempts, or was cancelled: it ends without a dispatch.
RecoverAsEnded(r) ==
  /\ pc[Recovery] = "idle"
  /\ status[r] = "running"
  /\ status' = [status EXCEPT ![r] = "ended"]
  /\ managed' = managed \cup {r}
  /\ missed' = TRUE
  /\ UNCHANGED <<kind, cancel, pending, queue, pc, local, hand, starts, events, crashes, retries, lost>>

\* requeueRun: an operator sets back a run that ended after a recovery.  The
\* code wants it failed or timed out, which ended does not tell apart.
RequeueByHand(r) ==
  /\ Event
  /\ pc[Recovery] = "idle"
  /\ status[r] = "ended"
  /\ r \in managed
  /\ retries' = retries + 1
  /\ status' = [status EXCEPT ![r] = "queued"]
  /\ cancel' = [cancel EXCEPT ![r] = FALSE]
  /\ hand' = [hand EXCEPT ![Recovery] = r]
  /\ Goto(Recovery, "handover")
  /\ UNCHANGED <<kind, pending, queue, local, starts, managed, crashes, lost, missed>>

-----------------------------------------------------------------------------
(* listSessionQueuedRuns removes the entries it takes for stale: runs that   *)
(* are no longer queued, and runs that no message triggered.                 *)

ByMessage(r) == kind[r] \in {"message", "interrupt"}

\* Mutated form: a cancelled run's entry is stale too.
HealCancelledEntry(r) ==
  /\ r \in Range(pending)
  /\ status[r] # "queued" \/ cancel[r] \/ ~ByMessage(r)
  /\ pending' = Without(pending, r)
  /\ UNCHANGED <<kind, status, cancel, queue, pc, local, hand, starts, bounds, lost, missed>>

HealEntry(r) ==
  /\ r \in Range(pending)
  /\ status[r] # "queued" \/ ~ByMessage(r)
  /\ pending' = Without(pending, r)
  /\ UNCHANGED <<kind, status, cancel, queue, pc, local, hand, starts, bounds, lost, missed>>

\* The listing fails to read the run's row, takes that for a missing row, and
\* removes the entry of a run that waits.
HealUnread(r) ==
  /\ "unread" \in Faults
  /\ Event
  /\ r \in Range(pending)
  /\ pending' = Without(pending, r)
  /\ lost' = lost \cup {r}
  /\ UNCHANGED <<kind, status, cancel, queue, pc, local, hand, starts, managed, crashes, retries, missed>>

-----------------------------------------------------------------------------
Next ==
  \/ \E p \in Procs :
       \/ ReadPending(p) \/ ReadRows(p)
       \/ Promote(p) \/ Interrupt(p) \/ EndInterrupt(p)
       \/ \E r \in Runs : CancelFound(p, r)
       \/ DispatchRows(p) \/ SelectNext(p) \/ DeleteNext(p) \/ HandOver(p)
       \/ Die(p)
  \/ \E r \in Runs :
       \/ Create(r) \/ CreateChild(r) \/ EnqueueDirectly(r) \/ Pend(r)
       \/ RefuseCompaction(r) \/ BeginCompaction(r) \/ EndCompaction(r)
       \/ \E g \in Guides : Guide(g, r)
       \/ CancelRun(r)
       \/ Requeue(r) \/ RecoverAsEnded(r) \/ RequeueByHand(r)
       \/ HealEntry(r) \/ HealUnread(r)
  \/ Take \/ BeginNothing \/ Begin \/ Finish \/ FinishWithoutDispatch \/ Crash

Spec == Init /\ [][Next]_vars

-----------------------------------------------------------------------------
(* Properties.                                                               *)

\* Where a run that waits to be executed can be.
Placed(r) ==
  \/ r \in Range(pending) \cup Range(queue)
  \/ \E p \in Procs : hand[p] = r /\ pc[p] \in {"handover", "begin"}
  \/ pc[r] \in {"read", "enqueue"}

\* A message or an action that was accepted is not forgotten: as long as its
\* row is queued, the run is in the pending table, in the run queue, or in the
\* hands of somebody who will put it there, whoever dispatches, promotes,
\* cancels, lists or recovers meanwhile.  It is lost only if
\*   - the executor dies with it between taking it off the queue and recording
\*     it as running, or with the next run between dequeueNext and enqueueRun,
\*   - the request that created its row dies, or fails, before it enqueued or
\*     pended it,
\*   - another dispatcher or a recovery dies, or fails, just before enqueueRun,
\*   - a listing fails to read its row and removes its pending entry.
\* These are all the ways that single steps of the processes here lose a run;
\* writers of one row that overtake each other are RunLifecycle's subject.
MessageNotForgotten ==
  \A r \in Runs :
    status[r] = "queued" /\ kind[r] \in {"message", "interrupt", "action"} => Placed(r) \/ r \in lost

\* What subagent-orchestration.md says of a child run that waits in the pending
\* queue of its session: it is dispatched when the current one ends, so it is
\* still there.  listSessionQueuedRuns removes it as a stale entry.
WaitingRunKept ==
  \A r \in Runs : status[r] = "queued" => Placed(r) \/ r \in lost

\* A run that waits in the pending table is nowhere else and not yet started,
\* and it waits there once: no dispatcher puts a run in the queue while it can
\* be dispatched again.
PendingIsExclusive ==
  \A i \in DOMAIN pending :
    /\ status[pending[i]] = "queued"
    /\ pending[i] \notin InFlight
    /\ \A j \in DOMAIN pending : pending[i] = pending[j] => i = j

\* However often a run's id reaches the queue (two dispatchers that select the
\* same entry, a recovery and a dispatcher), the run is started once, and once
\* more for each time that the executor died, a recovery requeued it while it
\* was executed, or an operator requeued it.
StartedOncePerCrash == \A r \in Runs : starts[r] <= 1 + crashes + retries

\* Nothing in the session will move by itself.
Quiescent ==
  /\ queue = <<>>
  /\ pc[Executor] = "idle" /\ pc[Recovery] = "idle"
  /\ \A r \in Runs : /\ status[r] # "running"
                     /\ status[r] # "none" => pc[r] = "done"
  /\ \A g \in Guides : pc[g] \in {"idle", "done"}

\* A session whose runs have all ended leaves no run pending, unless one of
\* these steps came before:
\*   - a run was pended after what kept the session busy had ended,
\*   - a dispatch gave way to a run that was not in flight,
\*   - a delivery started nothing,
\*   - an action or a compaction ended, a recovery ended a run, or an execution
\*     ended whose run a recovery had taken over,
\*   - a hook or a follow-up threw after the outcome was recorded,
\*   - the executor died before it had recorded a run as running or after the
\*     run was no longer so, or another process died just before enqueueRun.
\* These are all the steps of the processes here that can strand a run.
NothingStrandedOtherwise == Quiescent /\ ~missed => pending = <<>>

\* What openapi.yaml and subagent-orchestration.md say: a message sent to a
\* busy session waits for its turn, and gets it when the active run ends.
NothingStranded == Quiescent => pending = <<>>
=============================================================================
