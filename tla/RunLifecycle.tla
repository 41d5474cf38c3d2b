----------------------------- MODULE RunLifecycle -----------------------------
(***************************************************************************)
(* The life of one run: its row in the runs table, and everything that     *)
(* writes it.  The run is executed by processRun (packages/engine-core/src *)
(* /engine/run-processor.ts), kept alive by refreshRunHeartbeat, cancelled *)
(* by requestRunCancellation, and taken over by the recovery service       *)
(* (run-recovery.ts) when its worker dies, fails to drain in time, or an   *)
(* operator asks for it.                                                   *)
(*                                                                         *)
(* Every writer reads the whole row, changes some fields and writes the    *)
(* whole row back, with no version check, so a write puts back whatever    *)
(* the row held when it was read.  The executor and the recovery read and  *)
(* write in separate steps.  So do the heartbeat and the cancellation when *)
(* Overlapping names them; otherwise their write follows their read before *)
(* anything else happens.                                                  *)
(*                                                                         *)
(* The queue delivers the run to one executor at a time (RunWorker), so    *)
(* there is one executor here.  The queue itself is the number of times    *)
(* the run's id waits in it.  Any number of processes may recover the run, *)
(* at the same time too: nothing in the code reserves it for one of them.  *)
(***************************************************************************)
EXTENDS Naturals

CONSTANTS
  Strategy,       \* staleRunRecoveryStrategy
  DrainStrategy,  \* what a worker does with its runs when its drain times out
  MaxAttempts,    \* staleRunRecoveryMaxAttempts
  MaxCancels,     \* bound: cancellation requests
  MaxDrains,      \* bound: drain timeouts that hit the run
  MaxManual,      \* bound: manual requeues
  MaxDeliveries,  \* bound: how often the run's id waits in the queue at once
  MaxLostRecoveries, \* bound: processes that die while they recover the run
  Recoverers,     \* the processes that recover runs
  HasTimeout,     \* the agent's policy sets run_timeout_seconds
  Overlapping,    \* which of the short writers may be overtaken between read and write
  Faults          \* when the executor may die, see FaultKinds

\* "crash"        the executor dies after it recorded the run as running
\* "early_crash"  the executor dies between dequeueing the run and that
FaultKinds == {"crash", "early_crash"}

Strategies == {"fail", "requeue_running", "requeue_all"}

ASSUME LifecycleAssumption ==
  /\ Strategy \in Strategies /\ DrainStrategy \in Strategies
  /\ MaxAttempts \in Nat /\ MaxCancels \in Nat /\ MaxDrains \in Nat /\ MaxManual \in Nat
  /\ MaxDeliveries \in Nat \ {0} /\ MaxLostRecoveries \in Nat
  /\ HasTimeout \in BOOLEAN
  /\ Overlapping \subseteq {"heartbeat", "cancel"}
  /\ Faults \subseteq FaultKinds

VARIABLES
  row,          \* the run's row
  deliveries,   \* how often the run's id waits in the queue
  pc,           \* where processRun is
  snap,         \* the row as the executor last read it
  target,       \* the status the executor is about to record
  registered,   \* the run's AbortController is in runAbortControllers
  aborted,      \* that controller was aborted
  timedOut,     \* runTimedOut
  skip,         \* the run is in drainTimeoutRecoveredRuns
  beat,         \* the row a heartbeat in flight has read, or NoRow
  cancelling,   \* the row a cancellation in flight has read, or NoRow
  recovering,   \* where each recovery is
  parentEnded,  \* the parent run reached a terminal state that cancels its children
  cancels, drains, manuals, lostRecoveries,
  contested,    \* history: two writers of the status overlapped
  dropped       \* history: a queued run's last delivery died with its process

execVars == <<pc, snap, target, registered, aborted, timedOut, skip>>
boundVars == <<cancels, drains, manuals, lostRecoveries>>
history == <<contested, dropped>>
vars == <<row, deliveries, execVars, beat, cancelling, recovering, parentEnded, boundVars, history>>

Active == {"running", "waiting_tool"}
Terminal == {"completed", "failed", "cancelled", "timed_out"}
Statuses == {"queued"} \cup Active \cup Terminal

\* What the properties tell apart of a row: managed says that recovery metadata
\* exists, stale that heartbeatAt, or createdAt without a heartbeat, may be
\* older than the recovery's staleBefore.  A queued run has no heartbeat, and
\* may have waited for long.
Rows == [status : Statuses, cancel : BOOLEAN, attempts : Nat, managed : BOOLEAN, stale : BOOLEAN]
NoRow == [status |-> "none"]

Created == [status |-> "queued", cancel |-> FALSE, attempts |-> 0, managed |-> FALSE, stale |-> TRUE]

NotRecovering == [step |-> "none"]
Recoveries ==
  {NotRecovering}
    \cup [step : {"listed"}]
    \cup [step : {"write"}, kind : {"drain", "stale", "manual"}, snap : Rows]
    \cup [step : {"enqueue"}]

TypeOK ==
  /\ row \in Rows
  /\ deliveries \in Nat
  /\ pc \in {"idle", "begin", "starting", "stream", "tool", "finish", "record", "after"}
  /\ snap \in Rows
  /\ target \in {"none", "running", "waiting_tool"} \cup Terminal
  /\ registered \in BOOLEAN /\ aborted \in BOOLEAN /\ timedOut \in BOOLEAN /\ skip \in BOOLEAN
  /\ beat \in Rows \cup {NoRow}
  /\ cancelling \in Rows \cup {NoRow}
  /\ recovering \in [Recoverers -> Recoveries]
  /\ parentEnded \in BOOLEAN
  /\ cancels \in Nat /\ drains \in Nat /\ manuals \in Nat /\ lostRecoveries \in Nat
  /\ contested \in BOOLEAN /\ dropped \in BOOLEAN

\* The run was created, and its id was enqueued.
Init ==
  /\ row = Created
  /\ deliveries = 1
  /\ pc = "idle"
  /\ snap = Created
  /\ target = "none"
  /\ registered = FALSE /\ aborted = FALSE /\ timedOut = FALSE /\ skip = FALSE
  /\ beat = NoRow
  /\ cancelling = NoRow
  /\ recovering = [c \in Recoverers |-> NotRecovering]
  /\ parentEnded = FALSE
  /\ cancels = 0 /\ drains = 0 /\ manuals = 0 /\ lostRecoveries = 0
  /\ contested = FALSE /\ dropped = FALSE

CanTransition(from, to) ==
  \/ from = to
  \/ from = "queued" /\ to \in {"running", "cancelled", "failed"}
  \/ from \in Active /\ to \in (Active \cup Terminal) \ {from}

-----------------------------------------------------------------------------
(* processRun.                                                              *)

\* Its finally block: the heartbeat and the timeout are cleared, the
\* controller and the drain mark are forgotten.
Leave ==
  /\ pc' = "idle"
  /\ target' = "none"
  /\ registered' = FALSE /\ aborted' = FALSE /\ timedOut' = FALSE /\ skip' = FALSE
  /\ snap' = Created

others == <<beat, cancelling, recovering, parentEnded, boundVars, history>>

\* Mutated form: an empty queue is not noticed.
DeliverUnguarded ==
  /\ pc = "idle"
  /\ deliveries' = deliveries - 1
  /\ snap' = row
  /\ pc' = "begin"
  /\ UNCHANGED <<row, target, registered, aborted, timedOut, skip, others>>

\* A worker dequeued the run and processRun reads it.
Deliver ==
  /\ pc = "idle"
  /\ deliveries > 0
  /\ deliveries' = deliveries - 1
  /\ snap' = row
  /\ pc' = "begin"
  /\ UNCHANGED <<row, target, registered, aborted, timedOut, skip, others>>

\* A cancellation seen before the start: record it and leave.
BeginCancelled ==
  /\ pc = "begin"
  /\ snap.cancel
  /\ row' = IF snap.status # "cancelled" /\ CanTransition(snap.status, "cancelled")
            THEN [snap EXCEPT !.status = "cancelled"] ELSE row
  /\ Leave
  /\ UNCHANGED <<deliveries, others>>

\* Mutated form: a cancellation requested while the run was queued is ignored.
BeginUncancelled ==
  /\ pc = "begin"
  /\ CanTransition(snap.status, "running")
  /\ row' = [snap EXCEPT !.status = "running", !.stale = FALSE]
  /\ pc' = "starting"
  /\ UNCHANGED <<deliveries, snap, target, registered, aborted, timedOut, skip, others>>

Begin ==
  /\ pc = "begin"
  /\ ~snap.cancel
  /\ CanTransition(snap.status, "running")
  /\ row' = [snap EXCEPT !.status = "running", !.stale = FALSE]
  /\ pc' = "starting"
  /\ UNCHANGED <<deliveries, snap, target, registered, aborted, timedOut, skip, others>>

\* setRunStatus threw: the run ended meanwhile, or was delivered twice.
BeginRefused ==
  /\ pc = "begin"
  /\ ~snap.cancel
  /\ ~CanTransition(snap.status, "running")
  /\ Leave
  /\ UNCHANGED <<row, deliveries, others>>

\* run.started was recorded; the controller, the heartbeat and the timeout
\* are set up, and the model is called.
Register ==
  /\ pc = "starting"
  /\ registered' = TRUE
  /\ pc' = "stream"
  /\ UNCHANGED <<row, deliveries, snap, target, aborted, timedOut, skip, others>>

TimeOut ==
  /\ HasTimeout
  /\ registered
  /\ timedOut' = TRUE
  /\ aborted' = TRUE
  /\ UNCHANGED <<row, deliveries, pc, snap, target, registered, skip, others>>

\* Tool calls begin or end: setRunStatusIfPossible reads the row, checks the
\* transition and writes it with the new status.
SyncToolStatus(to) ==
  /\ pc = "stream"
  /\ row.status # to
  /\ CanTransition(row.status, to)
  /\ snap' = row
  /\ target' = to
  /\ pc' = "tool"
  /\ UNCHANGED <<row, deliveries, registered, aborted, timedOut, skip, others>>

RecordToolStatus ==
  /\ pc = "tool"
  /\ row' = [snap EXCEPT !.status = target]
  /\ target' = "none"
  /\ pc' = "stream"
  /\ UNCHANGED <<deliveries, snap, registered, aborted, timedOut, skip, others>>

\* The stream completed.  A run taken over by the drain is left alone.
CompleteStream ==
  /\ pc = "stream"
  /\ IF skip THEN Leave
     ELSE /\ pc' = "finish"
          /\ target' = "completed"
          /\ UNCHANGED <<snap, registered, aborted, timedOut, skip>>
  /\ UNCHANGED <<row, deliveries, others>>

\* processRun's catch: where an exception leads.
Catch ==
  IF skip THEN Leave
  ELSE /\ pc' = "finish"
       /\ target' = IF ~aborted THEN "failed" ELSE IF timedOut THEN "timed_out" ELSE "cancelled"
       /\ UNCHANGED <<snap, registered, aborted, timedOut, skip>>

\* The model, a tool, a hook or the abort signal threw.
Throw ==
  /\ pc \in {"stream", "after"}
  /\ Catch
  /\ UNCHANGED <<row, deliveries, others>>

\* Finalization reads the row ...
Finish ==
  /\ pc = "finish"
  /\ snap' = row
  /\ pc' = "record"
  /\ UNCHANGED <<row, deliveries, target, registered, aborted, timedOut, skip, others>>

AlreadyEnded == snap.status = target \/ (target = "failed" /\ snap.status = "timed_out")

\* Mutated form: the transition is not checked when the outcome is recorded.
RecordUnchecked ==
  /\ pc = "record"
  /\ row' = [snap EXCEPT !.status = target]
  /\ IF target = "completed"
     THEN /\ pc' = "after"
          /\ target' = "none"
          /\ UNCHANGED <<snap, registered, aborted, timedOut, skip>>
     ELSE Leave
  /\ UNCHANGED <<deliveries, others>>

\* ... and records the outcome, if the row it read allows it.
Record ==
  /\ pc = "record"
  /\ AlreadyEnded \/ CanTransition(snap.status, target)
  /\ row' = IF AlreadyEnded /\ target # "completed" THEN row
            ELSE [snap EXCEPT !.status = target, !.cancel = @ \/ target = "cancelled"]
  /\ IF target = "completed"
     THEN /\ pc' = "after"
          /\ target' = "none"
          /\ UNCHANGED <<snap, registered, aborted, timedOut, skip>>
     ELSE Leave
  /\ UNCHANGED <<deliveries, others>>

\* setRunStatus threw.  From finalizeSuccessfulRun the exception reaches the
\* catch block; from the catch block it leaves processRun.
RecordRefused ==
  /\ pc = "record"
  /\ ~AlreadyEnded /\ ~CanTransition(snap.status, target)
  /\ IF target = "completed" THEN Catch ELSE Leave
  /\ UNCHANGED <<row, deliveries, others>>

\* Events, hooks and the dispatch of the next run went well.
Return ==
  /\ pc = "after"
  /\ Leave
  /\ UNCHANGED <<row, deliveries, others>>

\* The worker's process dies.
Crash ==
  /\ \/ "crash" \in Faults /\ pc \notin {"idle", "begin"}
     \/ "early_crash" \in Faults /\ pc = "begin"
  /\ Leave
  /\ dropped' = (dropped \/ pc = "begin")
  /\ UNCHANGED <<row, deliveries, beat, cancelling, recovering, parentEnded, boundVars, contested>>

-----------------------------------------------------------------------------
(* The heartbeat.                                                           *)

Heartbeat ==
  /\ registered
  /\ beat = NoRow
  /\ row.status \in Active
  /\ IF "heartbeat" \in Overlapping
     THEN beat' = row /\ UNCHANGED row
     ELSE row' = [row EXCEPT !.stale = FALSE] /\ UNCHANGED beat
  /\ UNCHANGED <<deliveries, execVars, cancelling, recovering, parentEnded, boundVars, history>>

\* More than the heartbeat changed since the copy of the row was read.
Outdated(copy) == [copy EXCEPT !.stale = row.stale] # row

\* The heartbeat that read the row writes it, whatever happened since.
HeartbeatLands ==
  /\ beat # NoRow
  /\ row' = [beat EXCEPT !.stale = FALSE]
  /\ beat' = NoRow
  /\ contested' = (contested \/ Outdated(beat))
  /\ UNCHANGED <<deliveries, execVars, cancelling, recovering, parentEnded, boundVars, dropped>>

\* Nobody refreshed the run for longer than the recovery grace period: its
\* executor died, has not set its heartbeat up yet, or fails to write it, for
\* an error of the write is swallowed.
BecomeStale ==
  /\ row.status \in Active
  /\ ~row.stale
  /\ row' = [row EXCEPT !.stale = TRUE]
  /\ UNCHANGED <<deliveries, execVars, others>>

-----------------------------------------------------------------------------
(* requestRunCancellation.                                                  *)

\* Write the cancellation into the row r that was read, and abort the run if
\* it executes in the process that serves the request.
WriteCancellation(r) ==
  /\ row' = [r EXCEPT !.cancel = TRUE]
  /\ \E here \in BOOLEAN :
       aborted' = (aborted \/ (here /\ r.status \in Active /\ registered))
  /\ UNCHANGED <<pc, snap, target, registered, timedOut, skip>>

RequestCancellation ==
  /\ cancels < MaxCancels
  /\ cancelling = NoRow
  /\ row.status \in {"queued"} \cup Active
  /\ cancels' = cancels + 1
  /\ IF "cancel" \in Overlapping
     THEN cancelling' = row /\ UNCHANGED <<row, execVars>>
     ELSE WriteCancellation(row) /\ UNCHANGED cancelling
  /\ UNCHANGED <<deliveries, beat, recovering, parentEnded, drains, manuals, lostRecoveries, history>>

CancellationLands ==
  /\ cancelling # NoRow
  /\ WriteCancellation(cancelling)
  /\ cancelling' = NoRow
  /\ contested' = (contested \/ Outdated(cancelling))
  /\ UNCHANGED <<deliveries, beat, recovering, parentEnded, boundVars, dropped>>

ParentEnds ==
  /\ ~parentEnded
  /\ parentEnded' = TRUE
  /\ UNCHANGED <<row, deliveries, execVars, beat, cancelling, recovering, boundVars, history>>

-----------------------------------------------------------------------------
(* Recovery.                                                                *)

\* Mutated form: one attempt too many is allowed.
RequeuesOneMore(strategy, r) ==
  /\ strategy = "requeue_all" \/ (strategy = "requeue_running" /\ r.status = "running")
  /\ r.attempts <= MaxAttempts

\* tryRequeueRecoveredRun takes the run back to the queue.
Requeues(strategy, r) ==
  /\ strategy = "requeue_all" \/ (strategy = "requeue_running" /\ r.status = "running")
  /\ r.attempts < MaxAttempts

\* The rows that the three outcomes of a recovery write.
Cancelled(r) == [r EXCEPT !.status = "cancelled", !.cancel = TRUE]

Failed(r) == [r EXCEPT !.status = "failed", !.managed = TRUE]

Requeued(n) ==
  [status |-> "queued", cancel |-> FALSE, attempts |-> n, managed |-> TRUE, stale |-> TRUE]

\* Mutated form: the attempt is not counted.
RecoveredUncounted(kind, r) ==
  IF kind = "manual" THEN Requeued(r.attempts)
  ELSE IF kind = "stale" /\ (r.cancel \/ parentEnded) THEN Cancelled(r)
  ELSE IF Requeues(IF kind = "drain" THEN DrainStrategy ELSE Strategy, r) THEN Requeued(r.attempts)
  ELSE Failed(r)

\* The row that recovery makes of the row r it read.
Recovered(kind, r) ==
  IF kind = "manual" THEN Requeued(r.attempts)
  ELSE IF kind = "stale" /\ (r.cancel \/ parentEnded) THEN Cancelled(r)
  ELSE IF Requeues(IF kind = "drain" THEN DrainStrategy ELSE Strategy, r) THEN Requeued(r.attempts + 1)
  ELSE Failed(r)

\* Mutated form: a recovered run is not enqueued.
WriteRecoveryOnly(c, kind, r) ==
  /\ row' = Recovered(kind, r)
  /\ recovering' = [recovering EXCEPT ![c] = NotRecovering]

\* The row is written; a run set back to queued is enqueued afterwards.
WriteRecovery(c, kind, r) ==
  LET new == Recovered(kind, r) IN
  /\ row' = new
  /\ recovering' = [recovering EXCEPT ![c] = IF new.status = "queued" THEN [step |-> "enqueue"] ELSE NotRecovering]

\* What recovery leaves alone before it writes.
unread == <<row, deliveries, pc, snap, target, registered, timedOut, beat, cancelling, parentEnded,
            cancels, lostRecoveries, dropped>>

\* The first worker of a starting pool lists the runs whose heartbeat is too
\* old, whether or not somebody executes them ...
ListStaleRun(c) ==
  /\ recovering[c] = NotRecovering
  /\ row.status \in Active
  /\ row.stale
  /\ recovering' = [recovering EXCEPT ![c] = [step |-> "listed"]]
  /\ UNCHANGED <<unread, aborted, skip, drains, manuals, contested>>

\* Recovery of the given kind reads the row.  Somebody else may be between a
\* read and a write of it then: the executor, or another recovery.
ReadForRecovery(c, kind) ==
  /\ deliveries < MaxDeliveries
  /\ recovering' = [recovering EXCEPT ![c] = [step |-> "write", kind |-> kind, snap |-> row]]
  /\ contested' = (contested \/ pc # "idle" \/ \E d \in Recoverers : recovering[d].step = "write")
  /\ UNCHANGED unread

\* Mutated form: a listed run is recovered whatever became of it.
RecoverListedRun(c) ==
  /\ recovering[c].step = "listed"
  /\ ReadForRecovery(c, "stale")
  /\ UNCHANGED <<aborted, skip, drains, manuals>>

\* ... and reads each of them again; only the status is looked at then.
RecoverStaleRun(c) ==
  /\ recovering[c].step = "listed"
  /\ row.status \in Active
  /\ ReadForRecovery(c, "stale")
  /\ UNCHANGED <<aborted, skip, drains, manuals>>

SkipListedRun(c) ==
  /\ recovering[c].step = "listed"
  /\ row.status \notin Active
  /\ recovering' = [recovering EXCEPT ![c] = NotRecovering]
  /\ UNCHANGED <<unread, aborted, skip, drains, manuals, contested>>

\* The drain of the executor's process timed out: abort the execution.
RecoverAfterDrainTimeout(c) ==
  /\ drains < MaxDrains
  /\ recovering[c] = NotRecovering
  /\ pc # "idle"
  /\ row.status \in Active
  /\ drains' = drains + 1
  /\ skip' = (skip \/ registered)
  /\ aborted' = (aborted \/ registered)
  /\ ReadForRecovery(c, "drain")
  /\ UNCHANGED manuals

RequeueRun(c) ==
  /\ manuals < MaxManual
  /\ recovering[c] = NotRecovering
  /\ row.status \in {"failed", "timed_out"}
  /\ row.managed
  /\ manuals' = manuals + 1
  /\ ReadForRecovery(c, "manual")
  /\ UNCHANGED <<aborted, skip, drains>>

RecoveryLands(c) ==
  /\ recovering[c].step = "write"
  /\ WriteRecovery(c, recovering[c].kind, recovering[c].snap)
  /\ UNCHANGED <<deliveries, execVars, beat, cancelling, parentEnded, boundVars, history>>

EnqueueRecovered(c) ==
  /\ recovering[c].step = "enqueue"
  /\ deliveries' = deliveries + 1
  /\ recovering' = [recovering EXCEPT ![c] = NotRecovering]
  /\ UNCHANGED <<row, execVars, beat, cancelling, parentEnded, boundVars, history>>

\* The recovering process dies, perhaps between the write and the enqueue.
RecoveryCrash(c) ==
  /\ lostRecoveries < MaxLostRecoveries
  /\ recovering[c] # NotRecovering
  /\ lostRecoveries' = lostRecoveries + 1
  /\ recovering' = [recovering EXCEPT ![c] = NotRecovering]
  /\ dropped' = (dropped \/ recovering[c].step = "enqueue")
  /\ UNCHANGED <<row, deliveries, execVars, beat, cancelling, parentEnded, cancels, drains, manuals, contested>>

-----------------------------------------------------------------------------
StreamEnds == CompleteStream \/ (pc = "stream" /\ Throw)

ExecutorStep ==
  \/ Deliver \/ BeginCancelled \/ Begin \/ BeginRefused \/ Register
  \/ RecordToolStatus \/ Finish \/ Record \/ RecordRefused \/ Return

RecoveryStep(c) ==
  \/ ListStaleRun(c) \/ RecoverStaleRun(c) \/ SkipListedRun(c)
  \/ RecoverAfterDrainTimeout(c) \/ RequeueRun(c)
  \/ RecoveryLands(c) \/ EnqueueRecovered(c) \/ RecoveryCrash(c)

Next ==
  \/ ExecutorStep \/ CompleteStream \/ Throw \/ TimeOut
  \/ \E to \in Active : SyncToolStatus(to)
  \/ Crash
  \/ Heartbeat \/ HeartbeatLands \/ BecomeStale
  \/ RequestCancellation \/ CancellationLands \/ ParentEnds
  \/ \E c \in Recoverers : RecoveryStep(c)

Spec == Init /\ [][Next]_vars

\* Workers keep taking runs and executing them, a model stream ends, a write
\* in flight lands, and a recovery goes through the runs it listed.  Nothing
\* promises that a run is ever listed: a pool scans once, when it starts.
Fairness ==
  /\ WF_vars(ExecutorStep)
  /\ SF_vars(StreamEnds)
  /\ WF_vars(HeartbeatLands) /\ WF_vars(CancellationLands)
  /\ \A c \in Recoverers :
       WF_vars(RecoverStaleRun(c) \/ SkipListedRun(c) \/ RecoveryLands(c) \/ EnqueueRecovered(c))

FairSpec == Spec /\ Fairness

-----------------------------------------------------------------------------
(* Properties.  They name two things that may go wrong, each recorded in a  *)
(* history variable by the steps that do it and by no other:                *)
(*                                                                          *)
(*   contested  a recovery read the row while somebody executed the run (a  *)
(*              heartbeat was late, a drain timed out) or another recovery  *)
(*              was about to write it; or a heartbeat or a cancellation     *)
(*              wrote a copy of the row that was out of date                *)
(*   dropped    a process died between taking the run off the queue and     *)
(*              recording it as running, or between setting it back to      *)
(*              queued and enqueueing it                                    *)

\* The recoveries that will write the row or the queue whatever they find.
Holding == {c \in Recoverers : recovering[c].step \in {"write", "enqueue"}}

\* A run that completed or was cancelled stays so, unless two writers
\* overlapped: the lifecycle has no way out of these states, and nobody
\* executes the run again.
EndedIsFinal ==
  [][row.status \in {"completed", "cancelled"} => row'.status = row.status \/ contested']_vars

\* A run recorded as queued is on its way to an executor: its id is in the
\* queue, was just dequeued, or is about to be enqueued, unless it was dropped
\* or contested.  Recovery only looks at running rows, so a queued run without
\* a delivery waits for ever.
QueuedIsDelivered ==
  row.status = "queued" =>
    \/ deliveries > 0 \/ pc = "begin"
    \/ \E c \in Recoverers : recovering[c].step = "enqueue"
    \/ dropped \/ contested

\* Who may write the run's status next.  Waiting in the queue; taken by an
\* executor that has not started it; in execution; left by a dead executor,
\* for a recovery; set back and about to be enqueued; ended, for a manual
\* requeue at most; dropped, for nobody.
Waiting == /\ pc = "idle" /\ deliveries = 1 /\ row.status = "queued"
           /\ Holding = {}
Taken == /\ pc = "begin" /\ deliveries = 0 /\ row.status = "queued"
         /\ snap.status = "queued"
         /\ Holding = {}
Executing == /\ pc \in {"starting", "stream", "tool", "finish", "record"}
             /\ deliveries = 0 /\ row.status \in Active
             /\ pc \in {"tool", "record"} => snap.status = row.status
             /\ pc = "tool" => target \in Active
             /\ pc \in {"finish", "record"} => target \in Terminal
             /\ Holding = {}
Abandoned == /\ pc = "idle" /\ deliveries = 0 /\ row.status \in Active
             /\ \A c, d \in Holding : c = d
             /\ \A c \in Holding : /\ recovering[c].step = "write" /\ recovering[c].kind = "stale"
                                   /\ recovering[c].snap.status = row.status
Returning == /\ pc = "idle" /\ deliveries = 0 /\ row.status = "queued"
             /\ \E c \in Recoverers : Holding = {c} /\ recovering[c].step = "enqueue"
Ended == /\ deliveries = 0 /\ row.status \in Terminal
         /\ \A c, d \in Holding : c = d
         /\ \A c \in Holding : /\ pc = "idle"
                               /\ recovering[c].step = "write" /\ recovering[c].kind = "manual"
                               /\ row.status \in {"failed", "timed_out"}
         /\ pc \in {"idle", "after", "finish", "record"}
         /\ pc # "idle" => row.status = "completed"
         /\ pc \in {"finish", "record"} => target \in Terminal \ {"completed"}
         /\ pc = "record" => snap.status = "completed"
Dropped == /\ dropped
           /\ pc = "idle" /\ deliveries = 0 /\ row.status = "queued"
           /\ Holding = {}

\* Until two writers overlap, at most one party may change the run's status at
\* any time, and the status it acts on is the current one.  No lock or version
\* check says so: it follows from the order in which processRun, the recovery
\* and the queue hand the run to each other, crashes included.
OneOwner == contested \/ Waiting \/ Taken \/ Executing \/ Abandoned \/ Returning \/ Ended \/ Dropped

\* A run cancelled while it waits in the queue ends cancelled and is not
\* executed: processRun looks at the mark before it starts the run.
QueuedCancelHonoured ==
  (row.status = "queued" /\ row.cancel /\ pc = "idle") ~> (row.status = "cancelled" \/ contested \/ dropped)

\* A run cancelled just after it was recorded as running ends cancelled too.
StartingCancelHonoured == (row.cancel /\ pc = "starting") ~> row.status = "cancelled"

\* Automatic recovery is bounded: the counter kept in the row never passes
\* staleRunRecoveryMaxAttempts, whoever wrote the row last.
AttemptsBounded == row.attempts <= MaxAttempts

\* The executor died and no recovery has the run.
LeftBehind == /\ row.status \in Active
              /\ pc = "idle" /\ deliveries = 0
              /\ \A c \in Recoverers : recovering[c] = NotRecovering

\* A run settles: it ends for good, for attempts bound the automatic requeues,
\* or a dead executor leaves it active and no scan lists it any more, or it was
\* contested or dropped.  It is never handed round for ever, and no recovery
\* stops half way.
RunSettles == <>[](row.status \in Terminal \/ LeftBehind) \/ <>(contested \/ dropped)
=============================================================================
