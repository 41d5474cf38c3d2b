------------------------------ MODULE RunWorker ------------------------------
(***************************************************************************)
(* The worker loops (RedisRunWorker of packages/storage-redis/src/         *)
(* run-worker.ts) over the session run queue, with the engine that         *)
(* enqueues runs and the placement registry that says which worker should  *)
(* serve a session as their environment.                                   *)
(*                                                                         *)
(* A worker claims a session from the ready list, takes the session's      *)
(* lock, drains the session's queue one run at a time, and releases the    *)
(* lock.  Every await is a place where the other workers, the engine and   *)
(* the clock may act, so every Redis command is a step of its own.  What   *)
(* the code does without an await after a command returns is part of that  *)
(* command's step.                                                         *)
(*                                                                         *)
(* Faults chooses the failures of an instance:                             *)
(*   "stall"  a lock lapses while its holder still drains (renewals late)  *)
(*   "close"  a worker is closed, by scale-down or by shutdown             *)
(*   "crash"  a worker's process dies                                      *)
(*   "redis"  a Redis command fails, before or after it took effect        *)
(*   "db"     describeQueuedRun fails                                      *)
(***************************************************************************)
EXTENDS SessionRunQueue

CONSTANTS
  SessionOf,      \* the session of each run
  Hints,          \* the preferred workers the placement registry hands out
  MaxMoves,       \* bound: placement changes in a behaviour
  Faults

FaultKinds == {"stall", "close", "crash", "redis", "db"}

ASSUME WorkerAssumption ==
  /\ SessionOf \in [Runs -> Sessions]
  /\ Hints \subseteq Targets \cup {None}
  /\ MaxMoves \in Nat
  /\ Faults \subseteq FaultKinds

VARIABLES
  pc,           \* where each worker's loop is
  active,       \* #active
  state,        \* #state, as published in the worker's lease
  session,      \* the claimed session (the loop's sessionId)
  candidate,    \* candidateRunId, the run that was peeked and described
  run,          \* runId, the run that was dequeued and is being processed
  hint,         \* preferredWorkerId of a rejected candidate
  placement,    \* the worker or instance that owns each session's workspace
  moves,        \* placement changes so far
  submitted,    \* runs handed to the queue
  done,         \* runs whose processing returned
  orphaned      \* runs in processing when their worker crashed

workerVars == <<pc, active, state, session, candidate, run, hint>>
envVars == <<placement, moves, submitted, done, orphaned>>
vars == <<queueVars, workerVars, envVars>>

Claiming == {"acquire", "restore"}
Draining == {"drain", "describe", "reject", "dequeue", "process"}
PCs == {"off", "recover", "top", "claim", "release", "abort", "closed", "crashed"}
         \cup Claiming \cup Draining
States == {"starting", "idle", "busy", "stopping"}

TypeOK ==
  /\ QueueTypeOK
  /\ pc \in [Workers -> PCs]
  /\ active \in [Workers -> BOOLEAN]
  /\ state \in [Workers -> States]
  /\ session \in [Workers -> Sessions \cup {None}]
  /\ candidate \in [Workers -> Runs \cup {None}]
  /\ run \in [Workers -> Runs \cup {None}]
  /\ hint \in [Workers -> Targets \cup {None}]
  /\ placement \in [Sessions -> Targets \cup {None}]
  /\ moves \in Nat
  /\ submitted \in SUBSET Runs
  /\ done \in SUBSET Runs
  /\ orphaned \in SUBSET Runs

Init ==
  /\ QueueInit
  /\ pc = [w \in Workers |-> "off"]
  /\ active = [w \in Workers |-> FALSE]
  /\ state = [w \in Workers |-> "starting"]
  /\ session = [w \in Workers |-> None]
  /\ candidate = [w \in Workers |-> None]
  /\ run = [w \in Workers |-> None]
  /\ hint = [w \in Workers |-> None]
  /\ placement \in [Sessions -> Hints]
  /\ moves = 0
  /\ submitted = {}
  /\ done = {}
  /\ orphaned = {}

-----------------------------------------------------------------------------
(* The environment.                                                         *)

\* The engine enqueues a new run, or recovery enqueues an orphaned one.  The
\* preferred worker is read from the placement registry some time before the
\* script runs, so any value may arrive.
EnqueueRun(r, prio, p) ==
  /\ r \notin submitted \/ r \in orphaned
  /\ Enqueue(SessionOf[r], r, prio, p)
  /\ submitted' = submitted \cup {r}
  /\ orphaned' = orphaned \ {r}
  /\ UNCHANGED <<workerVars, placement, moves, done>>

\* A workspace changes owner, or its preferred worker changes.
MovePlacement(s, p) ==
  /\ moves < MaxMoves
  /\ placement[s] # p
  /\ placement' = [placement EXCEPT ![s] = p]
  /\ moves' = moves + 1
  /\ UNCHANGED <<queueVars, workerVars, submitted, done, orphaned>>

\* The heartbeat set up after the lock is taken renews it every third of its
\* TTL until the drain loop is left.
Renewing(w, s) == session[w] = s /\ pc[w] \in Draining

LockExpires(s) ==
  /\ "stall" \in Faults \/ ~\E w \in Workers : lock[s] = w /\ Renewing(w, s)
  /\ ExpireSessionLock(s)
  /\ UNCHANGED <<workerVars, envVars>>

-----------------------------------------------------------------------------
(* Life of a worker.                                                        *)

Start(w) ==
  /\ pc[w] = "off"
  /\ pc' = [pc EXCEPT ![w] = "recover"]
  /\ active' = [active EXCEPT ![w] = TRUE]
  /\ UNCHANGED <<queueVars, state, session, candidate, run, hint, envVars>>

\* Start-up recovery has returned; the runs it requeued came through
\* EnqueueRun.  The state becomes idle even if the worker was closed meanwhile.
RecoverStaleRuns(w) ==
  /\ pc[w] = "recover"
  /\ pc' = [pc EXCEPT ![w] = "top"]
  /\ state' = [state EXCEPT ![w] = "idle"]
  /\ UNCHANGED <<queueVars, active, session, candidate, run, hint, envVars>>

\* The condition of the outer while loop.
LoopTop(w) ==
  /\ pc[w] = "top"
  /\ pc' = [pc EXCEPT ![w] = IF active[w] THEN "claim" ELSE "closed"]
  /\ UNCHANGED <<queueVars, active, state, session, candidate, run, hint, envVars>>

Close(w) ==
  /\ "close" \in Faults
  /\ active[w]
  /\ pc[w] \notin {"closed", "crashed"}
  /\ active' = [active EXCEPT ![w] = FALSE]
  /\ state' = [state EXCEPT ![w] = "stopping"]
  /\ UNCHANGED <<queueVars, pc, session, candidate, run, hint, envVars>>

\* The process dies: the run it was processing is left without an executor,
\* and its lock is left to its TTL.
Crash(w) ==
  /\ "crash" \in Faults
  /\ pc[w] \notin {"off", "closed", "crashed"}
  /\ pc' = [pc EXCEPT ![w] = "crashed"]
  /\ active' = [active EXCEPT ![w] = FALSE]
  /\ orphaned' = IF pc[w] = "process" THEN orphaned \cup {run[w]} ELSE orphaned
  /\ session' = [session EXCEPT ![w] = None]
  /\ candidate' = [candidate EXCEPT ![w] = None]
  /\ run' = [run EXCEPT ![w] = None]
  /\ hint' = [hint EXCEPT ![w] = None]
  /\ UNCHANGED <<queueVars, state, placement, moves, submitted, done>>

-----------------------------------------------------------------------------
(* Claiming a session and taking its lock.                                  *)

\* claimNextSession returned a session.
ClaimSession(w) ==
  /\ pc[w] = "claim"
  /\ \E i \in 1 .. Len(readyList) :
       /\ ClaimCompatibleSession(w, i)
       /\ session' = [session EXCEPT ![w] = readyList[i]]
  /\ pc' = [pc EXCEPT ![w] = "acquire"]
  /\ UNCHANGED <<active, state, candidate, run, hint, envVars>>

\* Nothing to claim: poll again inside claimNextSession, which does not look
\* at #active, or return to the loop when the deadline has passed.
ClaimMisses(w) ==
  /\ pc[w] = "claim"
  /\ ClaimNothing(w)
  /\ \E next \in {"claim", "top"} : pc' = [pc EXCEPT ![w] = next]
  /\ UNCHANGED <<active, state, session, candidate, run, hint, envVars>>

\* The claim failed; its script may have popped a session nobody will serve.
ClaimFails(w) ==
  /\ "redis" \in Faults
  /\ pc[w] = "claim"
  /\ \/ UNCHANGED queueVars
     \/ ClaimNothing(w)
     \/ \E i \in 1 .. Len(readyList) : ClaimCompatibleSession(w, i)
  /\ pc' = [pc EXCEPT ![w] = "top"]
  /\ UNCHANGED <<active, state, session, candidate, run, hint, envVars>>

\* Mutated form: the lock is taken to be free without asking Redis.
AcquireWithoutLock(w) ==
  /\ pc[w] = "acquire"
  /\ pc' = [pc EXCEPT ![w] = "drain"]
  /\ state' = [state EXCEPT ![w] = "busy"]
  /\ UNCHANGED <<queueVars, active, session, candidate, run, hint, envVars>>

\* The lock is taken; the worker turns busy, even if it was closed meanwhile.
AcquireLock(w) ==
  /\ pc[w] = "acquire"
  /\ TryAcquireSessionLock(session[w], w)
  /\ pc' = [pc EXCEPT ![w] = "drain"]
  /\ state' = [state EXCEPT ![w] = "busy"]
  /\ UNCHANGED <<active, session, candidate, run, hint, envVars>>

\* Mutated form: losing the race for the lock drops the claim.
DropContendedClaim(w) ==
  /\ pc[w] = "acquire"
  /\ lock[session[w]] # None
  /\ pc' = [pc EXCEPT ![w] = "top"]
  /\ session' = [session EXCEPT ![w] = None]
  /\ UNCHANGED <<queueVars, active, state, candidate, run, hint, envVars>>

LoseRaceForLock(w) ==
  /\ pc[w] = "acquire"
  /\ lock[session[w]] # None
  /\ pc' = [pc EXCEPT ![w] = "restore"]
  /\ UNCHANGED <<queueVars, active, state, session, candidate, run, hint, envVars>>

\* The SET failed: the claim is dropped, and the lock may have been set.
AcquireFails(w) ==
  /\ "redis" \in Faults
  /\ pc[w] = "acquire"
  /\ UNCHANGED queueVars \/ TryAcquireSessionLock(session[w], w)
  /\ pc' = [pc EXCEPT ![w] = "top"]
  /\ session' = [session EXCEPT ![w] = None]
  /\ UNCHANGED <<active, state, candidate, run, hint, envVars>>

\* restoreClaimedSession after the lock was lost to another worker.
RestoreClaim(w) ==
  /\ pc[w] = "restore"
  /\ RequeueSessionIfPending(session[w], None)
  /\ pc' = [pc EXCEPT ![w] = "top"]
  /\ session' = [session EXCEPT ![w] = None]
  /\ UNCHANGED <<active, state, candidate, run, hint, envVars>>

RestoreClaimFails(w) ==
  /\ "redis" \in Faults
  /\ pc[w] = "restore"
  /\ pc' = [pc EXCEPT ![w] = "top"]
  /\ session' = [session EXCEPT ![w] = None]
  /\ UNCHANGED <<queueVars, active, state, candidate, run, hint, envVars>>

-----------------------------------------------------------------------------
(* Draining the claimed session.                                            *)

\* Leaving the drain loop: the heartbeat is cleared and the state published.
LeaveDrain(w, next) ==
  /\ pc' = [pc EXCEPT ![w] = next]
  /\ state' = [state EXCEPT ![w] = IF active[w] THEN "idle" ELSE "stopping"]
  /\ candidate' = [candidate EXCEPT ![w] = None]
  /\ hint' = [hint EXCEPT ![w] = None]
  /\ UNCHANGED <<active, session, run, envVars>>

\* Mutated form: the peek returns the list of runs, not its first element.
PeekRunList(w) ==
  /\ pc[w] = "drain"
  /\ active[w]
  /\ Pending(session[w])
  /\ candidate' = [candidate EXCEPT ![w] = queue[session[w]]]
  /\ pc' = [pc EXCEPT ![w] = "describe"]
  /\ UNCHANGED <<queueVars, active, state, session, run, hint, envVars>>

\* The inner while loop looks at #active, then peeks.
PeekRun(w) ==
  /\ pc[w] = "drain"
  /\ active[w]
  /\ Pending(session[w])
  /\ candidate' = [candidate EXCEPT ![w] = Head(queue[session[w]])]
  /\ pc' = [pc EXCEPT ![w] = "describe"]
  /\ UNCHANGED <<queueVars, active, state, session, run, hint, envVars>>

StopDraining(w) ==
  /\ pc[w] = "drain"
  /\ ~active[w] \/ ~Pending(session[w])
  /\ LeaveDrain(w, "release")
  /\ UNCHANGED queueVars

\* peekRun threw: the exception leaves both loops, through the release.
PeekFails(w) ==
  /\ "redis" \in Faults
  /\ pc[w] = "drain"
  /\ active[w]
  /\ LeaveDrain(w, "abort")
  /\ UNCHANGED queueVars

MatchesWorker(w, p) == p \in {w, InstanceOf[w]}

\* describeQueuedRun: the candidate may run here.
DescribeRun(w) ==
  /\ pc[w] = "describe"
  /\ placement[session[w]] = None \/ MatchesWorker(w, placement[session[w]])
  /\ pc' = [pc EXCEPT ![w] = "dequeue"]
  /\ UNCHANGED <<queueVars, active, state, session, candidate, run, hint, envVars>>

\* describeQueuedRun: the candidate belongs to another worker.
RejectRun(w) ==
  /\ pc[w] = "describe"
  /\ placement[session[w]] # None
  /\ ~MatchesWorker(w, placement[session[w]])
  /\ hint' = [hint EXCEPT ![w] = placement[session[w]]]
  /\ pc' = [pc EXCEPT ![w] = "reject"]
  /\ UNCHANGED <<queueVars, active, state, session, candidate, run, envVars>>

\* describeQueuedRun threw: the session is restored without a hint.
DescribeFails(w) ==
  /\ "db" \in Faults
  /\ pc[w] = "describe"
  /\ pc' = [pc EXCEPT ![w] = "reject"]
  /\ UNCHANGED <<queueVars, active, state, session, candidate, run, hint, envVars>>

\* restoreClaimedSession while the lock is still held, then leave the loop.
RestoreRejected(w) ==
  /\ pc[w] = "reject"
  /\ RequeueSessionIfPending(session[w], hint[w])
  /\ LeaveDrain(w, "release")

RestoreRejectedFails(w) ==
  /\ "redis" \in Faults
  /\ pc[w] = "reject"
  /\ LeaveDrain(w, "release")
  /\ UNCHANGED queueVars

\* The worker turns busy again, even if it was closed since the peek.
Dequeue(w) ==
  /\ pc[w] = "dequeue"
  /\ DequeueRun(session[w])
  /\ run' = [run EXCEPT ![w] = Head(queue[session[w]])]
  /\ pc' = [pc EXCEPT ![w] = "process"]
  /\ state' = [state EXCEPT ![w] = "busy"]
  /\ UNCHANGED <<active, session, candidate, hint, envVars>>

\* Mutated form: the peeked candidate is processed when nothing was dequeued.
DequeueFallsBack(w) ==
  /\ pc[w] = "dequeue"
  /\ ~Pending(session[w])
  /\ run' = [run EXCEPT ![w] = candidate[w]]
  /\ pc' = [pc EXCEPT ![w] = "process"]
  /\ state' = [state EXCEPT ![w] = "busy"]
  /\ UNCHANGED <<queueVars, active, session, candidate, hint, envVars>>

\* Somebody else emptied the queue since the peek.
DequeueFindsNothing(w) ==
  /\ pc[w] = "dequeue"
  /\ ~Pending(session[w])
  /\ LeaveDrain(w, "release")
  /\ UNCHANGED queueVars

\* dequeueRun threw; the run may have been popped all the same.
DequeueFails(w) ==
  /\ "redis" \in Faults
  /\ pc[w] = "dequeue"
  /\ UNCHANGED queueVars \/ DequeueRun(session[w])
  /\ LeaveDrain(w, "abort")

\* processQueuedRun returned or threw; an error is logged and the loop goes on.
ProcessRun(w) ==
  /\ pc[w] = "process"
  /\ done' = done \cup {run[w]}
  /\ pc' = [pc EXCEPT ![w] = "drain"]
  /\ run' = [run EXCEPT ![w] = None]
  /\ candidate' = [candidate EXCEPT ![w] = None]
  /\ state' = [state EXCEPT ![w] = "busy"]
  /\ UNCHANGED <<queueVars, active, session, hint, placement, moves, submitted, orphaned>>

AfterRelease(w) ==
  /\ pc' = [pc EXCEPT ![w] = IF pc[w] = "abort" THEN "closed" ELSE "top"]
  /\ session' = [session EXCEPT ![w] = None]
  /\ UNCHANGED <<active, state, candidate, run, hint, envVars>>

ReleaseLock(w) ==
  /\ pc[w] \in {"release", "abort"}
  /\ ReleaseSessionLock(session[w], w)
  /\ AfterRelease(w)

ReleaseFails(w) ==
  /\ "redis" \in Faults
  /\ pc[w] \in {"release", "abort"}
  /\ UNCHANGED queueVars
  /\ AfterRelease(w)

-----------------------------------------------------------------------------
LoopStep(w) ==
  \/ RecoverStaleRuns(w) \/ LoopTop(w)
  \/ ClaimSession(w) \/ ClaimMisses(w)
  \/ AcquireLock(w) \/ LoseRaceForLock(w) \/ RestoreClaim(w)
  \/ PeekRun(w) \/ StopDraining(w)
  \/ DescribeRun(w) \/ RejectRun(w) \/ RestoreRejected(w)
  \/ Dequeue(w) \/ DequeueFindsNothing(w)
  \/ ProcessRun(w)
  \/ ReleaseLock(w)

FaultStep(w) ==
  \/ ClaimFails(w) \/ AcquireFails(w) \/ RestoreClaimFails(w)
  \/ PeekFails(w) \/ DescribeFails(w) \/ RestoreRejectedFails(w)
  \/ DequeueFails(w) \/ ReleaseFails(w)
  \/ Close(w) \/ Crash(w)

Next ==
  \/ \E r \in Runs, prio \in Priorities, p \in Hints : EnqueueRun(r, prio, p)
  \/ \E s \in Sessions, p \in Hints : MovePlacement(s, p)
  \/ \E s \in Sessions : LockExpires(s)
  \/ \E w \in Workers : Start(w) \/ LoopStep(w) \/ FaultStep(w)

Spec == Init /\ [][Next]_vars

\* The pool starts its workers, a worker's loop keeps running, and Redis
\* deletes a lock that nobody renews.
Fairness ==
  /\ \A w \in Workers : WF_vars(Start(w)) /\ WF_vars(LoopStep(w))
  /\ \A s \in Sessions : WF_vars(LockExpires(s))

FairSpec == Spec /\ Fairness

-----------------------------------------------------------------------------
(* Properties.                                                              *)

\* Some worker still has the session in hand: it will drain or restore it.
InHand(s) == \E w \in Workers : session[w] = s /\ pc[w] \in Claiming \cup Draining

\* A session recorded in the ready set is in the ready list, so a run that
\* finds its session recorded need not be announced (enqueueSessionRunScript).
ReadySetIsListed == readySet \subseteq Range(readyList)

\* A session with queued runs is in the ready list or in a worker's hand.
\* Nothing else ever looks at a session queue: runs queued behind the first
\* are not announced, so a session that is neither is stranded.
PendingIsReachable == \A s \in Sessions : Pending(s) => s \in Range(readyList) \/ InHand(s)

\* Two workers never drain one session at the same time, whatever closes,
\* crashes or fails, as long as renewals are on time.
SerialDrain ==
  \A v, w \in Workers :
    (v # w /\ pc[v] \in Draining /\ pc[w] \in Draining) => session[v] # session[w]

\* The run a worker processes is the one whose placement it checked: peek,
\* describe and dequeue are separate commands, and only the lock keeps the
\* head of the queue in place between them.
ProcessesInspectedRun == \A w \in Workers : pc[w] = "process" => run[w] = candidate[w]

\* A run is in one place only: once in one queue, or with one worker, or done,
\* or orphaned.  Holds even when a lapsed lock lets two workers drain together.
RunInOnePlace ==
  /\ \A s \in Sessions : \A i, j \in DOMAIN queue[s] : queue[s][i] = queue[s][j] => i = j
  /\ \A s \in Sessions : Range(queue[s]) \cap (done \cup orphaned) = {}
  /\ \A w \in Workers : pc[w] = "process" =>
       /\ run[w] \notin done \cup orphaned
       /\ \A s \in Sessions : run[w] \notin Range(queue[s])
       /\ \A v \in Workers : pc[v] = "process" /\ v # w => run[v] # run[w]

\* The autoscaler sees a backlog: a session with queued runs that nobody has
\* in hand and nobody has locked makes readySessionCount positive, even when
\* it is listed beyond the entries the pressure script samples.
PressureSeesBacklog ==
  (\E s \in Sessions : Pending(s) /\ ~InHand(s) /\ lock[s] = None)
    => SchedulingPressure.readySessionCount > 0

\* Without faults, or with lapsed locks only, every run handed to the queue is eventually processed.
EveryRunProcessed == \A r \in Runs : r \in submitted ~> r \in done

\* The run in execution of a session, when the session is drained serially.
Executing ==
  [s \in Sessions |->
     IF \E w \in Workers : pc[w] = "process" /\ session[w] = s
     THEN run[CHOOSE w \in Workers : pc[w] = "process" /\ session[w] = s]
     ELSE None]

Serial == INSTANCE SessionSerial WITH pending <- queue, executing <- Executing

\* With timely renewals the queue and its workers implement serial, in-order,
\* at-most-once execution per session, under every other fault.
ImplementsSerial == Serial!Spec
=============================================================================
