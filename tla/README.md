# OpenAgentHarness in TLA+

A verification development for the part of OpenAgentHarness that must not lose,
duplicate or reorder work, and for the processes that size, elect and clean up
around it: the run queue and its workers, the life of a run in the database, the
dispatch of a session's next run, the worker pool, the controller with its
leader election, and the local copies of workspaces. It consists of TLA+ modules
translated from the source, TLC runs on small instances, and TLAPS proofs for all
instances. `PROJECT.json` is the index: components, runs, the source lines of
every definition, findings, hazards and theorems.

## 1. The system

OpenAgentHarness runs AI agents for many users. A client posts a message to a
*session*; the engine creates a *run* for it; a worker process executes the run
by streaming a model's answer and running its tool calls. Redis holds the queue,
a database (PostgreSQL, SQLite or memory) holds runs, sessions and messages, and
a controller process sizes and places the workers.

| Component | State it keeps | Operations | Talks to | What makes it correct |
| --- | --- | --- | --- | --- |
| Session run queue (`storage-redis/src/run-queue.ts`) | per session: list of run ids, preferred worker, priority, lock; globally: ready list and ready set | Lua scripts enqueue, claim, requeue, dequeue, pressure; SET NX lock, renew, release | engine (enqueue), workers, autoscaler | no session with runs is forgotten; FIFO per session; the autoscaler sees the backlog |
| Run worker (`run-worker.ts`) | position in its loop, state, claimed session, run in hand | start, close, loop | queue, engine (describe, process, recover) | one worker per session; the run checked is the run executed; every run is processed |
| Worker pool and policy (`run-worker-pool.ts`, `worker-pool-policy.ts`) | workers, slots, streaks, cooldowns | start, close, rebalance | workers, queue pressure, registry | the size stays in bounds and follows the demand; it shrinks deliberately; close leaves nothing alive |
| Registries (worker, workspace lease, workspace placement) | leases with TTL, owner and preferred worker per workspace | heartbeat, acquire, release, assign | workers, controller, queue wrapper | ownership is unique; stale leases vanish |
| Run lifecycle (`engine-core/src/engine/run-state.ts`, `run-processor.ts`, `run-finalization.ts`) | the run's row, abort controllers, timers | processRun, finalize*, setRunStatus, heartbeat | database, model, tools, hooks | ended runs stay ended; cancellation is honoured; every run ends |
| Run recovery (`run-recovery.ts`, `worker-host.ts`) | attempt counter and metadata in the row | stale scan at worker start, drain timeout, manual requeue | database, queue, running executors | no run is lost; recoveries are bounded; one owner at a time |
| Session dispatch (`session-message-creation.ts`, `session-engine.ts`, `session-records.ts`) | pending-run table | createSessionMessage, guideQueuedRun, dispatchNextQueuedRun, interrupt, list | database, queue, cancellation | an accepted message is not forgotten; a waiting run is dispatched once, when the active one ends |
| Agent coordination (`agent-coordination*.ts`, `delegated-run-reporter.ts`) | records of child runs in the parent's metadata | delegate, await, report | runs, queue | waiting parents do not starve their children; a result is reported once |
| Controller: leader election (`apps/controller/src/leader-election.ts`, `index.ts`) | belief to lead, last renewal | tick, close | Kubernetes lease | one leader, one reconciler; the lease is taken over |
| Controller: scaling (`controller.ts`, `controller-placement.ts`, `scale-target-control`) | streaks, cooldowns, last snapshot | evaluateNow | registries, queue, probes, scale target | within limits; no replica removed without a probe; demand is met |
| Workspace materialization (`workspace-materialization.ts`, `object-storage.ts`) | entries with reference counts, dirty marks and fingerprints; the directory | acquireWorkspace, release, flush, evict, drain, close | object store, lease and placement registries | no released write is lost; a drain ends |
| Messages: projections, compaction, history | none (functions of lists) | project, compact, normalize | executor | a projection keeps order and tool pairing |
| Everything else (CLI, web, desktop, model providers, native helpers, HTTP) | | | | outside the models |

The hard behaviours are: several workers and one Redis, with a lock that is only
as good as its renewal; a queue in two layers that are kept consistent by three
scripts and by the workers' discipline; database rows that are read, changed and
written back whole, without versions; a pending table whose readers decide on
what they read some awaits ago; timers that start an evaluation while the one
before still runs; a lease that expires by other clocks than its holder's;
copies that are uploaded and removed while they are in use; and processes that
close, stall and die between any two of these steps. `PROJECT.json` lists them
as hazards, each at its line.

## 2. Modules

```
SessionRunQueue ── extended by ── RunWorker ── implements ── SessionSerial
                                     │  ├─ MCRunWorker           (instances for TLC)
                                     │  ├─ RunWorkerProofs       (types, ready set, no stranded session, one place per run)
                                     │  └─ RunWorkerMutexProofs  (mutual exclusion, refinement of SessionSerial)
RunLifecycle ──┬─ MCRunLifecycle
               └─ RunLifecycleProofs
SessionDispatch ──┬─ MCSessionDispatch
                  └─ SessionDispatchProofs
WorkerPoolPolicy ──┬─ extended by ── WorkerPool ── WorkerPoolProofs
                   └─ extended by ── ControllerScaling ── ControllerScalingProofs
LeaderElection ──┬─ MCLeaderElection
                 └─ LeaderElectionProofs
WorkspaceCopy ── WorkspaceCopyProofs
```

The modules divide one path of a run: SessionDispatch decides which run of a
session goes to the queue and assumes one executor per session, RunWorker shows
that the workers are one executor per session, RunLifecycle follows a single
row under all its writers. WorkerPool and ControllerScaling decide how many workers
there are, from the pressure that SessionRunQueue reports; LeaderElection decides
which controller does so.

**SessionRunQueue** has one operator for each Lua script or Redis command, which
Redis executes atomically. Absent keys are `None`. The operator of the claim
describes the whole rotation of a scan at once: the entry at position `i` is the
first compatible one, and the entries before it go to the back. Of the pressure
report the per-session counts are kept; per-entry counts and ages are not.

**RunWorker** composes the queue with any number of worker loops. A step is what
happens between two awaits: `pc` names the await a worker is at (`claim`,
`acquire`, `restore`, `drain` = before the peek, `describe`, `reject`, `dequeue`,
`process`, `release`; `abort` is the release on the way out of an uncaught
exception). `active` and `state` are the fields of the class. The lock's token
is unique for each acquisition; since a worker has one acquisition at a time, the
model writes the worker itself into the lock. The environment consists of
`EnqueueRun`, where the preferred worker is any hint, because it was read some
time before; `MovePlacement`; `LockExpires`; and the failures that `Faults` names.
A run is enqueued once, and again after the worker that processed it crashed:
who may enqueue it again, and when, is the subject of RunLifecycle.

**SessionSerial** says what both promise: each session is a FIFO and a place
where at most one run executes; a run is taken once unless it was interrupted.

**RunLifecycle** is about one run: its row, the number of times its id waits in
the queue, one executor (SerialDrain justifies one), and the other writers. The
row is reduced to its status, the cancellation mark, the recovery counter, and
whether recovery metadata exists and the heartbeat may be too old. Every writer
writes back the row it read. The executor's tool-status sync, its finalization
and the recoveries are always split into their read and their write; for the
heartbeat and the cancellation `Overlapping` says whether other steps may come
between. The cancellation aborts the executor only if it is served in the
executing process (`here`). A row may become stale at any time while it is
running, whether its executor died or its heartbeats were late or failed, since
`listRecoverableActiveRuns` looks at nothing else; and any number of processes
may recover it at the same time. Two history variables record what may go wrong
and are set by the steps that do it: `contested` (a recovery read the row while
the run was executed or while another recovery was about to write it; a
heartbeat or cancellation wrote a copy that was out of date) and `dropped` (a
process died between taking the id off the queue and recording `running`, or
between setting the row to `queued` and enqueueing the id).

**SessionDispatch** is one session: the status and the cancellation mark of each
of its runs, the pending table, its list in the run queue, and the processes that
read the first two and act on them. A creating request is named after its run; a
guide request, the executor (`Finish` is followed by `dispatchNextQueuedRun`) and
a recovery are the others. `getSessionQueueState` makes two reads in parallel, so
`reads` lets them happen in either order; `dequeueNext` is a select and a delete
(two statements at read-committed isolation). Runs of six kinds are distinguished
by how they enter the queue and whether they dispatch at their end. Any process may
die, or give up because a call throws, at any of its steps; a recovery may take a
run that is being executed, and an operator may requeue one that ended; a listing
may fail to read a row. Two history variables serve the properties: `lost` (the
step left a run in nobody's hands) and `missed` (the step left the pending runs to
nobody). The comments of `MessageNotForgotten` and `NothingStrandedOtherwise` list
the steps that set them.

**WorkerPoolPolicy** is `calculateRedisWorkerPoolSuggestion` as pure operators
over a pressure and a load, either of which may be unknown.

**WorkerPool** is one process's pool. `step` names the await of the single-flight
rebalance, `closing` that of `close()`; `loop` is each worker's loop reduced to
polling, busy, ended and dead (its queue calls threw); `slots` is what the pool
last heard from it, which is what a decision counts.

**ControllerScaling** is the leading controller. `evals` holds the evaluations in
flight, each with what it has read, suggested and decided; the streaks and cooldowns
are shared by them. The scale target is told a number
(`target`); how many replicas the registry lists when an evaluation reads it is
any number up to `MaxSeen`, fewer than asked for while they start or heartbeats
are late, more until the leases of those that are gone lapse. The probe of a
scale-down finds a blocker or not.

**LeaderElection** keeps times relative to the present: the age of the lease's
renewTime, of each tick's start and of the renewal a leader acts on, and the time
left until a timer or a bound. `TimePasses` is the only action that advances them
and waits for whoever is due. A write carries the version it read; `current` says
whether that version is still the lease's, and `strays` are writes whose sender
gave up. The start-up evaluation runs inside the tick (stage `gained`), the
later ones beside it (`evaluating`).

**WorkspaceCopy** is one object-store workspace in one process. A directory is the
set of writes it shows; an entry object outlives its place in the map while a
lease or a task has it. Each of upload, removal of the lease, `rm`, download and
publication may fail, and `rm` may fail half-way. `disturbed` is a history flag
for the overlaps the manager does not guard against: a lease asked for during an
eviction; a write released while an upload reads the directory, or whose mark
`dirty ||= await` overwrites; an eviction of a copy that is being downloaded or,
by force, in use; a drain that evicts an entry which is no longer the map's; an
`rm` that failed half-way.

Mapping in short (complete in `PROJECT.json`):

| Code | Model |
| --- | --- |
| `processRun` up to the status write | `RunLifecycle`: `Deliver`, `BeginCancelled`, `Begin`, `BeginRefused` |
| controller, heartbeat, timeout set up | `Register`, `TimeOut`, `Heartbeat`, `HeartbeatLands` |
| stream, tools | `SyncToolStatus`, `RecordToolStatus`, `CompleteStream`, `Throw` |
| `finalize*`, the catch and the finally block | `Catch`, `Finish`, `Record`, `RecordRefused`, `Return`, `Leave` |
| `recoverStaleRuns` | `ListStaleRun`, `RecoverStaleRun`, `SkipListedRun`, `RecoveryLands`, `EnqueueRecovered` |
| `recoverRunAfterDrainTimeout`, `requeueRun` | `RecoverAfterDrainTimeout`, `RequeueRun`, then as above |
| `requestRunCancellation` | `RequestCancellation`, `CancellationLands` |
| `createSessionMessage`, `delegateAgentRun`, `enqueueParentContinuationIfReady`, `triggerActionRun`, `compactSession` | `SessionDispatch`: `Create`, `CreateChild`, `ReadPending`, `ReadRows`, `EnqueueDirectly`, `Pend`, `BeginCompaction`, `EndCompaction`, `RefuseCompaction` |
| `guideQueuedRun`, `#interruptActiveSessionRuns`, `cancelRun` | `Guide`, `Promote`, `Interrupt`, `CancelFound`, `EndInterrupt`, `CancelRun` |
| `dispatchNextQueuedRun`, `dequeueNext` | `DispatchRows`, `SelectNext`, `DeleteNext`, `HandOver` |
| `listSessionQueuedRuns` | `HealEntry`, `HealUnread` |
| recovery and manual requeue, as the session sees them | `Requeue`, `RecoverAsEnded`, `RequeueByHand` |
| deaths and throwing calls | `Crash`, `Die` |
| `#scheduleRebalance`, `#rebalance`, `#desiredWorkerCount` | `WorkerPool`: `Tick`, `ReadPressure`, `Decide`, `OpenQueue`, `AddWorker`, `RemoveWorker`, `Removed`, `EndRebalance` |
| pool `close` | `Close`, `CloseWorkers`, `Closed`, `CloseThrows` |
| `evaluateNow` | `ControllerScaling`: `Tick`, `Read`, `Sample`, `Gate`, then the scale target's `Observe`, `Patch`, `End` |
| `#tick`, `#acquireOrRenewLeadership` | `LeaderElection`: `Tick`, `ServeGet`, `Judge`, `ServeWrite`, `Answer`, `RequestFails` |
| `onGainedLeadership`, the control loop's timer | `FirstEvaluationEnds`, `BeginEvaluation`, `EndEvaluation` |
| `acquireWorkspace` | `WorkspaceCopy`: `Ask`, `AcquireNew`, `AcquireEntry`, `AcquireCopy`, `Loaded`, `Published` |
| `release` | `Release`, `ReleaseDirty`, `Hash`, `Compare`, `Released` |
| flush, evict, drain, close | `FlushCopies`, `EvictCopies`, `EvictAnyway`, `BeginDrain`, `DrainPass`, `Uploaded`, `Unleased`, `Evicted` |

Operators introduced by the comment "Mutated form" are variants with a plausible
bug; no specification uses them. Each property is checked to fail when its
variant replaces the original.

## 3. Runs

| Run | Instance | Shows |
| --- | --- | --- |
| `worker` | 2 sessions, 3 runs, 2 workers in 2 processes, a pressure scan of one entry; stalls; fair | `ReadySetIsListed`, `PendingIsReachable`, `RunInOnePlace`, `PressureSeesBacklog`, `EveryRunProcessed` hold |
| `worker_faults` | 1 session, 3 interchangeable runs (symmetry), 2 workers, one placement move; close, crash, Redis and database failures, renewals on time | `TypeOK`, `SerialDrain`, `ProcessesInspectedRun`, refinement `ImplementsSerial` hold |
| `lifecycle_recovery` | 2 recovering processes, 1 attempt, 1 cancellation that may be overtaken, 1 drain timeout, 1 manual requeue, timeout, crashes everywhere, 1 lost recovery; uncontested states only; fair | `QueuedCancelHonoured`, `RunSettles` hold |
| `lifecycle_overlap` | the same with the heartbeat overtaken too and the strategy `requeue_all`; the recovering processes are interchangeable (symmetry); 2.4 million states | `TypeOK`, `AttemptsBounded`, `QueuedIsDelivered`, `OneOwner`, `EndedIsFinal` hold |
| `lifecycle_cancel` | one cancellation, fair | `StartingCancelHonoured` is violated |
| `dispatch` | 3 runs in four mixes (message, delegated run, message; action, delegated run, message; compaction, delegated run, interrupting message; compaction, message, interrupting message), 1 guide, 1 event (a guide, a cancellation, the death of any process, a requeue of a live or ended run, or a failed read), throwing hooks; 1.6 million states | `TypeOK`, `MessageNotForgotten`, `PendingIsExclusive`, `StartedOncePerCrash`, `NothingStrandedOtherwise` hold |
| `dispatch_listing` | a message and a parent's continuation | `WaitingRunKept` is violated |
| `pool` | 1 to 2 workers (3 ids), 2 sessions, 1 remote worker, 1 failing call, windows of 2; fair | `TypeOK`, `ClosedIsQuiet`, `BusyIsLocal`, `WithinBounds`, `ShrinkIsDeliberate`, `PoolFollowsDemand`, `CloseEnds` hold |
| `leader` | 2 controllers, one clock ahead by 1, duration 7, 2 faults; fair; deadlock checked | `TypeOK`, `OneLeader`, `OneReconciler`, `SomeoneLeads`, `LeadershipSettles` hold |
| `scaling` | 1 to 2 replicas, up to 3 listed, 2 evaluations in flight, any load up to 2, 1 fault, windows of 2; fair | `TypeOK`, `LimitsKept`, `ReplicasFollowDemand` hold |
| `scaling_gate` | the same with one evaluation | `ShrinkIsProbed` is violated |
| `copy` | 2 users, 1 task, 2 entry objects, 2 leases, 2 writes, 1 failure; fair; 1 million states | `TypeOK`, `NothingLostOtherwise`, `DrainConverges` hold |

### Bounds

Two workers are enough for every race over a lock or a list entry; two runs in
one session give order, "not the first run" and a queue that is emptied, and a
third one lets two workers that drained together both take a run (which
`worker_faults` excludes); the second session gives rotation, and with a scan
limit of one entry the pressure report meets a list longer than it looks at.
`MaxMoves` bounds placement changes: one is enough to reject a run after it was
claimed. In RunLifecycle `MaxCancels`, `MaxDrains` and `MaxManual` bound external
requests and `MaxDeliveries` the copies of the id in the queue. The last one is
needed: a late write may put back a row with an older counter, so the number of
requeues, unlike the counter, is not bounded by the attempts. `MaxLostRecoveries`
bounds the deaths of recovering processes. Two recoverers give every race of two
recoveries. Two state constraints keep the runs small (module MCRunLifecycle).
`MCUncontested` drops contested states from `lifecycle_recovery`: contested is for
ever and both properties of that run excuse it, so no behaviour that could
violate them is cut. `MCFollowed` lets `lifecycle_overlap` follow a contested run
only without cancellations, timeouts, manual requeues, lost recoveries and an
ended parent; `OneOwner`, `QueuedIsDelivered` and `EndedIsFinal` say nothing of
contested states, `TypeOK` and `AttemptsBounded` do, and for them the theorems
cover what is cut.

In SessionDispatch three runs are what an overtaking needs (one that ends, one
that is dispatched, one that is created meanwhile), and `MaxEvents` is one
because every overlap among the three runs is already explored; an event is a
user's request, a death, a failed read, or a recovery of a live run. In
WorkerPool a third id allows a worker to be replaced while the pool is at its
maximum of two. In ControllerScaling two evaluations give every overlap of
shared streaks and cooldowns, and `MaxSeen` is one more than the maximum of
replicas. In LeaderElection the duration of 7 is the shortest that satisfies the
timing assumption for bounds of 1, so every margin is used up. In WorkspaceCopy
two entry objects give an old one that a lease outlives and the new one of the
map; the second write distinguishes a lost write from a kept one.

`CHECK_DEADLOCK FALSE` stands where the system may stop: all workers closed or
crashed, the run ended, all requests served, the pool closed, the controller
down, all leases released.

### Fairness

- `worker`: a pool starts its workers (`WF Start`), a worker's loop has no
  unbounded wait except for the model, whose calls have timeouts (`WF LoopStep`),
  and Redis deletes an expired key (`WF LockExpires`). Claims are not strongly
  fair: a worker that may not take an entry rotates it, so a compatible worker
  meets it.
- `lifecycle_*`: steps of an executor and writes in flight happen (`WF`); a
  stream ends (`SF StreamEnds`, strong because tool calls keep interrupting it); a
  recovery that listed a run goes through with it. There is no fairness for a row
  becoming stale nor for the scan: only the first worker of a pool scans, once,
  when the pool starts, and with `staleBefore` set back by the grace period
  (`run-worker.ts:114`, `run-worker-pool.ts:296`), so that a process which restarts
  quickly after its crash may find the heartbeat too young, and nothing scans
  again. Hence `RunSettles` and not "every run ends": one of its outcomes is
  `LeftBehind`, an active row that nobody executes and nobody lists.
- `pool`: the interval timer and the steps of a rebalance and of `close()` go on,
  cooldowns end, a worker that serves a session finishes it.
- `leader`: time passes, and a controller whose time is up proceeds. The bounds
  on a request, an evaluation and a shutdown are part of the model, not of the
  fairness: time cannot pass them.
- `scaling`: the interval timer of a running controller fires, evaluations go on,
  cooldowns end. Nothing is assumed of the replicas: what they must do for the
  demand to be met is a premise of `ReplicasFollowDemand`.
- `copy`: a user who has a lease releases it, and transfers and evictions end
  (successfully or not). Nobody is required to ask for a lease or to drain.

### What the violations show

1. *A cancellation may be ignored* (`lifecycle_cancel`): between the status write
   and the registration of the controller, and whenever another process serves
   the request.
2. *Listing a queue removes a waiting run* (`dispatch_listing`): the pending entry
   of a run that no message triggered counts as stale, so reading the queue of a
   session takes its delegated runs and continuations out of it.
3. *The scale-down window is bypassed* (`scaling_gate`): while the window has not
   been filled, the last line of `#desiredReplicas` returns a suggestion below the
   current size, past the probe and the cooldown. `ShrinkIsProbed` compares what an
   evaluation asks for with what it counted itself: it is about the decision of one
   evaluation, not about the target, which another evaluation may have raised
   meanwhile. With a window of one sample the decision is always probed; the target
   may still be lowered without a probe by an evaluation that holds an older count.

The exact lines and the documents that say otherwise are under `findings`.

### What happens without a condition

Several properties hold under a condition that the code does not enforce. Each
row is one change of a configuration (or of the property it names) after which
TLC gives a counterexample.

| Change | Violated | What happens |
| --- | --- | --- |
| `worker` with `"close"` in `Faults` | `PendingIsReachable` | a worker closed between two runs releases the lock without restoring the session (`run-worker.ts:176`); the next enqueue finds a non-empty queue and does not announce it either |
| `worker_faults` with `"stall"` in `Faults` | `SerialDrain` | a refused renewal is only logged (`run-worker.ts:161`): two runs of one session overlap. `RunInOnePlace` still holds |
| `lifecycle_overlap` with `EndedIsFinal` without `contested'` | that property | a cancellation that read the row before the completion writes `running` back after it (`engine-service.ts:1032`); so does a late heartbeat (`run-state.ts:124`), and a recovery of a live run writes `queued` over `completed` |
| `lifecycle_overlap` with `OneOwner` without `contested` | that property | a late heartbeat, a drain timeout or a second recovery: two parties hold the row |
| `lifecycle_overlap` with `QueuedIsDelivered` without `dropped` | that property | a crash between the dequeue and the start leaves a queued row that the stale scan does not list |
| `lifecycle_recovery` with `RunSettles` without `LeftBehind` | that property | the executor dies and no pool scans at the right time |
| `dispatch` with `NothingStranded` | `NothingStranded` | a message that waits behind an action run or a compaction, or that is put in the pending table after the active run ended, waits until another run of the session dispatches |
| `scaling` with `target >= MinReplicas` as an invariant | that invariant | an evaluation that holds writes the number of replicas it counted (`controller.ts:536-541`), which is below the minimum while replicas start or a heartbeat is late; `LimitsKept` says that nothing else does |
| `scaling` with `ReplicasFollowDemand` without `evals[e].current = target` in `Steady` | that property | while a replica is starting, a hold in the cooldown writes the smaller count over the raised target, again and again |
| `copy` with `NothingLost` | `NothingLost` | one of the overlaps of `disturbed`, for instance a lease taken while the directory is being removed |
| `scaling` with `ReplicasFollowDemand` without `~Overlapped` | that property | evaluations that overlap for ever may go on writing each other's older decision |

The first of the two `scaling` rows is a disagreement with
`docs/server-config.en.md:204`, which says of `standalone.min_replicas` "Minimum
sandbox replicas the controller may keep".

`OneLeader` rests on `TimingAssumption`, which is an ASSUME and not checked by the
code: requests to the API server have no time limit, and `renewIntervalMs` is not
compared with `leaseDurationMs`.

## 4. Proofs

All are for any sets of sessions, runs, workers and controllers and any bounds.

*RunWorkerProofs*

- `TypeCorrect`: `Spec => []TypeOK`, with, as its strengthening, that a worker
  that is past its claim has a session, one that peeked has a candidate and one that processes has a run.
- `ReadySetSound`: `[]ReadySetIsListed` under every fault. Inductive with the
  types: a script that adds to the set appends to the list, the claim removes one
  entry from the list and its session from the set, and rotation keeps the range.
- `OnePlacePerRun`: `[]RunInOnePlace` under every fault, a lapsed lock included.
  The property says nothing of where a run may go next, so it is not inductive.
  The strengthening (`PlaceInv`) adds that a run is queued only with its own session
  (`Homed`; otherwise the same id could stand in two queues), and that whatever is
  queued, processed, done or orphaned was submitted, with no run both done and
  orphaned (`Accounted`; otherwise an enqueue could duplicate a run). The one list
  fact it needs is that the head of a list without repetitions is not in its tail.
- `NoStrandedSession`: `[]PendingIsReachable` if `Faults` is within stalls and
  database failures (`OnlyStallsAndDb`, an explicit hypothesis). It needs the
  ready-set invariant, for the enqueue that does not announce; that an active
  worker leaves the drain only with an empty queue or after a restore; and that
  nobody is closed or aborted.
- `BacklogIsSeen`: `[]PressureSeesBacklog` under the same hypothesis. A session that
  nobody has in hand is listed (`NoStrandedSession`); either the report reads the
  list to its end and counts the session, or it falls back to the list's length.

*RunWorkerMutexProofs*

- `MutualExclusion`: `[]SerialDrain` if `"stall"` is not in `Faults`. The
  invariant is that whoever drains a session holds its lock.
- `InspectedRunProcessed`: `[]ProcessesInspectedRun`. From the same
  invariant: between peek and dequeue the candidate is the head of the queue,
  because only the lock holder dequeues and an enqueue appends.
- `WorkersImplementSerial`: `Spec => ImplementsSerial` under the same hypothesis. The
  mapping picks the worker that processes a run of the session; the mutual
  exclusion makes that choice unique (`ExecutingValues`), so a step changes
  `Executing` at one session at most (`ExecutingMoves`, `ExecutingKept`). `SerialStep`
  maps each action: an enqueue submits, a dequeue begins, the end of processing
  finishes, a crash in processing interrupts, a dequeue whose reply is lost loses
  the run, and every other step is a stutter. `SessionSerial` states no fairness, so
  nothing of the refinement is left to TLC.

*RunLifecycleProofs*

- `TypeCorrect`, with `TargetKnown` (what the executor is about to record).
- `RecoveryIsBounded`: `[]AttemptsBounded` with all overlaps, drains and crashes.
  Not inductive on the row alone, since any write may put an old copy back: the
  invariant bounds the counter in the row and in every copy held by the executor, a
  heartbeat, a cancellation or a recovery.
- `SingleOwner`: `[]OneOwner`, with no hypothesis on the faults: drain timeouts,
  recoveries of live runs, overtaken writes and crashes are all steps of the
  specification, and the ones that break the ownership are those that set
  `contested`. `OneOwner` is its own inductive invariant, together with the types; it names for each phase who may write and what he has read.
- `NoLostRun` and `EndIsFinal`: `[]QueuedIsDelivered` and `EndedIsFinal`, from `OneOwner`.
- `QueuedCancelKept`: the safety half of `QueuedCancelHonoured`. Once the mark is set
  on a queued run that nobody took, no step but the recording of the cancellation
  ends that state until two writers overlap; only that the step is taken needs
  fairness.

*SessionDispatchProofs*

- `DispatchInvariance` proves `DispatchInv`, for any runs, guides and kinds of runs
  and with every event and crash the module has. Its parts: the types, which steps
  each kind of process takes and that it has a run where it needs one (`Core`); a run
  that its request has not handed over is known to nobody else (`Fresh`); rows exist
  and are running when the processes say so (`Rows`); no action is ever pending
  (`Actions`); a pending run is queued, is listed once and is in nobody's hand who is
  about to enqueue or execute it (`Waiting`); `Started`, the count of starts
  against crashes and requeues, with who accounts for the last one; `Awake`, that pending runs
  have somebody left to dispatch them or `missed` is set; and `MessageNotForgotten`.
- `DispatchTypeCorrect`, `PendingExclusive`, `AcceptedNotForgotten`, `StartedOnce` and
  `StrandedOnlyWhenMissed` are its consequences. The third and the last say that the
  steps which set `lost` and `missed` are all the ways in which a process that takes
  its steps, dies or throws at any of them loses an accepted message, or leaves a
  session at rest with a pending run. They speak of the processes of this module,
  which read and write a row in one step: what overlapping writes of one row may
  lose is RunLifecycle's subject.
- `DispatchAssumption` says, besides the types of the constants, that the absent
  run is no run.

*ControllerScalingProofs*

- `ScalingInvariance` proves `ScalingInv`: the shape of each evaluation in flight for
  the await it is at, that what it decided is within the limits or is what
  it counted, and that it heeds its probe.
  An action is reduced to what it does to one evaluation (`StepMoves`), which the
  results share. `ScalingTypeCorrect` follows.
- `LimitsHold`: `LimitsKept`, for any limits, windows, cooldowns and counts. What an
  evaluation is about to write is within the limits or is the number it counted; no
  other evaluation can change that.
- `ProbeIsHeeded`: for every window, an evaluation whose probe forbade the removal
  asks for no fewer replicas than it counted. That the probe takes place is not a
  theorem: `scaling_gate` shows that it may not.

*WorkspaceCopyProofs*

- `CopyInvariance` proves `CopyInv`: a reference count is at least the number of
  leases that count (`CountInv`); a write is in no directory that was read before it
  (`FreshInv`, so that a lease which wrote has a fingerprint other than its
  baseline); what phases and jobs imply of each other (`ShapeInv`); and while
  nothing was disturbed, leases are on the entry of the map and exclude evictions
  (`CalmLeases`), and every directory that is about to be uploaded, or is the
  map's, shows all that is saved (`CalmFiles`).
- `CopyTypeCorrect` and `LostOnlyWhenDisturbed` (`NothingLostOtherwise`) follow; the
  second says that the overlaps that set `disturbed` are all the ways to lose a
  write. `LeasesAreCounted` states the part on which every check of `refCount` relies.

*WorkerPoolProofs*

- `PoolInvariance` proves the inductive invariant `PoolInv`: the types; what a
  rebalance may aim at and that it has nothing to remove when it aims below the
  minimum (`Aim`); that close() goes on only when no rebalance is in flight
  (`Closing`); and that a loop that runs belongs to a worker of the list or to the
  one being removed (`Listed`).
- `PoolTypeCorrect`, `ClosedPoolIsQuiet` and `BusyCountIsLocal` follow from it.
- `PoolWithinBounds` and `PoolShrinksDeliberately` are action properties. The
  second needs the arithmetic of the policy: lemma `SuggestionFits` shows that
  the suggested workers and the remote ones have room for the ready and the
  served sessions, unless the maximum cuts the suggestion; it rests on
  `CeilDivCovers` (a rounded-up quotient covers its dividend).

*LeaderElectionProofs*

- `Invariance` proves `IInv`: whoever leads or evaluates holds the lease by a
  renewal that is no younger than the lease's (`Backed`), an applied write whose
  answer is on its way does too (`Granted`), a write with the lease's version is its
  holder's or was made on an expired lease (`Justified`, `StraysJustified`), and
  the ages and the times left add up to less than the duration (`Clocks`).
- `AtMostOneLeader` and `AtMostOneReconciler` follow: two actors would both be the
  holder. The timing assumption enters at one place, lemma `ActorIsFresh`: an
  actor's renewal is younger than a lease lasts on the fastest clock, so no
  other controller can have found it expired.

Model-checked only: the liveness properties (`EveryRunProcessed`,
`QueuedCancelHonoured`, `RunSettles`, `PoolFollowsDemand`, `CloseEnds`, `SomeoneLeads`,
`LeadershipSettles`, `ReplicasFollowDemand`, `DrainConverges`). They need fairness
and ENABLED, which the provers do not handle. Every invariant, every action property
and the refinement that a passing run checks are theorems, under the hypotheses
named above; where a theorem has a hypothesis, the run's instance satisfies it.
The three properties that a run shows to be violated are not proved.

## 5. Not modelled

- The action that an action run executes, and that it completes from the row read
  at its start (`action-runs.ts:287`); the workspace execution lease around a run.
- Cancellation of the delegated children of a cancelled run; a child sees it as
  its own cancellation or as `ParentEnds`. Awaiting children, the records of
  children in the parent's metadata and the batches of their notifications.
- What the worker publishes in its lease besides the state, and the lease keys of
  the registries with their TTLs.
- The election without Kubernetes, where every controller leads; the placement
  recommendations of the controller and their executor, and owner affinity among
  sandboxes; the Docker Compose scale target.
- Of the object storage sync: manifests, bundles, the files of one transfer (a
  transfer is one step, partial when it fails), the adoption of an existing legacy
  directory as the copy (`workspace-materialization.ts:450-458`, 742-770), deletion of
  a workspace, and the repair of registry entries. A lease's `markDirty()` (154-157)
  has no action either: `sandbox-host.ts` hands on only `release`. Workspaces that are local directories are never
  downloaded, uploaded or removed.
- Message projections, compaction of contexts, memory and prompt composition:
  functions of message contents, without state of their own.
- HTTP, model providers, user interfaces, command line and native helpers: input
  and output without a protocol of their own. They are most of the repository's
  lines: the models cover the coordination code, not the repository.

## 6. Plan

1. Composition of dispatch, queue and lifecycle for two runs, and its refinement of
   the three modules: what a contested row does to its session.
2. The safety halves of the other liveness properties: from which states nothing
   but progress is possible, as `QueuedCancelKept` does for cancellations.
3. Agent delegation: awaiting parents and reserved subagent capacity.
4. The placement executor of the controller; projections and compaction as
   operators against a reference.
