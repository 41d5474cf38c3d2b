------------------------------ MODULE WorkerPool ------------------------------
(***************************************************************************)
(* RedisRunWorkerPool (packages/storage-redis/src/run-worker-pool.ts): the *)
(* workers of one process, and the rebalancing that adds and removes them. *)
(*                                                                         *)
(* One rebalance runs at a time.  It reads the queue's pressure and the    *)
(* registry, decides, and then adds workers (each needs a queue connection *)
(* of its own) or removes the youngest one after the other, waiting until  *)
(* the removed worker has finished its session.  close() may be called at  *)
(* any of these awaits.  Cooldowns are clocks: they end when they end.     *)
(* The pool is one that opens a connection per worker (queueFactory), the  *)
(* way every server builds it.                                             *)
(***************************************************************************)
EXTENDS WorkerPoolPolicy, Sequences, SequencesExt, FiniteSets

CONSTANTS
  MinWorkers, MaxWorkers,
  Workers,      \* worker ids
  UpSamples,    \* scaleUpSampleSize
  DownSamples,  \* scaleDownSampleSize
  Arrivals,     \* bound: sessions that become ready
  MaxRemote,    \* bound: workers of other processes
  MaxFailures   \* bound: failures of Redis; one may make both calls for the pressure fail

ASSUME PoolAssumption ==
  /\ MinWorkers \in Nat \ {0} /\ MaxWorkers \in Nat /\ MinWorkers <= MaxWorkers
  /\ UpSamples \in Nat \ {0} /\ DownSamples \in Nat \ {0}
  /\ Arrivals \in Nat /\ MaxRemote \in Nat /\ MaxFailures \in Nat
  /\ IsFiniteSet(Workers) /\ Cardinality(Workers) >= MaxWorkers

VARIABLES
  active,     \* #active
  workers,    \* #workers
  slots,      \* #workerSlots: the state each worker last told
  loop,       \* each worker's loop
  stopping,   \* workers whose close() was called
  step,       \* what the rebalance in flight waits for
  reason,     \* its reason
  pressure,   \* the queue's pressure as it read it
  current, desired,  \* the workers there were when it decided, and shall be
  removed,    \* the worker that it removes
  suggested,  \* #suggestedWorkers
  ups, downs, \* #scaleUpPressureStreak, #scaleDownPressureStreak
  upCooling, downCooling,  \* a cooldown runs
  closing,    \* how far close() is
  ready,      \* sessions that wait to be served
  arrived,    \* sessions that became ready so far
  others,     \* what the registry says of other processes' workers
  failures    \* failed calls so far

streaks == <<ups, downs>>
cooling == <<upCooling, downCooling>>
demand == <<ready, arrived, others>>
decision == <<reason, pressure, current, desired>>
rebalance == <<step, decision, removed>>
vars == <<active, workers, slots, loop, stopping, rebalance, suggested, streaks, cooling, closing, demand, failures>>

NoWorker == "no worker"

\* A registry without this process's workers; an expired lease that is still
\* there, or a heartbeat that came after the removal, is one of them.
RemoteLoads == [known : {TRUE}, remote : 0 .. MaxRemote, remoteBusy : 0 .. MaxRemote]

TypeOK ==
  /\ active \in BOOLEAN
  /\ workers \in Seq(Workers)
  /\ slots \in [Workers -> {"none", "idle", "busy", "stopping"}]
  /\ loop \in [Workers -> {"none", "polling", "busy", "ended", "dead"}]
  /\ stopping \in SUBSET Workers
  /\ step \in {"none", "pressure", "load", "scale", "factory", "closing"}
  /\ reason \in {"startup", "interval"} /\ pressure \in Pressures
  /\ current \in 0 .. MaxWorkers /\ desired \in 0 .. MaxWorkers
  /\ removed \in Workers \cup {NoWorker}
  /\ suggested \in Nat
  /\ ups \in Nat /\ downs \in Nat
  /\ upCooling \in BOOLEAN /\ downCooling \in BOOLEAN
  /\ closing \in {"no", "waiting", "draining", "done", "failed"}
  /\ ready \in Nat /\ arrived \in Nat /\ others \in RemoteLoads /\ failures \in Nat

Init ==
  /\ active = FALSE
  /\ workers = <<>>
  /\ slots = [w \in Workers |-> "none"]
  /\ loop = [w \in Workers |-> "none"]
  /\ stopping = {}
  /\ step = "none" /\ reason = "interval" /\ pressure = UnknownPressure
  /\ current = 0 /\ desired = 0 /\ removed = NoWorker
  /\ suggested = 0
  /\ ups = 0 /\ downs = 0
  /\ upCooling = FALSE /\ downCooling = FALSE
  /\ closing = "no"
  /\ ready = 0 /\ arrived = 0 /\ others = [known |-> TRUE, remote |-> 0, remoteBusy |-> 0]
  /\ failures = 0

BusyWorkers == Cardinality({w \in Workers : slots[w] = "busy"})

\* A call to Redis rejects.
Failure ==
  /\ failures < MaxFailures
  /\ failures' = failures + 1

NoFailure == UNCHANGED failures

-----------------------------------------------------------------------------
(* start() and the interval timer.                                           *)

Begin(why) ==
  /\ step = "none"
  /\ step' = "pressure" /\ reason' = why
  /\ UNCHANGED <<pressure, current, desired, removed>>

Start ==
  /\ ~active
  /\ closing = "no"
  /\ active' = TRUE
  /\ Begin("startup")
  /\ UNCHANGED <<workers, slots, loop, stopping, suggested, streaks, cooling, closing, demand, failures>>

Tick ==
  /\ active
  /\ Begin("interval")
  /\ UNCHANGED <<active, workers, slots, loop, stopping, suggested, streaks, cooling, closing, demand, failures>>

-----------------------------------------------------------------------------
(* #rebalance.                                                               *)

\* Whether the ready sessions are subagents', whether only this process may
\* serve them (all or none of them), and whether the oldest has waited long.
QueuePressures ==
  {[known |-> TRUE, detailed |-> TRUE, ready |-> ready, subagent |-> s, preferred |-> p, preferredSubagent |-> Smaller(s, p), aged |-> a] :
     s \in {0, ready}, p \in {0, ready}, a \in {b \in BOOLEAN : ready = 0 => ~b}}

\* getReadySessionCount, which is asked when getSchedulingPressure fails.
ReadyCount == [UnknownPressure EXCEPT !.known = TRUE, !.ready = ready]

ReadPressure ==
  /\ step = "pressure"
  /\ step' = "load"
  /\ \/ pressure' \in QueuePressures /\ NoFailure
     \/ pressure' \in {ReadyCount, UnknownPressure} /\ Failure
  /\ UNCHANGED <<active, workers, slots, loop, stopping, reason, current, desired, removed, suggested, streaks, cooling, closing, demand>>

\* Mutated form: a low sample takes effect at once.
DesiredAtOnce(n, up, down) ==
  LET size == Len(workers)
      target == IF n > size /\ up < UpSamples THEN size ELSE n
  IN IF reason = "startup" THEN n
     ELSE IF (target > size /\ upCooling) \/ (target < size /\ downCooling) THEN size
     ELSE target

\* The pool's size once the streaks and the cooldowns have had their say.
Desired(n, up, down) ==
  LET size == Len(workers)
      target == IF (n > size /\ up < UpSamples) \/ (n < size /\ down < DownSamples) THEN size ELSE n
  IN IF reason = "startup" THEN n
     ELSE IF (target > size /\ upCooling) \/ (target < size /\ downCooling) THEN size
     ELSE target

\* Mutated form: the count of high samples is not kept.
DecideForgetsStreak ==
  /\ step = "load"
  /\ step' = "scale" /\ pressure' = UnknownPressure /\ current' = Len(workers)
  /\ \E l \in {others, UnknownLoad} : \E n \in {Suggestion(MinWorkers, MaxWorkers, pressure, l, Len(workers), BusyWorkers)} :
       LET up == IF n > Len(workers) THEN ups + 1 ELSE 0
           down == IF n < Len(workers) THEN downs + 1 ELSE 0
       IN /\ IF l.known THEN NoFailure ELSE Failure
          /\ suggested' = n
          /\ ups' = 0
          /\ downs' = Smaller(down, DownSamples)
          /\ desired' = Desired(n, up, down)
  /\ UNCHANGED <<active, workers, slots, loop, stopping, reason, removed, cooling, closing, demand>>

\* The registry is read, and the pool's size is decided from what was read
\* of the queue before.
Decide ==
  /\ step = "load"
  /\ step' = "scale" /\ pressure' = UnknownPressure /\ current' = Len(workers)
  /\ \E l \in {others, UnknownLoad} : \E n \in {Suggestion(MinWorkers, MaxWorkers, pressure, l, Len(workers), BusyWorkers)} :
       LET up == IF n > Len(workers) THEN ups + 1 ELSE 0
           down == IF n < Len(workers) THEN downs + 1 ELSE 0
       IN /\ IF l.known THEN NoFailure ELSE Failure
          /\ suggested' = n
          /\ ups' = Smaller(up, UpSamples)
          /\ downs' = Smaller(down, DownSamples)
          /\ desired' = Desired(n, up, down)
  /\ UNCHANGED <<active, workers, slots, loop, stopping, reason, removed, cooling, closing, demand>>

\* Mutated form: one worker too many.
OpenQueueOneMore ==
  /\ step = "scale"
  /\ active
  /\ Len(workers) <= desired
  /\ step' = "factory"
  /\ UNCHANGED <<active, workers, slots, loop, stopping, decision, removed, suggested, streaks, cooling, closing, demand, failures>>

\* One more worker: its queue connection is opened first.
OpenQueue ==
  /\ step = "scale"
  /\ active
  /\ Len(workers) < desired
  /\ step' = "factory"
  /\ UNCHANGED <<active, workers, slots, loop, stopping, decision, removed, suggested, streaks, cooling, closing, demand, failures>>

\* The new worker's id: which one does not matter.
Fresh == {CHOOSE w \in Workers : loop[w] = "none"}

\* The connection is there: the worker is started, even if the pool was told
\* to close meanwhile.
AddWorker(w) ==
  /\ step = "factory"
  /\ w \in Fresh
  /\ workers' = Append(workers, w)
  /\ loop' = [loop EXCEPT ![w] = "polling"]
  /\ slots' = [slots EXCEPT ![w] = "idle"]
  /\ step' = "scale"
  /\ UNCHANGED <<active, stopping, decision, removed, suggested, streaks, cooling, closing, demand, failures>>

EndOfRebalance ==
  /\ step' = "none" /\ reason' = "interval"
  /\ current' = 0 /\ desired' = 0 /\ removed' = NoWorker
  /\ UNCHANGED pressure

\* A rebalance that throws: a close() that waits for it throws too.
Fail ==
  /\ EndOfRebalance
  /\ closing' = IF closing = "waiting" THEN "failed" ELSE closing

FactoryThrows ==
  /\ step = "factory"
  /\ Failure
  /\ Fail
  /\ UNCHANGED <<active, workers, slots, loop, stopping, suggested, streaks, cooling, demand>>

\* Mutated form: nobody waits for the removed worker.
RemoveWorkerAsync ==
  /\ step = "scale"
  /\ Len(workers) > desired
  /\ stopping' = stopping \cup {Last(workers)}
  /\ slots' = [slots EXCEPT ![Last(workers)] = "stopping"]
  /\ workers' = Front(workers)
  /\ UNCHANGED <<active, loop, rebalance, suggested, streaks, cooling, closing, demand, failures>>

\* One worker less: the youngest is told to stop.
RemoveWorker ==
  /\ step = "scale"
  /\ Len(workers) > desired
  /\ stopping' = stopping \cup {Last(workers)}
  /\ slots' = [slots EXCEPT ![Last(workers)] = "stopping"]
  /\ step' = "closing" /\ removed' = Last(workers)
  /\ workers' = Front(workers)
  /\ UNCHANGED <<active, loop, decision, suggested, streaks, cooling, closing, demand, failures>>

\* Its loop has ended: its connection is closed and the slot deleted.
Removed ==
  /\ step = "closing"
  /\ loop[removed] = "ended"
  /\ loop' = [loop EXCEPT ![removed] = "none"]
  /\ slots' = [slots EXCEPT ![removed] = "none"]
  /\ stopping' = stopping \ {removed}
  /\ step' = "scale" /\ removed' = NoWorker
  /\ UNCHANGED <<active, workers, decision, suggested, streaks, cooling, closing, demand, failures>>

\* The worker's loop had thrown, and so does its close(); or the connection
\* cannot be closed.  The slot stays.
RemoveThrows ==
  /\ step = "closing"
  /\ \/ loop[removed] = "dead" /\ NoFailure
     \/ loop[removed] = "ended" /\ Failure
  /\ loop' = [loop EXCEPT ![removed] = "none"]
  /\ stopping' = stopping \ {removed}
  /\ Fail
  /\ UNCHANGED <<active, workers, slots, suggested, streaks, cooling, demand>>

EndRebalance ==
  /\ step = "scale"
  /\ ~active \/ Len(workers) >= desired
  /\ Len(workers) <= desired
  /\ upCooling' = (upCooling \/ Len(workers) > current)
  /\ downCooling' = (downCooling \/ Len(workers) # current)
  /\ EndOfRebalance
  /\ UNCHANGED <<active, workers, slots, loop, stopping, suggested, streaks, closing, demand, failures>>

UpCooldownEnds ==
  /\ upCooling
  /\ upCooling' = FALSE
  /\ UNCHANGED <<active, workers, slots, loop, stopping, rebalance, suggested, streaks, downCooling, closing, demand, failures>>

DownCooldownEnds ==
  /\ downCooling
  /\ downCooling' = FALSE
  /\ UNCHANGED <<active, workers, slots, loop, stopping, rebalance, suggested, streaks, upCooling, closing, demand, failures>>

-----------------------------------------------------------------------------
(* close().                                                                  *)

Close ==
  /\ active
  /\ closing = "no"
  /\ active' = FALSE
  /\ closing' = "waiting"
  /\ UNCHANGED <<workers, slots, loop, stopping, rebalance, suggested, streaks, cooling, demand, failures>>

\* Mutated form: the rebalance in flight is not awaited.
CloseWorkersAtOnce ==
  /\ closing = "waiting"
  /\ closing' = "draining"
  /\ stopping' = stopping \cup Range(workers)
  /\ slots' = [w \in Workers |-> IF w \in Range(workers) THEN "stopping" ELSE slots[w]]
  /\ UNCHANGED <<active, workers, loop, rebalance, suggested, streaks, cooling, demand, failures>>

\* Mutated form: the workers are not told to stop.
CloseForgets ==
  /\ closing = "waiting"
  /\ step = "none"
  /\ closing' = "draining"
  /\ UNCHANGED <<active, workers, slots, loop, stopping, rebalance, suggested, streaks, cooling, demand, failures>>

\* The rebalance in flight is over: every worker is told to stop.
CloseWorkers ==
  /\ closing = "waiting"
  /\ step = "none"
  /\ closing' = "draining"
  /\ stopping' = stopping \cup Range(workers)
  /\ slots' = [w \in Workers |-> IF w \in Range(workers) THEN "stopping" ELSE slots[w]]
  /\ UNCHANGED <<active, workers, loop, rebalance, suggested, streaks, cooling, demand, failures>>

Closed ==
  /\ closing = "draining"
  /\ \A i \in DOMAIN workers : loop[workers[i]] = "ended"
  /\ closing' = "done"
  /\ workers' = <<>>
  /\ slots' = [w \in Workers |-> "none"]
  /\ UNCHANGED <<active, loop, stopping, rebalance, suggested, streaks, cooling, demand, failures>>

CloseThrows ==
  /\ closing = "draining"
  /\ \E i \in DOMAIN workers : loop[workers[i]] = "dead"
  /\ closing' = "failed"
  /\ workers' = <<>>
  /\ UNCHANGED <<active, slots, loop, stopping, rebalance, suggested, streaks, cooling, demand, failures>>

-----------------------------------------------------------------------------
(* The workers, as far as the pool can tell (RunWorker has the rest).        *)

\* A session is claimed and locked, by a worker that was told to stop in the
\* middle of its claim too.
Serve(w) ==
  /\ loop[w] = "polling"
  /\ ready > 0
  /\ ready' = ready - 1
  /\ loop' = [loop EXCEPT ![w] = "busy"]
  /\ slots' = [slots EXCEPT ![w] = "busy"]
  /\ UNCHANGED <<active, workers, stopping, rebalance, suggested, streaks, cooling, closing, arrived, others, failures>>

Served(w) ==
  /\ loop[w] = "busy"
  /\ loop' = [loop EXCEPT ![w] = IF w \in stopping THEN "ended" ELSE "polling"]
  /\ slots' = [slots EXCEPT ![w] = IF w \in stopping THEN "stopping" ELSE "idle"]
  /\ UNCHANGED <<active, workers, stopping, rebalance, suggested, streaks, cooling, closing, demand, failures>>

LoopEnds(w) ==
  /\ loop[w] = "polling"
  /\ w \in stopping
  /\ loop' = [loop EXCEPT ![w] = "ended"]
  /\ UNCHANGED <<active, workers, slots, stopping, rebalance, suggested, streaks, cooling, closing, demand, failures>>

\* peekRun or dequeueRun threw.  Nobody looks at the loop before close().
LoopThrows(w) ==
  /\ loop[w] = "busy"
  /\ Failure
  /\ loop' = [loop EXCEPT ![w] = "dead"]
  /\ slots' = [slots EXCEPT ![w] = IF w \in stopping THEN "stopping" ELSE "idle"]
  /\ UNCHANGED <<active, workers, stopping, rebalance, suggested, streaks, cooling, closing, demand>>

-----------------------------------------------------------------------------
Arrive ==
  /\ arrived < Arrivals
  /\ arrived' = arrived + 1
  /\ ready' = ready + 1
  /\ UNCHANGED <<active, workers, slots, loop, stopping, rebalance, suggested, streaks, cooling, closing, others, failures>>

OthersChange ==
  /\ others' \in RemoteLoads
  /\ others'.remoteBusy <= others'.remote
  /\ UNCHANGED <<active, workers, slots, loop, stopping, rebalance, suggested, streaks, cooling, closing, ready, arrived, failures>>

Rebalancing ==
  \/ ReadPressure \/ Decide \/ OpenQueue \/ RemoveWorker \/ Removed \/ RemoveThrows \/ EndRebalance
  \/ \E w \in Workers : AddWorker(w)

Next ==
  \/ Start \/ Tick \/ Rebalancing
  \/ FactoryThrows
  \/ UpCooldownEnds \/ DownCooldownEnds
  \/ Close \/ CloseWorkers \/ Closed \/ CloseThrows
  \/ \E w \in Workers : Serve(w) \/ Served(w) \/ LoopEnds(w) \/ LoopThrows(w)
  \/ Arrive \/ OthersChange

Spec == Init /\ [][Next]_vars

\* The timer fires, awaited calls return, sessions come to an end and cooldowns
\* run out.
FairSpec ==
  /\ Spec
  /\ WF_vars(Start \/ Tick \/ Rebalancing)
  /\ WF_vars(UpCooldownEnds) /\ WF_vars(DownCooldownEnds)
  /\ WF_vars(CloseWorkers \/ Closed \/ CloseThrows)
  /\ \A w \in Workers : WF_vars(Serve(w) \/ Served(w) \/ LoopEnds(w))

-----------------------------------------------------------------------------
(* Properties.                                                               *)

\* The pool never has more workers than maxWorkers, and never shrinks below
\* minWorkers while it is open: whatever a rebalance read or could not read,
\* whichever of its calls failed half-way.
WithinBounds ==
  [][ /\ Len(workers') <= MaxWorkers
      /\ active' /\ Len(workers') < Len(workers) => Len(workers') >= MinWorkers ]_vars

\* When close() has returned, no worker of the pool is alive: not even the one
\* whose queue connection was being opened when close() was called, or the one
\* that a rebalance was removing.
ClosedIsQuiet ==
  closing = "done" => step = "none" /\ \A w \in Workers : loop[w] \notin {"polling", "busy"}

\* The busy workers that a decision counts are workers of the pool: one that
\* was removed, or that claimed a session after it was told to stop, is gone
\* before the next decision.
BusyIsLocal ==
  step = "load" => \A w \in Workers : slots[w] = "busy" => w \in Range(workers)

\* An interval's rebalance that shrinks the pool has seen DownSamples low
\* samples in a row, and leaves room for what it knows of: the sessions that
\* were ready and the ones being served fit the workers of all processes.
ShrinkIsDeliberate ==
  [][ step = "load" /\ step' = "scale" /\ desired' < Len(workers) /\ reason = "interval" =>
        /\ downs' = DownSamples /\ ~downCooling
        /\ (desired' + others.remote) * PerUnit >= pressure.ready + BusyWorkers \/ desired' = MaxWorkers
    ]_vars

\* Demand that stays is met: when the suggested size settles, the pool gets it
\* and keeps it.  Neither the windows, nor the cooldowns, nor a rebalance that
\* threw half-way prevents it for good.
PoolFollowsDemand ==
  \A n \in MinWorkers .. MaxWorkers : <>[](active /\ suggested = n) => <>[](Len(workers) = n)

\* close() comes to an end once the sessions that are being served do.
CloseEnds == closing = "waiting" ~> closing \in {"done", "failed"}
=============================================================================
