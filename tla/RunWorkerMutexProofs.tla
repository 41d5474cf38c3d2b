------------------------- MODULE RunWorkerMutexProofs -------------------------
(***************************************************************************)
(* The session lock makes the drain of a session exclusive, as long as a   *)
(* lock that is being renewed does not lapse.  Workers may be closed or    *)
(* crash and Redis and the database may fail at any step.                  *)
(***************************************************************************)
EXTENDS RunWorkerProofs

\* Renewals are on time: the one failure left out.
TimelyRenewal == "stall" \notin Faults

\* A worker that drains a session holds its lock.
DrainerHoldsLock == \A w \in Workers : pc[w] \in Draining => lock[session[w]] = w

\* What a worker learned from its peek still stands: the candidate is still at
\* the head of the queue, or it is the run that was dequeued.
InspectedIsHead ==
  \A w \in Workers :
    /\ pc[w] \in {"describe", "dequeue"} =>
         Pending(session[w]) /\ candidate[w] = Head(queue[session[w]])
    /\ pc[w] = "process" => run[w] = candidate[w]

MutexInv == TypeInv /\ ReadySetIsListed /\ DrainerHoldsLock /\ InspectedIsHead

\* One holder per lock: two drainers of one session would both hold its lock.
LEMMA LockExcludes == DrainerHoldsLock => SerialDrain
BY DEF DrainerHoldsLock, SerialDrain

\* A worker that has no session in its drain loop after the step, or had it
\* there already, keeps the lock invariant when no lock changes.
LEMMA LocksKept ==
  ASSUME DrainerHoldsLock, NEW w \in Workers, lock' = lock,
         \A v \in Workers : v # w => pc'[v] = pc[v] /\ session'[v] = session[v],
         pc'[w] \in Draining => pc[w] \in Draining /\ session'[w] = session[w]
  PROVE  DrainerHoldsLock'
BY DEF DrainerHoldsLock

\* Every step keeps the lock with the worker that drains (tryAcquireSessionLock,
\* renewSessionLock and releaseSessionLock, with their tokens).
LEMMA LockStep ==
  ASSUME TimelyRenewal, MutexInv, [Next]_vars
  PROVE  DrainerHoldsLock'
<1>q. TypeInv /\ QueueTypeOK /\ DrainerHoldsLock
  BY DEF MutexInv, TypeInv, TypeOK
<1>t. /\ pc \in [Workers -> PCs] /\ session \in [Workers -> Sessions \cup {None}]
      /\ lock \in [Sessions -> Workers \cup {None}]
  BY <1>q DEF TypeInv, TypeOK, QueueTypeOK
<1>1. ASSUME lock' = lock, UNCHANGED workerVars PROVE DrainerHoldsLock'
  BY <1>q, <1>1 DEF DrainerHoldsLock, workerVars
<1>2. ASSUME NEW r \in Runs, NEW prio \in Priorities, NEW p \in Hints, EnqueueRun(r, prio, p)
      PROVE  DrainerHoldsLock'
  BY <1>1, <1>2 DEF EnqueueRun, Enqueue
<1>3. ASSUME NEW s \in Sessions, NEW p \in Hints, MovePlacement(s, p) PROVE DrainerHoldsLock'
  BY <1>1, <1>3 DEF MovePlacement, queueVars
<1>4. ASSUME NEW s \in Sessions, LockExpires(s) PROVE DrainerHoldsLock'
  <2>1. ~\E w \in Workers : lock[s] = w /\ session[w] = s /\ pc[w] \in Draining
    BY <1>4 DEF LockExpires, TimelyRenewal, Renewing
  <2>2. lock' = [lock EXCEPT ![s] = None] /\ pc' = pc /\ session' = session
    BY <1>4 DEF LockExpires, ExpireSessionLock, workerVars
  <2>3. ASSUME NEW w \in Workers, pc[w] \in Draining PROVE lock'[session[w]] = w
    <3>1. session[w] \in Sessions /\ lock[session[w]] = w
      BY <1>q, <2>3 DEF DrainerHoldsLock, TypeInv, HasSession
    <3> QED BY <1>t, <2>1, <2>2, <2>3, <3>1
  <2> QED BY <2>2, <2>3 DEF DrainerHoldsLock
<1>5. ASSUME NEW w \in Workers, ClaimSession(w) \/ ClaimMisses(w) \/ ClaimFails(w)
      PROVE  DrainerHoldsLock'
  <2>1. lock' = lock
    BY <1>5 DEF ClaimSession, ClaimMisses, ClaimFails, ClaimCompatibleSession, ClaimNothing, queueVars
  <2>2. /\ \A v \in Workers : v # w => pc'[v] = pc[v] /\ session'[v] = session[v]
        /\ pc'[w] \notin Draining
    BY <1>5, <1>t DEF ClaimSession, ClaimMisses, ClaimFails, Draining
  <2> QED BY <1>q, <2>1, <2>2, LocksKept
<1>6. ASSUME NEW w \in Workers,
             \/ Start(w) \/ RecoverStaleRuns(w) \/ LoopTop(w) \/ Crash(w) \/ LoseRaceForLock(w)
             \/ RestoreClaim(w) \/ RestoreClaimFails(w) \/ StopDraining(w) \/ PeekFails(w)
             \/ RestoreRejected(w) \/ RestoreRejectedFails(w) \/ DequeueFindsNothing(w)
             \/ DequeueFails(w) \/ ReleaseFails(w)
      PROVE  DrainerHoldsLock'
  <2>1. lock' = lock
    BY <1>6 DEF Start, RecoverStaleRuns, LoopTop, Crash, LoseRaceForLock, RestoreClaim, RestoreClaimFails,
       StopDraining, PeekFails, RestoreRejected, RestoreRejectedFails, DequeueFindsNothing, DequeueFails,
       ReleaseFails, RequeueSessionIfPending, DequeueRun, queueVars
  <2>2. /\ \A v \in Workers : v # w => pc'[v] = pc[v] /\ session'[v] = session[v]
        /\ pc'[w] \notin Draining
    BY <1>6, <1>t DEF Start, RecoverStaleRuns, LoopTop, Crash, LoseRaceForLock, RestoreClaim, RestoreClaimFails,
       StopDraining, PeekFails, RestoreRejected, RestoreRejectedFails, DequeueFindsNothing, DequeueFails,
       ReleaseFails, AfterRelease, LeaveDrain, Draining
  <2> QED BY <1>q, <2>1, <2>2, LocksKept
<1>7. ASSUME NEW w \in Workers,
             \/ PeekRun(w) \/ DescribeRun(w) \/ RejectRun(w) \/ DescribeFails(w)
             \/ Dequeue(w) \/ ProcessRun(w) \/ Close(w)
      PROVE  DrainerHoldsLock'
  <2>1. lock' = lock
    BY <1>7 DEF PeekRun, DescribeRun, RejectRun, DescribeFails, Dequeue, ProcessRun, Close, DequeueRun, queueVars
  <2>2. /\ \A v \in Workers : v # w => pc'[v] = pc[v]
        /\ session' = session
        /\ pc'[w] \in Draining => pc[w] \in Draining
    BY <1>7, <1>t DEF PeekRun, DescribeRun, RejectRun, DescribeFails, Dequeue, ProcessRun, Close, Draining
  <2> QED BY <1>q, <2>1, <2>2, LocksKept
<1>8. ASSUME NEW w \in Workers, AcquireLock(w) \/ AcquireFails(w) PROVE DrainerHoldsLock'
  <2> DEFINE s == session[w]
  <2>1. s \in Sessions /\ pc[w] = "acquire"
    BY <1>8, <1>q DEF AcquireLock, AcquireFails, TypeInv, HasSession, Claiming
  <2>2. lock' = lock \/ (lock[s] = None /\ lock' = [lock EXCEPT ![s] = w])
    <3>1. TryAcquireSessionLock(s, w) \/ UNCHANGED queueVars
      BY <1>8 DEF AcquireLock, AcquireFails
    <3>2. UNCHANGED queueVars => lock' = lock
      BY DEF queueVars
    <3>3. TryAcquireSessionLock(s, w) => lock[s] = None /\ lock' = [lock EXCEPT ![s] = w]
      BY DEF TryAcquireSessionLock
    <3> HIDE DEF s
    <3> QED BY <3>1, <3>2, <3>3
  <2>3. \A v \in Workers : v # w => pc'[v] = pc[v] /\ session'[v] = session[v]
    BY <1>8, <1>t DEF AcquireLock, AcquireFails
  <2>4. pc'[w] \in Draining => session'[w] = s /\ lock'[s] = w
    BY <1>8, <1>t, <2>1 DEF AcquireLock, AcquireFails, TryAcquireSessionLock, Draining
  <2>5. ASSUME NEW v \in Workers, v # w, pc[v] \in Draining PROVE lock'[session[v]] = v
    <3>1. lock[session[v]] = v /\ session[v] \in Sessions /\ v # None
      BY <1>q, <2>5, QueueAssumption DEF DrainerHoldsLock, TypeInv, HasSession
    <3> QED BY <1>t, <2>2, <3>1
  <2> HIDE DEF s
  <2> QED BY <2>3, <2>4, <2>5 DEF DrainerHoldsLock, s
<1>9. ASSUME NEW w \in Workers, ReleaseLock(w) PROVE DrainerHoldsLock'
  <2>1. pc[w] \in {"release", "abort"} /\ session[w] \in Sessions
    BY <1>9, <1>q DEF ReleaseLock, TypeInv, HasSession
  <2>2. lock' = [lock EXCEPT ![session[w]] = IF lock[session[w]] = w THEN None ELSE lock[session[w]]]
    BY <1>9, <1>t DEF ReleaseLock, ReleaseSessionLock
  <2>3. /\ \A v \in Workers : v # w => pc'[v] = pc[v] /\ session'[v] = session[v]
        /\ pc'[w] \notin Draining
    BY <1>9, <1>t DEF ReleaseLock, AfterRelease, Draining
  <2>4. ASSUME NEW v \in Workers, v # w, pc[v] \in Draining PROVE lock'[session[v]] = v
    <3>1. lock[session[v]] = v /\ session[v] \in Sessions
      BY <1>q, <2>4 DEF DrainerHoldsLock, TypeInv, HasSession
    <3> QED BY <1>t, <2>2, <2>4, <3>1
  <2> QED BY <2>3, <2>4 DEF DrainerHoldsLock
<1>10. CASE UNCHANGED vars
  BY <1>1, <1>10 DEF vars, queueVars
<1> QED
  BY <1>2, <1>3, <1>4, <1>5, <1>6, <1>7, <1>8, <1>9, <1>10 DEF Next, LoopStep, FaultStep

\* A step in which only w moves, and which leaves the queues of the other
\* drainers' sessions with their heads, keeps what those drainers learned.
LEMMA InspectionsKept ==
  ASSUME InspectedIsHead, NEW w \in Workers,
         \A v \in Workers : v # w => /\ pc'[v] = pc[v] /\ session'[v] = session[v]
                                     /\ candidate'[v] = candidate[v] /\ run'[v] = run[v],
         \A v \in Workers : v # w /\ pc[v] \in Draining => queue'[session[v]] = queue[session[v]],
         pc'[w] \in {"describe", "dequeue"} =>
           queue'[session'[w]] # <<>> /\ candidate'[w] = Head(queue'[session'[w]]),
         pc'[w] = "process" => run'[w] = candidate'[w]
  PROVE  InspectedIsHead'
<1>1. \A v \in Workers : pc[v] \in {"describe", "dequeue"} => pc[v] \in Draining
  BY DEF Draining
<1> QED BY <1>1 DEF InspectedIsHead, Pending

\* Every step keeps the inspected run at the head of its queue: a run is added
\* at the tail (enqueue), and only the lock holder takes one away (dequeueRun).
LEMMA InspectStep ==
  ASSUME MutexInv, [Next]_vars
  PROVE  InspectedIsHead'
<1>q. TypeInv /\ QueueTypeOK /\ DrainerHoldsLock /\ InspectedIsHead /\ SerialDrain
  BY LockExcludes DEF MutexInv, TypeInv, TypeOK
<1>t. /\ pc \in [Workers -> PCs] /\ session \in [Workers -> Sessions \cup {None}]
      /\ queue \in [Sessions -> Seq(Runs)]
      /\ candidate \in [Workers -> Runs \cup {None}] /\ run \in [Workers -> Runs \cup {None}]
  BY <1>q DEF TypeInv, TypeOK, QueueTypeOK
<1>1. ASSUME queue' = queue, UNCHANGED <<pc, session, candidate, run>> PROVE InspectedIsHead'
  BY <1>q, <1>1 DEF InspectedIsHead, Pending
<1>2. ASSUME NEW r \in Runs, NEW prio \in Priorities, NEW p \in Hints, EnqueueRun(r, prio, p)
      PROVE  InspectedIsHead'
  <2> DEFINE s == SessionOf[r]
  <2>1. s \in Sessions /\ p \in Targets \cup {None} /\ Enqueue(s, r, prio, p)
    BY <1>2, WorkerAssumption DEF EnqueueRun
  <2> HIDE DEF s
  <2>2. /\ \A x \in Sessions : x # s => queue'[x] = queue[x]
        /\ queue'[s] = Append(queue[s], r)
    BY <1>q, <2>1, EnqueueLemma
  <2>3. ASSUME NEW x \in Sessions, queue[x] # <<>>
        PROVE  queue'[x] # <<>> /\ Head(queue'[x]) = Head(queue[x])
    <3>1. Append(queue[x], r) # <<>> /\ Head(Append(queue[x], r)) = Head(queue[x])
      BY <1>t, <2>3
    <3>2. CASE x = s
      <4>1. queue'[x] = Append(queue[x], r)
        BY <2>2, <3>2
      <4> QED BY <3>1, <4>1
    <3>3. CASE x # s
      BY <2>2, <2>3, <3>3
    <3> QED BY <3>2, <3>3
  <2>4. UNCHANGED <<pc, session, candidate, run>>
    BY <1>2 DEF EnqueueRun, workerVars
  <2>5. \A v \in Workers : pc[v] \in {"describe", "dequeue"} => session[v] \in Sessions
    BY <1>q DEF TypeInv, HasSession, Draining
  <2> QED BY <1>q, <2>3, <2>4, <2>5 DEF InspectedIsHead, Pending
<1>3. ASSUME NEW s \in Sessions, NEW p \in Hints, MovePlacement(s, p) PROVE InspectedIsHead'
  BY <1>1, <1>3 DEF MovePlacement, queueVars, workerVars
<1>4. ASSUME NEW s \in Sessions, LockExpires(s) PROVE InspectedIsHead'
  BY <1>1, <1>4 DEF LockExpires, ExpireSessionLock, workerVars
<1>5. ASSUME NEW w \in Workers,
             \/ Start(w) \/ RecoverStaleRuns(w) \/ LoopTop(w) \/ Crash(w) \/ ClaimSession(w)
             \/ ClaimMisses(w) \/ ClaimFails(w) \/ AcquireLock(w) \/ LoseRaceForLock(w) \/ AcquireFails(w)
             \/ RestoreClaim(w) \/ RestoreClaimFails(w)
      PROVE  InspectedIsHead'
  <2>1. queue' = queue
    BY <1>5 DEF Start, RecoverStaleRuns, LoopTop, Crash, ClaimSession, ClaimMisses, ClaimFails, AcquireLock,
       LoseRaceForLock, AcquireFails, RestoreClaim, RestoreClaimFails, ClaimCompatibleSession, ClaimNothing,
       TryAcquireSessionLock, RequeueSessionIfPending, queueVars
  <2>2. /\ \A v \in Workers : v # w => /\ pc'[v] = pc[v] /\ session'[v] = session[v]
                                       /\ candidate'[v] = candidate[v] /\ run'[v] = run[v]
        /\ pc'[w] \notin {"describe", "dequeue", "process"}
    BY <1>5, <1>t DEF Start, RecoverStaleRuns, LoopTop, Crash, ClaimSession, ClaimMisses, ClaimFails, AcquireLock,
       LoseRaceForLock, AcquireFails, RestoreClaim, RestoreClaimFails
  <2> QED BY <1>q, <2>1, <2>2, InspectionsKept
<1>6. ASSUME NEW w \in Workers,
             \/ StopDraining(w) \/ PeekFails(w) \/ RejectRun(w) \/ DescribeFails(w)
             \/ RestoreRejected(w) \/ RestoreRejectedFails(w) \/ DequeueFindsNothing(w)
             \/ ProcessRun(w) \/ ReleaseLock(w) \/ ReleaseFails(w)
      PROVE  InspectedIsHead'
  <2>1. queue' = queue
    BY <1>6 DEF StopDraining, PeekFails, RejectRun, DescribeFails, RestoreRejected, RestoreRejectedFails,
       DequeueFindsNothing, ProcessRun, ReleaseLock, ReleaseFails, ReleaseSessionLock, RequeueSessionIfPending,
       queueVars
  <2>2. /\ \A v \in Workers : v # w => /\ pc'[v] = pc[v] /\ session'[v] = session[v]
                                       /\ candidate'[v] = candidate[v] /\ run'[v] = run[v]
        /\ pc'[w] \notin {"describe", "dequeue", "process"}
    BY <1>6, <1>t DEF StopDraining, PeekFails, RejectRun, DescribeFails, RestoreRejected, RestoreRejectedFails,
       DequeueFindsNothing, ProcessRun, ReleaseLock, ReleaseFails, AfterRelease, LeaveDrain
  <2> QED BY <1>q, <2>1, <2>2, InspectionsKept
<1>7. ASSUME NEW w \in Workers, Close(w) PROVE InspectedIsHead'
  BY <1>1, <1>7 DEF Close, queueVars
<1>8. ASSUME NEW w \in Workers, PeekRun(w) \/ DescribeRun(w) PROVE InspectedIsHead'
  <2>1. queue' = queue /\ session' = session /\ run' = run
    BY <1>8 DEF PeekRun, DescribeRun, queueVars
  <2>2. /\ \A v \in Workers : v # w => pc'[v] = pc[v] /\ candidate'[v] = candidate[v]
        /\ pc'[w] # "process"
    BY <1>8, <1>t DEF PeekRun, DescribeRun
  <2>3. queue[session[w]] # <<>> /\ candidate'[w] = Head(queue[session[w]])
    BY <1>8, <1>q, <1>t DEF PeekRun, DescribeRun, Pending, InspectedIsHead
  <2> QED BY <1>q, <2>1, <2>2, <2>3, InspectionsKept
<1>9. ASSUME NEW w \in Workers, Dequeue(w) \/ DequeueFails(w) PROVE InspectedIsHead'
  <2>1. pc[w] = "dequeue" /\ session[w] \in Sessions
    BY <1>9, <1>q DEF Dequeue, DequeueFails, TypeInv, HasSession, Draining
  <2>2. \A x \in Sessions : x # session[w] => queue'[x] = queue[x]
    <3>1. DequeueRun(session[w]) \/ UNCHANGED queueVars
      BY <1>9 DEF Dequeue, DequeueFails
    <3> QED BY <1>q, <2>1, <3>1, DequeueLemma DEF queueVars
  <2>3. \A v \in Workers : v # w /\ pc[v] \in Draining => queue'[session[v]] = queue[session[v]]
    <3>1. pc[w] \in Draining
      BY <2>1 DEF Draining
    <3>2. \A v \in Workers : pc[v] \in Draining => session[v] \in Sessions
      BY <1>q DEF TypeInv, HasSession
    <3> QED BY <1>q, <2>2, <3>1, <3>2 DEF SerialDrain
  <2>4. /\ \A v \in Workers : v # w => /\ pc'[v] = pc[v] /\ session'[v] = session[v]
                                       /\ candidate'[v] = candidate[v] /\ run'[v] = run[v]
        /\ pc'[w] \notin {"describe", "dequeue"}
    BY <1>9, <1>t DEF Dequeue, DequeueFails, LeaveDrain
  <2>5. pc'[w] = "process" => run'[w] = candidate'[w]
    BY <1>9, <1>q, <1>t, <2>1 DEF Dequeue, DequeueFails, LeaveDrain, InspectedIsHead
  <2> QED BY <1>q, <2>3, <2>4, <2>5, InspectionsKept
<1>10. CASE UNCHANGED vars
  BY <1>1, <1>10 DEF vars, queueVars, workerVars
<1> QED
  BY <1>2, <1>3, <1>4, <1>5, <1>6, <1>7, <1>8, <1>9, <1>10 DEF Next, LoopStep, FaultStep

\* The invariant holds at the start and is kept by every step.
LEMMA MutexInvariant ==
  ASSUME TimelyRenewal
  PROVE  Spec => []MutexInv
<1>1. Init => MutexInv
  <2>1. Init => DrainerHoldsLock /\ InspectedIsHead
    BY DEF Init, DrainerHoldsLock, InspectedIsHead, Draining
  <2> QED BY <2>1, InitType DEF MutexInv
<1>2. MutexInv /\ [Next]_vars => MutexInv'
  <2> SUFFICES ASSUME MutexInv, [Next]_vars PROVE MutexInv'
    OBVIOUS
  <2>1. TypeInv' /\ ReadySetIsListed'
    BY TypeStep DEF MutexInv
  <2> QED BY <2>1, LockStep, InspectStep DEF MutexInv
<1> QED BY <1>1, <1>2, PTL DEF Spec

\* Two workers never drain one session at the same time: the per-session lock
\* of the queue excludes them whatever is closed, crashes or fails, for every
\* number of workers, provided the lock's renewals are on time.
THEOREM MutualExclusion ==
  ASSUME TimelyRenewal
  PROVE  Spec => []SerialDrain
<1>1. MutexInv => SerialDrain
  BY LockExcludes DEF MutexInv
<1> QED BY <1>1, MutexInvariant, PTL

\* The run a worker processes is the run it peeked and whose placement it
\* checked, although peekRun, describeQueuedRun and dequeueRun are three calls.
THEOREM InspectedRunProcessed ==
  ASSUME TimelyRenewal
  PROVE  Spec => []ProcessesInspectedRun
<1>1. MutexInv => ProcessesInspectedRun
  BY DEF MutexInv, InspectedIsHead, ProcessesInspectedRun
<1> QED BY <1>1, MutexInvariant, PTL
-----------------------------------------------------------------------------
(* Refinement.  Seen through Executing, every step of the workers is a step   *)
(* of SessionSerial or leaves what it talks about alone.                      *)

\* Executing, for any assignment of places, sessions and runs to the workers.
ExecutingOf(places, sessions, runs) ==
  [s \in Sessions |->
     IF \E w \in Workers : places[w] = "process" /\ sessions[w] = s
     THEN runs[CHOOSE w \in Workers : places[w] = "process" /\ sessions[w] = s]
     ELSE None]

\* Where at most one worker processes runs of a session, its run is the one in
\* execution, and a session nobody processes has none.
LEMMA ExecutingValues ==
  ASSUME NEW places, NEW sessions, NEW runs,
         \A v, w \in Workers :
           (v # w /\ places[v] = "process" /\ places[w] = "process") => sessions[v] # sessions[w]
  PROVE  /\ \A s \in Sessions : \A w \in Workers :
              places[w] = "process" /\ sessions[w] = s => ExecutingOf(places, sessions, runs)[s] = runs[w]
         /\ \A s \in Sessions :
              (\A w \in Workers : ~(places[w] = "process" /\ sessions[w] = s))
                => ExecutingOf(places, sessions, runs)[s] = None
         /\ ExecutingOf(places, sessions, runs)
              = [s \in Sessions |-> ExecutingOf(places, sessions, runs)[s]]
<1>1. ASSUME NEW s \in Sessions, NEW w \in Workers, places[w] = "process", sessions[w] = s
      PROVE  ExecutingOf(places, sessions, runs)[s] = runs[w]
  <2>1. PICK c : c = CHOOSE v \in Workers : places[v] = "process" /\ sessions[v] = s
    OBVIOUS
  <2>2. c \in Workers /\ places[c] = "process" /\ sessions[c] = s
    BY <1>1, <2>1, Zenon
  <2>3. c = w
    BY <1>1, <2>2
  <2> QED BY <1>1, <2>1, <2>3 DEF ExecutingOf
<1>2. ASSUME NEW s \in Sessions, \A w \in Workers : ~(places[w] = "process" /\ sessions[w] = s)
      PROVE  ExecutingOf(places, sessions, runs)[s] = None
  BY <1>2 DEF ExecutingOf
<1>3. ExecutingOf(places, sessions, runs) = [s \in Sessions |-> ExecutingOf(places, sessions, runs)[s]]
  BY DEF ExecutingOf
<1> QED BY <1>1, <1>2, <1>3

\* What Executing is before and after a step.
LEMMA ExecutingOfState ==
  /\ Executing = ExecutingOf(pc, session, run)
  /\ Executing' = ExecutingOf(pc', session', run')
BY DEF Executing, ExecutingOf

\* A step that moves no worker to or from processing, and leaves the runs and
\* sessions of those that are processing, leaves the runs in execution.
LEMMA ExecutingKept ==
  ASSUME MutexInv, MutexInv',
         \A v \in Workers : pc'[v] = "process" <=> pc[v] = "process",
         \A v \in Workers : pc[v] = "process" => session'[v] = session[v] /\ run'[v] = run[v]
  PROVE  Executing' = Executing
<1>1. /\ \A v, w \in Workers : (v # w /\ pc[v] = "process" /\ pc[w] = "process") => session[v] # session[w]
      /\ \A v, w \in Workers : (v # w /\ pc'[v] = "process" /\ pc'[w] = "process") => session'[v] # session'[w]
  BY DEF MutexInv, DrainerHoldsLock, Draining
<1>2. ASSUME NEW s \in Sessions
      PROVE  ExecutingOf(pc', session', run')[s] = ExecutingOf(pc, session, run)[s]
  <2>1. CASE \E w \in Workers : pc[w] = "process" /\ session[w] = s
    <3>1. PICK w \in Workers : pc[w] = "process" /\ session[w] = s
      BY <2>1
    <3>2. ExecutingOf(pc, session, run)[s] = run[w]
      BY <1>1, <3>1, ExecutingValues
    <3>3. ExecutingOf(pc', session', run')[s] = run'[w]
      BY <1>1, <3>1, ExecutingValues
    <3> QED BY <3>1, <3>2, <3>3
  <2>2. CASE \A w \in Workers : ~(pc[w] = "process" /\ session[w] = s)
    <3>1. ExecutingOf(pc, session, run)[s] = None
      BY <1>1, <2>2, ExecutingValues
    <3>2. \A w \in Workers : ~(pc'[w] = "process" /\ session'[w] = s)
      BY <2>2
    <3>3. ExecutingOf(pc', session', run')[s] = None
      BY <1>1, <3>2, ExecutingValues
    <3> QED BY <3>1, <3>3
  <2> QED BY <2>1, <2>2
<1>3. ExecutingOf(pc', session', run') = ExecutingOf(pc, session, run)
  BY <1>2 DEF ExecutingOf
<1> QED BY <1>3, ExecutingOfState

\* Worker w begins or ends processing in session s: only s changes.
LEMMA ExecutingMoves ==
  ASSUME MutexInv, MutexInv', NEW w \in Workers, pc[w] \in Draining,
         \A v \in Workers : v # w => pc'[v] = pc[v] /\ session'[v] = session[v] /\ run'[v] = run[v],
         pc'[w] = "process" => session'[w] = session[w]
  PROVE  /\ session[w] \in Sessions
         /\ pc[w] = "process" => Executing[session[w]] = run[w]
         /\ pc[w] # "process" => Executing[session[w]] = None
         /\ pc'[w] = "process" => Executing' = [Executing EXCEPT ![session[w]] = run'[w]]
         /\ pc'[w] # "process" => Executing' = [Executing EXCEPT ![session[w]] = None]
<1>0. session[w] \in Sessions
  BY DEF MutexInv, TypeInv, HasSession
<1>1. /\ \A v, u \in Workers : (v # u /\ pc[v] = "process" /\ pc[u] = "process") => session[v] # session[u]
      /\ \A v, u \in Workers : (v # u /\ pc'[v] = "process" /\ pc'[u] = "process") => session'[v] # session'[u]
  BY DEF MutexInv, DrainerHoldsLock, Draining
<1>2. \A v \in Workers : v # w /\ pc[v] = "process" => session[v] # session[w]
  BY LockExcludes DEF MutexInv, SerialDrain, Draining
<1>3. pc[w] = "process" => ExecutingOf(pc, session, run)[session[w]] = run[w]
  BY <1>0, <1>1, ExecutingValues
<1>4. pc[w] # "process" => ExecutingOf(pc, session, run)[session[w]] = None
  <2> HAVE pc[w] # "process"
  <2>1. \A v \in Workers : ~(pc[v] = "process" /\ session[v] = session[w])
    BY <1>2
  <2> QED BY <1>0, <1>1, <2>1, ExecutingValues
<1>5. pc'[w] = "process" => ExecutingOf(pc', session', run')[session[w]] = run'[w]
  BY <1>0, <1>1, ExecutingValues
<1>6. pc'[w] # "process" => ExecutingOf(pc', session', run')[session[w]] = None
  <2> HAVE pc'[w] # "process"
  <2>1. \A v \in Workers : ~(pc'[v] = "process" /\ session'[v] = session[w])
    BY <1>2
  <2> QED BY <1>0, <1>1, <2>1, ExecutingValues
<1>7. ASSUME NEW s \in Sessions, s # session[w]
      PROVE  ExecutingOf(pc', session', run')[s] = ExecutingOf(pc, session, run)[s]
  <2>1. CASE \E v \in Workers : pc[v] = "process" /\ session[v] = s
    <3>1. PICK v \in Workers : pc[v] = "process" /\ session[v] = s
      BY <2>1
    <3>2. v # w
      BY <1>7, <3>1
    <3>3. ExecutingOf(pc, session, run)[s] = run[v]
      BY <1>1, <3>1, ExecutingValues
    <3>4. ExecutingOf(pc', session', run')[s] = run'[v]
      BY <1>1, <3>1, <3>2, ExecutingValues
    <3> QED BY <3>2, <3>3, <3>4
  <2>2. CASE \A v \in Workers : ~(pc[v] = "process" /\ session[v] = s)
    <3>1. ExecutingOf(pc, session, run)[s] = None
      BY <1>1, <2>2, ExecutingValues
    <3>2. \A v \in Workers : ~(pc'[v] = "process" /\ session'[v] = s)
      BY <1>7, <2>2
    <3>3. ExecutingOf(pc', session', run')[s] = None
      BY <1>1, <3>2, ExecutingValues
    <3> QED BY <3>1, <3>3
  <2> QED BY <2>1, <2>2
<1>8. /\ ExecutingOf(pc, session, run) = [s \in Sessions |-> ExecutingOf(pc, session, run)[s]]
      /\ ExecutingOf(pc', session', run') = [s \in Sessions |-> ExecutingOf(pc', session', run')[s]]
  BY DEF ExecutingOf
<1>9. PICK e, f : e = ExecutingOf(pc, session, run) /\ f = ExecutingOf(pc', session', run')
  OBVIOUS
<1>10. ASSUME NEW x, f[session[w]] = x PROVE f = [e EXCEPT ![session[w]] = x]
  BY <1>0, <1>7, <1>8, <1>9, <1>10
<1>11. pc'[w] = "process" => f = [e EXCEPT ![session[w]] = run'[w]]
  BY <1>5, <1>9, <1>10
<1>12. pc'[w] # "process" => f = [e EXCEPT ![session[w]] = None]
  BY <1>6, <1>9, <1>10
<1>13. e = Executing /\ f = Executing'
  BY <1>9, ExecutingOfState
<1> QED BY <1>0, <1>3, <1>4, <1>9, <1>11, <1>12, <1>13

\* The initial states map to initial states.
LEMMA SerialInit == Init => Serial!Init
<1> SUFFICES ASSUME Init PROVE Serial!Init
  OBVIOUS
<1>1. Executing = [s \in Sessions |-> None]
  BY DEF Init, Executing
<1> QED BY <1>1 DEF Init, QueueInit, Serial!Init

\* Every step maps to a step of the abstract specification, or to none: enqueue
\* submits, a dequeue begins, the end of processing finishes, a crash in
\* processing interrupts, and a dequeue whose reply is lost loses the run.
LEMMA SerialStep ==
  ASSUME MutexInv, MutexInv', [Next]_vars
  PROVE  [Serial!Next]_(Serial!serialVars)
<1>t. /\ pc \in [Workers -> PCs] /\ session \in [Workers -> Sessions \cup {None}]
      /\ run \in [Workers -> Runs \cup {None}]
      /\ queue \in [Sessions -> Seq(Runs)] /\ QueueTypeOK
  BY DEF MutexInv, TypeInv, TypeOK, QueueTypeOK
<1>0. ASSUME queue' = queue, submitted' = submitted, done' = done, orphaned' = orphaned,
             \A v \in Workers : pc'[v] = "process" <=> pc[v] = "process",
             \A v \in Workers : pc[v] = "process" => session'[v] = session[v] /\ run'[v] = run[v]
      PROVE  UNCHANGED Serial!serialVars
  <2>1. Executing' = Executing
    BY <1>0, ExecutingKept
  <2> QED BY <1>0, <2>1 DEF Serial!serialVars
<1>1. ASSUME NEW r \in Runs, NEW prio \in Priorities, NEW p \in Hints, EnqueueRun(r, prio, p)
      PROVE  Serial!Submit(r)
  <2>1. pc' = pc /\ session' = session /\ run' = run
    BY <1>1 DEF EnqueueRun, workerVars
  <2>2. Executing' = Executing
    BY <2>1, ExecutingKept
  <2>3. /\ r \notin submitted \/ r \in orphaned
        /\ queue' = [queue EXCEPT ![SessionOf[r]] = Append(queue[SessionOf[r]], r)]
        /\ submitted' = submitted \cup {r} /\ orphaned' = orphaned \ {r} /\ done' = done
    BY <1>1 DEF EnqueueRun, Enqueue
  <2> QED BY <2>2, <2>3 DEF Serial!Submit
<1>2. ASSUME NEW s \in Sessions, NEW p \in Hints, MovePlacement(s, p) PROVE UNCHANGED Serial!serialVars
  BY <1>0, <1>2 DEF MovePlacement, queueVars, workerVars
<1>3. ASSUME NEW s \in Sessions, LockExpires(s) PROVE UNCHANGED Serial!serialVars
  BY <1>0, <1>3 DEF LockExpires, ExpireSessionLock, workerVars, envVars
<1>4. ASSUME NEW w \in Workers,
             \/ Start(w) \/ RecoverStaleRuns(w) \/ LoopTop(w) \/ ClaimSession(w) \/ ClaimMisses(w)
             \/ ClaimFails(w) \/ AcquireLock(w) \/ AcquireFails(w) \/ LoseRaceForLock(w)
             \/ RestoreClaim(w) \/ RestoreClaimFails(w)
      PROVE  UNCHANGED Serial!serialVars
  <2>1. queue' = queue /\ run' = run /\ UNCHANGED envVars
    BY <1>4 DEF Start, RecoverStaleRuns, LoopTop, ClaimSession, ClaimMisses, ClaimFails, AcquireLock,
       AcquireFails, LoseRaceForLock, RestoreClaim, RestoreClaimFails, ClaimCompatibleSession, ClaimNothing,
       TryAcquireSessionLock, RequeueSessionIfPending, queueVars
  <2>2. /\ \A v \in Workers : v # w => pc'[v] = pc[v] /\ session'[v] = session[v]
        /\ pc'[w] # "process" /\ pc[w] # "process"
    BY <1>4, <1>t DEF Start, RecoverStaleRuns, LoopTop, ClaimSession, ClaimMisses, ClaimFails, AcquireLock,
       AcquireFails, LoseRaceForLock, RestoreClaim, RestoreClaimFails
  <2>3. /\ \A v \in Workers : pc'[v] = "process" <=> pc[v] = "process"
        /\ \A v \in Workers : pc[v] = "process" => session'[v] = session[v] /\ run'[v] = run[v]
    BY <2>1, <2>2
  <2> QED BY <1>0, <2>1, <2>3 DEF envVars
<1>5. ASSUME NEW w \in Workers,
             \/ StopDraining(w) \/ PeekRun(w) \/ PeekFails(w) \/ DescribeRun(w) \/ RejectRun(w)
             \/ DescribeFails(w) \/ RestoreRejected(w) \/ RestoreRejectedFails(w)
             \/ DequeueFindsNothing(w) \/ ReleaseLock(w) \/ ReleaseFails(w)
      PROVE  UNCHANGED Serial!serialVars
  <2>1. queue' = queue /\ run' = run /\ UNCHANGED envVars
    BY <1>5 DEF StopDraining, PeekRun, PeekFails, DescribeRun, RejectRun, DescribeFails, RestoreRejected,
       RestoreRejectedFails, DequeueFindsNothing, ReleaseLock, ReleaseFails, ReleaseSessionLock,
       RequeueSessionIfPending, LeaveDrain, AfterRelease, queueVars
  <2>2. /\ \A v \in Workers : v # w => pc'[v] = pc[v] /\ session'[v] = session[v]
        /\ pc'[w] # "process" /\ pc[w] # "process"
    BY <1>5, <1>t DEF StopDraining, PeekRun, PeekFails, DescribeRun, RejectRun, DescribeFails, RestoreRejected,
       RestoreRejectedFails, DequeueFindsNothing, ReleaseLock, ReleaseFails, LeaveDrain, AfterRelease
  <2>3. /\ \A v \in Workers : pc'[v] = "process" <=> pc[v] = "process"
        /\ \A v \in Workers : pc[v] = "process" => session'[v] = session[v] /\ run'[v] = run[v]
    BY <2>1, <2>2
  <2> QED BY <1>0, <2>1, <2>3 DEF envVars
<1>6. ASSUME NEW w \in Workers, Close(w) PROVE UNCHANGED Serial!serialVars
  BY <1>0, <1>6 DEF Close, queueVars, envVars
<1>7. ASSUME NEW w \in Workers, Dequeue(w) PROVE session[w] \in Sessions /\ Serial!Begin(session[w])
  <2>1. /\ pc[w] \in Draining /\ pc[w] # "process" /\ pc'[w] = "process"
        /\ session' = session /\ run'[w] = Head(queue[session[w]])
        /\ \A v \in Workers : v # w => pc'[v] = pc[v] /\ run'[v] = run[v]
    BY <1>7, <1>t DEF Dequeue, Draining
  <2>2. /\ session[w] \in Sessions /\ Executing[session[w]] = None
        /\ Executing' = [Executing EXCEPT ![session[w]] = run'[w]]
    BY <2>1, ExecutingMoves
  <2>3. /\ queue[session[w]] # <<>>
        /\ queue' = [queue EXCEPT ![session[w]] = Tail(queue[session[w]])]
        /\ submitted' = submitted /\ done' = done /\ orphaned' = orphaned
    BY <1>7 DEF Dequeue, DequeueRun, Pending, envVars
  <2> QED BY <2>1, <2>2, <2>3 DEF Serial!Begin
<1>8. ASSUME NEW w \in Workers, DequeueFails(w)
      PROVE  UNCHANGED Serial!serialVars \/ (session[w] \in Sessions /\ Serial!Lose(session[w]))
  <2>1. /\ pc[w] \in Draining /\ pc[w] # "process" /\ pc'[w] # "process"
        /\ session' = session /\ run' = run
        /\ \A v \in Workers : v # w => pc'[v] = pc[v]
        /\ submitted' = submitted /\ done' = done /\ orphaned' = orphaned
    BY <1>8, <1>t DEF DequeueFails, LeaveDrain, Draining, envVars
  <2>2. CASE UNCHANGED queueVars
    BY <1>0, <2>1, <2>2 DEF queueVars
  <2>3. CASE DequeueRun(session[w])
    <3>1. /\ session[w] \in Sessions /\ Executing[session[w]] = None
      BY <2>1, ExecutingMoves
    <3>2. Executing' = Executing
      BY <2>1, ExecutingKept
    <3>3. /\ queue[session[w]] # <<>>
          /\ queue' = [queue EXCEPT ![session[w]] = Tail(queue[session[w]])]
      BY <2>3 DEF DequeueRun, Pending
    <3> QED BY <2>1, <3>1, <3>2, <3>3 DEF Serial!Lose
  <2> QED BY <1>8, <2>2, <2>3 DEF DequeueFails
<1>9. ASSUME NEW w \in Workers, pc[w] = "process" PROVE run[w] # None /\ pc[w] \in Draining
  BY <1>9, QueueAssumption DEF MutexInv, TypeInv, HasRun, Draining
<1>10. ASSUME NEW w \in Workers, ProcessRun(w) PROVE session[w] \in Sessions /\ Serial!Finish(session[w])
  <2>1. /\ pc[w] = "process" /\ pc'[w] # "process" /\ session' = session
        /\ \A v \in Workers : v # w => pc'[v] = pc[v] /\ run'[v] = run[v]
        /\ done' = done \cup {run[w]} /\ queue' = queue /\ submitted' = submitted /\ orphaned' = orphaned
    BY <1>10, <1>t DEF ProcessRun, queueVars
  <2>2. /\ session[w] \in Sessions /\ Executing[session[w]] = run[w]
        /\ Executing' = [Executing EXCEPT ![session[w]] = None]
    BY <1>9, <2>1, ExecutingMoves
  <2> QED BY <1>9, <2>1, <2>2 DEF Serial!Finish
<1>11. ASSUME NEW w \in Workers, Crash(w)
       PROVE  UNCHANGED Serial!serialVars \/ (session[w] \in Sessions /\ Serial!Interrupt(session[w]))
  <2>1. /\ pc'[w] # "process"
        /\ \A v \in Workers : v # w => pc'[v] = pc[v] /\ session'[v] = session[v] /\ run'[v] = run[v]
        /\ queue' = queue /\ submitted' = submitted /\ done' = done
        /\ orphaned' = IF pc[w] = "process" THEN orphaned \cup {run[w]} ELSE orphaned
    BY <1>11, <1>t DEF Crash, queueVars
  <2>2. CASE pc[w] = "process"
    <3>1. /\ session[w] \in Sessions /\ Executing[session[w]] = run[w]
          /\ Executing' = [Executing EXCEPT ![session[w]] = None]
      BY <1>9, <2>1, <2>2, ExecutingMoves
    <3> QED BY <1>9, <2>1, <2>2, <3>1 DEF Serial!Interrupt
  <2>3. CASE pc[w] # "process"
    BY <1>0, <2>1, <2>3
  <2> QED BY <2>2, <2>3
<1>12. CASE UNCHANGED vars
  BY <1>0, <1>12 DEF vars, queueVars, workerVars, envVars
<1> QED
  BY <1>1, <1>2, <1>3, <1>4, <1>5, <1>6, <1>7, <1>8, <1>10, <1>11, <1>12
  DEF Next, LoopStep, FaultStep, Serial!Next

\* The queue, its lock and the worker loops implement serial, in-order,
\* at-most-once execution per session, whatever is closed, crashes or fails, as
\* long as the lock's renewals are on time.
THEOREM WorkersImplementSerial ==
  ASSUME TimelyRenewal
  PROVE  Spec => ImplementsSerial
<1>1. MutexInv /\ MutexInv' /\ [Next]_vars => [Serial!Next]_(Serial!serialVars)
  BY SerialStep
<1> QED BY <1>1, SerialInit, MutexInvariant, PTL DEF Spec, ImplementsSerial, Serial!Spec
=============================================================================
