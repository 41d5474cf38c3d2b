--------------------------- MODULE SessionRunQueue ---------------------------
(***************************************************************************)
(* The Redis-backed session run queue (RedisSessionRunQueue of             *)
(* packages/storage-redis/src/run-queue.ts).  It has two layers: one FIFO  *)
(* of run ids per session, and one global "ready" list that says which     *)
(* sessions are worth looking at.  A set kept beside the ready list avoids *)
(* listing a session twice, a per-session key holds the worker (or runtime *)
(* instance) that should serve it, and a per-session lock says which       *)
(* worker drains it.                                                       *)
(*                                                                         *)
(* Each Lua script, and each single Redis command, runs atomically, so     *)
(* each one is one operator here, and relates the keys before and after.   *)
(* Keys that are absent in Redis hold None.                                *)
(***************************************************************************)
EXTENDS Naturals, Sequences, FiniteSets, Functions

CONSTANTS
  Sessions,           \* session ids
  Runs,               \* run ids
  Workers,            \* worker ids
  Instances,          \* runtime instance ids (one per process)
  InstanceOf,         \* the runtime instance each worker belongs to
  None,               \* an absent key or value
  ClaimScanLimit,     \* OAH_REDIS_READY_QUEUE_CLAIM_SCAN_LIMIT
  PressureScanLimit   \* OAH_REDIS_READY_QUEUE_PRESSURE_SCAN_LIMIT

ASSUME QueueAssumption ==
  /\ InstanceOf \in [Workers -> Instances]
  /\ ClaimScanLimit \in Nat \ {0}
  /\ PressureScanLimit \in Nat \ {0}
  /\ None \notin Sessions \cup Runs \cup Workers \cup Instances

VARIABLES
  queue,        \* session:<id>:queue             a list of run ids
  readyList,    \* runs:ready                     a list of session ids
  readySet,     \* the members recorded as being in readyList
  preferred,    \* session:<id>:preferred-worker
  priority,     \* session:<id>:ready-priority
  lock          \* session:<id>:lock

queueVars == <<queue, readyList, readySet, preferred, priority, lock>>

Priorities == {"normal", "subagent"}
Targets == Workers \cup Instances

QueueTypeOK ==
  /\ queue \in [Sessions -> Seq(Runs)]
  /\ readyList \in Seq(Sessions)
  /\ readySet \in SUBSET Sessions
  /\ preferred \in [Sessions -> Targets \cup {None}]
  /\ priority \in [Sessions -> Priorities \cup {None}]
  /\ lock \in [Sessions -> Workers \cup {None}]

QueueInit ==
  /\ queue = [s \in Sessions |-> <<>>]
  /\ readyList = <<>>
  /\ readySet = {}
  /\ preferred = [s \in Sessions |-> None]
  /\ priority = [s \in Sessions |-> None]
  /\ lock = [s \in Sessions |-> None]

Pending(s) == queue[s] # <<>>

SeqMin(a, b) == IF a < b THEN a ELSE b

-----------------------------------------------------------------------------
(* enqueue: append the run; only the run that makes the queue non-empty     *)
(* announces the session, at the front of the ready list for a subagent.    *)

\* Mutated form: the length after the push is compared with the wrong number.
EnqueueOffByOne(s, r, prio, p) ==
  LET announce == Len(queue[s]) = 1 /\ s \notin readySet IN
  /\ queue' = [queue EXCEPT ![s] = Append(@, r)]
  /\ preferred' = [preferred EXCEPT ![s] = p]
  /\ priority' = [priority EXCEPT ![s] = IF Len(queue[s]) = 0 THEN prio ELSE @]
  /\ readySet' = IF announce THEN readySet \cup {s} ELSE readySet
  /\ readyList' = IF announce THEN Append(readyList, s) ELSE readyList
  /\ UNCHANGED lock

\* Mutated form: a subagent's run jumps its session's queue, not the ready list.
EnqueueJumpsQueue(s, r, prio, p) ==
  LET first == Len(queue[s]) = 0
      announce == first /\ s \notin readySet IN
  /\ queue' = [queue EXCEPT ![s] = IF prio = "subagent" THEN <<r>> \o @ ELSE Append(@, r)]
  /\ preferred' = [preferred EXCEPT ![s] = p]
  /\ priority' = [priority EXCEPT ![s] = IF first THEN prio ELSE @]
  /\ readySet' = IF announce THEN readySet \cup {s} ELSE readySet
  /\ readyList' = IF announce THEN Append(readyList, s) ELSE readyList
  /\ UNCHANGED lock

Enqueue(s, r, prio, p) ==
  LET first == Len(queue[s]) = 0
      announce == first /\ s \notin readySet IN
  /\ queue' = [queue EXCEPT ![s] = Append(@, r)]
  /\ preferred' = [preferred EXCEPT ![s] = p]
  /\ priority' = [priority EXCEPT ![s] = IF first THEN prio ELSE @]
  /\ readySet' = IF announce THEN readySet \cup {s} ELSE readySet
  /\ readyList' = IF ~announce THEN readyList
                  ELSE IF prio = "subagent" THEN <<s>> \o readyList
                  ELSE Append(readyList, s)
  /\ UNCHANGED lock

-----------------------------------------------------------------------------
(* claimNextSession: pop entries from the front until one is compatible     *)
(* with the worker, pushing the incompatible ones to the back.              *)

Compatible(s, w) == preferred[s] \in {None, w, InstanceOf[w]}

Scanned == SeqMin(ClaimScanLimit, Len(readyList))

\* The entry at position i is the first one that w may take.
ClaimsAt(w, i) ==
  /\ i \in 1 .. Scanned
  /\ Compatible(readyList[i], w)
  /\ \A j \in 1 .. i - 1 : ~Compatible(readyList[j], w)

ClaimCompatibleSession(w, i) ==
  /\ ClaimsAt(w, i)
  /\ readyList' = SubSeq(readyList, i + 1, Len(readyList)) \o SubSeq(readyList, 1, i - 1)
  /\ readySet' = readySet \ {readyList[i]}
  /\ UNCHANGED <<queue, preferred, priority, lock>>

\* Nothing claimable: every scanned entry went to the back.
ClaimNothing(w) ==
  /\ \A i \in 1 .. Scanned : ~Compatible(readyList[i], w)
  /\ readyList' = SubSeq(readyList, Scanned + 1, Len(readyList)) \o SubSeq(readyList, 1, Scanned)
  /\ UNCHANGED <<queue, readySet, preferred, priority, lock>>

-----------------------------------------------------------------------------
(* requeueSessionIfPending: list the session again if it has runs.          *)

\* Mutated form: the set is not consulted and not updated by the restore.
RequeueWithoutList(s, p) ==
  /\ preferred' = IF Pending(s) /\ p # None THEN [preferred EXCEPT ![s] = p] ELSE preferred
  /\ readySet' = IF Pending(s) THEN readySet \cup {s} ELSE readySet
  /\ UNCHANGED <<queue, readyList, priority, lock>>

RequeueSessionIfPending(s, p) ==
  /\ preferred' = IF Pending(s) /\ p # None THEN [preferred EXCEPT ![s] = p] ELSE preferred
  /\ readySet' = IF Pending(s) THEN readySet \cup {s} ELSE readySet
  /\ readyList' = IF Pending(s) /\ s \notin readySet THEN Append(readyList, s) ELSE readyList
  /\ UNCHANGED <<queue, priority, lock>>

-----------------------------------------------------------------------------
(* dequeueRun: pop the oldest run.  Emptying the queue deletes the session's *)
(* scheduling keys and its set membership; a ready-list entry, if there is   *)
(* one, stays behind as a stale entry.                                       *)
DequeueRun(s) ==
  LET last == Len(queue[s]) = 1 IN
  /\ Pending(s)
  /\ queue' = [queue EXCEPT ![s] = Tail(@)]
  /\ preferred' = IF last THEN [preferred EXCEPT ![s] = None] ELSE preferred
  /\ priority' = IF last THEN [priority EXCEPT ![s] = None] ELSE priority
  /\ readySet' = IF last THEN readySet \ {s} ELSE readySet
  /\ UNCHANGED <<readyList, lock>>

-----------------------------------------------------------------------------
(* The session lock.  A token names one acquisition of one worker; a worker  *)
(* has at most one acquisition in progress, so the worker stands for it.     *)

TryAcquireSessionLock(s, w) ==
  /\ lock[s] = None
  /\ lock' = [lock EXCEPT ![s] = w]
  /\ UNCHANGED <<queue, readyList, readySet, preferred, priority>>

\* Mutated form: a plain DEL instead of the compare-and-delete script.
ReleaseAnyLock(s, w) ==
  /\ lock' = [lock EXCEPT ![s] = None]
  /\ UNCHANGED <<queue, readyList, readySet, preferred, priority>>

ReleaseSessionLock(s, w) ==
  /\ lock' = [lock EXCEPT ![s] = IF @ = w THEN None ELSE @]
  /\ UNCHANGED <<queue, readyList, readySet, preferred, priority>>

\* The lock's TTL runs out before it is renewed.
ExpireSessionLock(s) ==
  /\ lock[s] # None
  /\ lock' = [lock EXCEPT ![s] = None]
  /\ UNCHANGED <<queue, readyList, readySet, preferred, priority>>

-----------------------------------------------------------------------------
(* getSchedulingPressure: what the pool and the controller size workers by.  *)
(* Only the first PressureScanLimit entries are looked at; when more are     *)
(* listed the count falls back to the raw depth of the ready list.           *)

\* Mutated form: only the sampled entries count, however long the list is.
SchedulingPressureSampled ==
  LET sampled == Range(SubSeq(readyList, 1, SeqMin(PressureScanLimit, Len(readyList))))
      pending == {s \in sampled : Pending(s)}
      schedulable == {s \in pending : lock[s] = None}
  IN [ readySessionCount        |-> Cardinality(schedulable),
       readyQueueDepth          |-> Len(readyList),
       uniqueReadySessionCount  |-> Cardinality(sampled),
       subagentReadySessionCount |-> Cardinality({s \in schedulable : priority[s] = "subagent"}),
       preferredReadySessionCount |-> Cardinality({s \in schedulable : preferred[s] # None}),
       lockedReadySessionCount  |-> Cardinality(pending \ schedulable),
       staleReadySessionCount   |-> Cardinality(sampled \ pending) ]

SchedulingPressure ==
  LET sampledDepth == SeqMin(PressureScanLimit, Len(readyList))
      sampled == Range(SubSeq(readyList, 1, sampledDepth))
      pending == {s \in sampled : Pending(s)}
      schedulable == {s \in pending : lock[s] = None}
  IN [ readySessionCount        |-> IF Len(readyList) > sampledDepth
                                    THEN Len(readyList) ELSE Cardinality(schedulable),
       readyQueueDepth          |-> Len(readyList),
       uniqueReadySessionCount  |-> Cardinality(sampled),
       subagentReadySessionCount |-> Cardinality({s \in schedulable : priority[s] = "subagent"}),
       preferredReadySessionCount |-> Cardinality({s \in schedulable : preferred[s] # None}),
       lockedReadySessionCount  |-> Cardinality(pending \ schedulable),
       staleReadySessionCount   |-> Cardinality(sampled \ pending) ]
=============================================================================
