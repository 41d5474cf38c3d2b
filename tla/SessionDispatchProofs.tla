------------------------ MODULE SessionDispatchProofs ------------------------
(***************************************************************************)
(* Machine-checked proofs about SessionDispatch, for every set of runs and *)
(* of requests, of every mix of kinds.                                     *)
(***************************************************************************)
EXTENDS SessionDispatch, SequenceTheorems, TLAPS

-----------------------------------------------------------------------------
(* Lists of entries.                                                         *)

Distinct(s) == \A i, j \in DOMAIN s : s[i] = s[j] => i = j

\* The entries of a list are of its type, and an empty list has none.
LEMMA RangeIn ==
  ASSUME NEW S, NEW s \in Seq(S)
  PROVE  Range(s) \subseteq S /\ (s = <<>> <=> Range(s) = {})
<1>1. DOMAIN s = 1 .. Len(s) /\ Len(s) \in Nat
  BY LenProperties
<1>2. Range(s) \subseteq S
  BY <1>1, ElementOfSeq DEF Range
<1>3. s = <<>> => Range(s) = {}
  BY <1>1 DEF Range
<1>4. ASSUME s # <<>> PROVE Range(s) # {}
  <2>1. Len(s) # 0
    BY <1>4, EmptySeq
  <2>2. 1 \in DOMAIN s
    BY <1>1, <2>1
  <2>3. QED
    BY <2>2 DEF Range
<1>5. QED
  BY <1>2, <1>3, <1>4

\* A run is added at the end.
LEMMA Appended ==
  ASSUME NEW S, NEW s \in Seq(S), NEW x \in S
  PROVE  /\ Append(s, x) \in Seq(S)
         /\ Range(Append(s, x)) = Range(s) \cup {x}
         /\ Append(s, x) # <<>>
         /\ Distinct(s) /\ x \notin Range(s) => Distinct(Append(s, x))
<1>1. /\ Append(s, x) \in Seq(S)
      /\ Len(Append(s, x)) = Len(s) + 1
      /\ \A i \in 1 .. Len(s) : Append(s, x)[i] = s[i]
      /\ Append(s, x)[Len(s) + 1] = x
  BY AppendProperties
<1>2. /\ DOMAIN s = 1 .. Len(s) /\ Len(s) \in Nat
      /\ DOMAIN Append(s, x) = 1 .. Len(s) + 1
  BY <1>1, LenProperties
<1>3. Range(Append(s, x)) = Range(s) \cup {x}
  BY <1>1, <1>2 DEF Range
<1>4. ASSUME Distinct(s), x \notin Range(s) PROVE Distinct(Append(s, x))
  BY <1>1, <1>2, <1>4 DEF Distinct, Range
<1>5. Append(s, x) # <<>>
  BY <1>1, <1>2, EmptySeq
<1>6. QED
  BY <1>1, <1>3, <1>4, <1>5

\* The first one is taken.
LEMMA Taken ==
  ASSUME NEW S, NEW s \in Seq(S), s # <<>>
  PROVE  /\ Head(s) \in S /\ Tail(s) \in Seq(S)
         /\ Range(s) = {Head(s)} \cup Range(Tail(s))
<1>1. /\ Head(s) \in S /\ Tail(s) \in Seq(S) /\ Head(s) = s[1]
      /\ Len(Tail(s)) = Len(s) - 1
      /\ \A i \in 1 .. Len(s) - 1 : Tail(s)[i] = s[i + 1]
  BY HeadTailProperties
<1>2. /\ DOMAIN s = 1 .. Len(s) /\ Len(s) \in Nat /\ Len(s) # 0
      /\ DOMAIN Tail(s) = 1 .. Len(s) - 1
  BY <1>1, LenProperties, EmptySeq
<1>3. Range(s) \subseteq {Head(s)} \cup Range(Tail(s))
  <2> SUFFICES ASSUME NEW i \in 1 .. Len(s) PROVE s[i] = Head(s) \/ s[i] \in Range(Tail(s))
    BY <1>2 DEF Range
  <2>1. CASE i = 1
    BY <1>1, <2>1
  <2>2. CASE i # 1
    <3>1. i - 1 \in 1 .. Len(s) - 1 /\ s[(i - 1) + 1] = s[i]
      BY <1>2, <2>2
    <3>2. QED
      BY <1>1, <1>2, <3>1 DEF Range
  <2>3. QED
    BY <2>1, <2>2
<1>4. Head(s) \in Range(s) /\ Range(Tail(s)) \subseteq Range(s)
  <2>1. 1 \in DOMAIN s /\ \A i \in 1 .. Len(s) - 1 : i + 1 \in DOMAIN s
    BY <1>2
  <2>2. QED
    BY <1>1, <1>2, <2>1 DEF Range
<1>5. QED
  BY <1>1, <1>3, <1>4

\* An entry is deleted.
LEMMA Deleted ==
  ASSUME NEW S, NEW s \in Seq(S), NEW x
  PROVE  /\ Without(s, x) \in Seq(S)
         /\ Range(Without(s, x)) \subseteq Range(s)
         /\ Range(s) \subseteq Range(Without(s, x)) \cup {x}
         /\ Distinct(s) => x \notin Range(Without(s, x)) /\ Distinct(Without(s, x))
<1>1. CASE x \notin Range(s)
  BY <1>1 DEF Without
<1>2. CASE x \in Range(s)
  <2>0. PICK n \in Nat : n = Len(s)
    BY LenProperties
  <2>1. DOMAIN s = 1 .. n
    BY <2>0, LenProperties
  <2>2. PICK k : k = CHOOSE i \in DOMAIN s : s[i] = x
    OBVIOUS
  <2>3. k \in 1 .. n /\ s[k] = x
    BY <1>2, <2>1, <2>2 DEF Range
  <2>4. PICK t : t = Without(s, x)
    OBVIOUS
  <2>5. t = SubSeq(s, 1, k - 1) \o SubSeq(s, k + 1, n)
    BY <1>2, <2>0, <2>2, <2>4 DEF Without, RemoveAt
  <2>6. PICK a : a = SubSeq(s, 1, k - 1)
    OBVIOUS
  <2>7. PICK b : b = SubSeq(s, k + 1, n)
    OBVIOUS
  <2>8. a \in Seq(S) /\ Len(a) = k - 1 /\ \A i \in 1 .. k - 1 : a[i] = s[i]
    <3>1. 1 \in Int /\ k - 1 \in Int /\ \A i \in 1 .. k - 1 : s[i] \in S
      BY <2>1, <2>3, <2>0, ElementOfSeq
    <3>2. /\ SubSeq(s, 1, k - 1) \in Seq(S)
          /\ Len(SubSeq(s, 1, k - 1)) = IF 1 <= k - 1 THEN k - 1 - 1 + 1 ELSE 0
          /\ \A i \in 1 .. k - 1 - 1 + 1 : SubSeq(s, 1, k - 1)[i] = s[1 + i - 1]
      BY <3>1, SubSeqProperties
    <3>3. k - 1 - 1 + 1 = k - 1 /\ \A i \in 1 .. k - 1 : 1 + i - 1 = i
      BY <2>1, <2>3
    <3>4. Len(a) = k - 1
      BY <2>1, <2>3, <2>6, <3>2
    <3>5. ASSUME NEW i \in 1 .. k - 1 PROVE a[i] = s[i]
      BY <2>6, <3>2, <3>3
    <3>6. QED
      BY <2>6, <3>2, <3>4, <3>5
  <2>9. b \in Seq(S) /\ Len(b) = n - k /\ \A i \in 1 .. n - k : b[i] = s[k + i]
    <3>1. k + 1 \in Int /\ n \in Int /\ \A i \in k + 1 .. n : s[i] \in S
      BY <2>1, <2>3, <2>0, ElementOfSeq
    <3>2. /\ SubSeq(s, k + 1, n) \in Seq(S)
          /\ Len(SubSeq(s, k + 1, n)) = IF k + 1 <= n THEN n - (k + 1) + 1 ELSE 0
          /\ \A i \in 1 .. n - (k + 1) + 1 : SubSeq(s, k + 1, n)[i] = s[k + 1 + i - 1]
      BY <3>1, SubSeqProperties
    <3>3. n - (k + 1) + 1 = n - k /\ \A i \in 1 .. n - k : k + 1 + i - 1 = k + i
      BY <2>1, <2>3
    <3>4. Len(b) = n - k
      BY <2>1, <2>3, <2>7, <3>2
    <3>5. ASSUME NEW i \in 1 .. n - k PROVE b[i] = s[k + i]
      BY <2>7, <3>2, <3>3
    <3>6. QED
      BY <2>7, <3>2, <3>4, <3>5
  <2>10. /\ t \in Seq(S)
         /\ Len(t) = Len(a) + Len(b)
         /\ \A i \in 1 .. Len(a) + Len(b) : t[i] = IF i <= Len(a) THEN a[i] ELSE b[i - Len(a)]
    <3>1. t = a \o b /\ a \in Seq(S) /\ b \in Seq(S)
      BY <2>5, <2>6, <2>7, <2>8, <2>9
    <3>2. QED
      BY <3>1, ConcatProperties
  <2>11. /\ Len(t) = n - 1 /\ DOMAIN t = 1 .. n - 1
         /\ \A i \in 1 .. k - 1 : t[i] = s[i]
         /\ \A i \in k .. n - 1 : t[i] = s[i + 1]
    <3>1. Len(t) = n - 1
      BY <2>1, <2>3, <2>8, <2>9, <2>10
    <3>2. DOMAIN t = 1 .. n - 1
      BY <2>10, <3>1, LenProperties
    <3>3. ASSUME NEW i \in 1 .. k - 1 PROVE t[i] = s[i]
      BY <2>1, <2>3, <2>8, <2>9, <2>10
    <3>4. ASSUME NEW i \in k .. n - 1 PROVE t[i] = s[i + 1]
      <4>1. t[i] = b[i - (k - 1)]
        BY <2>1, <2>3, <2>8, <2>9, <2>10
      <4>2. i - (k - 1) \in 1 .. n - k /\ k + (i - (k - 1)) = i + 1
        BY <2>1, <2>3
      <4>3. QED
        BY <2>9, <4>1, <4>2
    <3>5. QED
      BY <3>1, <3>2, <3>3, <3>4
  <2>12. ASSUME NEW i \in DOMAIN t
         PROVE  \E j \in DOMAIN s : /\ t[i] = s[j] /\ j # k
                                    /\ j = IF i < k THEN i ELSE i + 1
    BY <2>1, <2>3, <2>11
  <2>13. ASSUME NEW j \in DOMAIN s, j # k PROVE s[j] \in Range(t)
    <3>1. CASE j < k
      <4>1. j \in DOMAIN t /\ t[j] = s[j]
        BY <2>1, <2>3, <2>11, <3>1
      <4>2. QED
        BY <4>1 DEF Range
    <3>2. CASE j > k
      <4>1. j - 1 \in k .. n - 1 /\ j - 1 \in DOMAIN t /\ (j - 1) + 1 = j
        BY <2>1, <2>3, <2>11, <3>2
      <4>2. t[j - 1] = s[j]
        BY <2>11, <4>1
      <4>3. QED
        BY <4>1, <4>2 DEF Range
    <3>3. QED
      BY <2>1, <2>3, <2>13, <3>1, <3>2
  <2>14. Range(t) \subseteq Range(s)
    BY <2>12 DEF Range
  <2>15. Range(s) \subseteq Range(t) \cup {x}
    BY <2>3, <2>13 DEF Range
  <2>16. ASSUME Distinct(s) PROVE x \notin Range(t)
    BY <2>1, <2>3, <2>12, <2>16 DEF Range, Distinct
  <2>17. ASSUME Distinct(s) PROVE Distinct(t)
    <3> SUFFICES ASSUME NEW i \in DOMAIN t, NEW j \in DOMAIN t, t[i] = t[j] PROVE i = j
      BY DEF Distinct
    <3>1. PICK m \in DOMAIN s : t[i] = s[m] /\ m = IF i < k THEN i ELSE i + 1
      BY <2>12
    <3>2. PICK l \in DOMAIN s : t[j] = s[l] /\ l = IF j < k THEN j ELSE j + 1
      BY <2>12
    <3>3. m = l
      BY <2>17, <3>1, <3>2 DEF Distinct
    <3>4. i \in Int /\ j \in Int /\ k \in Int
      BY <2>1, <2>3, <2>11
    <3>5. QED
      BY <3>1, <3>2, <3>3, <3>4
  <2>18. QED
    BY <2>4, <2>10, <2>14, <2>15, <2>16, <2>17
<1>3. QED
  BY <1>1, <1>2

\* An entry is moved to the front.
LEMMA Promoted ==
  ASSUME NEW S, NEW s \in Seq(S), NEW x \in Range(s)
  PROVE  /\ <<x>> \o Without(s, x) \in Seq(S)
         /\ Range(<<x>> \o Without(s, x)) = Range(s)
         /\ Distinct(s) => Distinct(<<x>> \o Without(s, x))
<1>1. PICK t : t = Without(s, x)
  OBVIOUS
<1>2. /\ t \in Seq(S) /\ Range(t) \subseteq Range(s) /\ Range(s) \subseteq Range(t) \cup {x}
      /\ Distinct(s) => x \notin Range(t) /\ Distinct(t)
  BY <1>1, Deleted
<1>3. x \in S
  BY RangeIn
<1>4. <<x>> \in Seq(S) /\ Len(<<x>>) = 1 /\ <<x>>[1] = x
  BY <1>3
<1>5. PICK u : u = <<x>> \o t
  OBVIOUS
<1>6. /\ u \in Seq(S) /\ Len(u) = 1 + Len(t)
      /\ \A i \in 1 .. 1 + Len(t) : u[i] = IF i <= 1 THEN <<x>>[i] ELSE t[i - 1]
  BY <1>2, <1>4, <1>5, ConcatProperties
<1>7. DOMAIN t = 1 .. Len(t) /\ Len(t) \in Nat /\ DOMAIN u = 1 .. 1 + Len(t)
  BY <1>2, <1>6, LenProperties
<1>8. u[1] = x /\ 1 \in DOMAIN u /\ \A i \in DOMAIN u : i # 1 => i - 1 \in DOMAIN t /\ u[i] = t[i - 1]
  BY <1>4, <1>6, <1>7
<1>9. \A i \in DOMAIN t : i + 1 \in DOMAIN u /\ u[i + 1] = t[i]
  <2> SUFFICES ASSUME NEW i \in DOMAIN t PROVE i + 1 \in DOMAIN u /\ u[i + 1] = t[i]
    OBVIOUS
  <2>1. i + 1 \in DOMAIN u /\ i + 1 # 1 /\ (i + 1) - 1 = i
    BY <1>7
  <2>2. QED
    BY <1>8, <2>1
<1>10. Range(u) \subseteq {x} \cup Range(t)
  BY <1>8 DEF Range
<1>11. x \in Range(u) /\ Range(t) \subseteq Range(u)
  BY <1>8, <1>9 DEF Range
<1>12. Range(u) = Range(s)
  <2>1. Range(u) \subseteq Range(s)
    BY <1>2, <1>10
  <2>2. Range(s) \subseteq Range(u)
    BY <1>2, <1>11
  <2>3. QED
    BY <2>1, <2>2
<1>13. ASSUME Distinct(s) PROVE Distinct(u)
  <2>1. x \notin Range(t) /\ Distinct(t)
    BY <1>2, <1>13
  <2> SUFFICES ASSUME NEW i \in DOMAIN u, NEW j \in DOMAIN u, u[i] = u[j] PROVE i = j
    BY DEF Distinct
  <2>2. i \in Int /\ j \in Int
    BY <1>7
  <2>3. CASE i = 1 \/ j = 1
    BY <1>8, <2>1, <2>3 DEF Range
  <2>4. CASE i # 1 /\ j # 1
    <3>1. i - 1 = j - 1
      BY <1>8, <2>1, <2>4 DEF Distinct
    <3>2. QED
      BY <2>2, <3>1
  <2>5. QED
    BY <2>3, <2>4
<1>14. QED
  BY <1>1, <1>5, <1>6, <1>12, <1>13

-----------------------------------------------------------------------------
(* The invariant.                                                            *)

\* The request has not handed its run over yet.
Unplaced == {"create", "read", "enqueue"}

\* Where each kind of process can be, and that it has a run in hand when it
\* needs one.
Roles ==
  /\ pc[Executor] \in {"idle", "begin", "running", "dispatch", "select", "delete", "handover"}
  /\ pc[Recovery] \in {"idle", "handover"}
  /\ \A r \in Runs : pc[r] \notin {"idle", "begin", "running"}
  /\ \A g \in Guides : pc[g] \notin {"create", "enqueue", "compact", "promote", "begin", "running"}
Handed ==
  \A p \in Procs :
    pc[p] \in {"delete", "handover", "begin", "running"} \/ (p \in Guides /\ pc[p] = "read") => hand[p] \in Runs

\* A run that its request has not handed over is known to the request only,
\* and a compaction that is executed is not pending.
Fresh ==
  \A r \in Runs :
    /\ pc[r] \in Unplaced =>
         /\ r \notin Range(pending) /\ r \notin Range(queue)
         /\ \A p \in Procs : hand[p] # r
         /\ status[r] \in {"none", "queued"}
    /\ pc[r] = "compact" => r \notin Range(pending)

\* A row exists once the request is past its reads.
Rows == \A r \in Runs : status[r] = "none" => pc[r] \in {"create", "read", "done"}

\* No action waits in the pending table.
Actions ==
  /\ \A r \in Runs : pc[r] = "read" => kind[r] # "action"
  /\ \A r \in Range(pending) : kind[r] # "action"

\* A run that is pending is queued, and nobody is about to execute it or to
\* put it in the queue.
Waiting ==
  /\ Distinct(pending)
  /\ \A r \in Range(pending) :
       /\ status[r] = "queued"
       /\ r \notin Range(queue)
       /\ \A p \in Procs : pc[p] \in {"handover", "begin", "running"} => hand[p] # r

\* The start that no crash and no requeue accounts for: the run has ended, or is
\* executed and its row says so.
Accounted(r) ==
  \/ status[r] = "ended"
  \/ pc[Executor] = "running" /\ hand[Executor] = r /\ status[r] = "running"

\* A run was started once for each crash and each requeue, and once more at most.
Started ==
  \A r \in Runs :
    /\ starts[r] <= 1 + crashes + retries
    /\ ~Accounted(r) => starts[r] <= crashes + retries

\* While there are pending runs somebody has to come to their dispatch.
Awake ==
  \/ missed
  \/ pending = <<>>
  \/ queue # <<>>
  \/ \E p \in Procs : pc[p] = "handover"
  \/ pc[Executor] # "idle"
  \/ \E r \in Runs : status[r] = "running"

Core == TypeOK /\ Roles /\ Handed
DispatchInv == Core /\ Fresh /\ Rows /\ Actions /\ Waiting /\ Started /\ Awake /\ MessageNotForgotten

\* The processes are the requests, the guides, the executor and the recovery,
\* and no two of them are the same.
LEMMA Everyone ==
  /\ Executor \in Procs /\ Recovery \in Procs /\ Executor # Recovery
  /\ \A r \in Runs : r \in Procs /\ r \notin Guides /\ r # Executor /\ r # Recovery
  /\ \A g \in Guides : g \in Procs /\ g # Executor /\ g # Recovery
  /\ NoRun \notin Runs
BY DispatchAssumption DEF Procs


-----------------------------------------------------------------------------
(* The steps.                                                                *)

\* A step that reads, cancels, or lets a process go on without a run.
Quiet(p, x) ==
  /\ pc' = [pc EXCEPT ![p] = x]
  /\ \/ x = pc[p]
     \/ pc[p] = "dispatch" /\ x = "select"
     \/ pc[p] = "dispatch" /\ x = AfterDispatch(p)
     \/ pc[p] = "interrupt" /\ x = "cancel"
     \/ pc[p] = "cancel" /\ x = "done"
     \/ p \in Runs /\ kind[p] = "compact" /\ pc[p] = "read" /\ x = "done"
  /\ missed => missed'
  /\ pc[p] = "dispatch" => x \in {"dispatch", "select"} \/ missed' \/ InFlight # {}
  /\ UNCHANGED <<kind, status, pending, queue, hand, starts, crashes, retries, lost>>

QuietStep ==
  \/ \E p \in Procs : ReadPending(p) \/ ReadRows(p) \/ Interrupt(p) \/ EndInterrupt(p) \/ DispatchRows(p)
  \/ \E p \in Procs, r \in Runs : CancelFound(p, r)
  \/ \E r \in Runs : RefuseCompaction(r) \/ CancelRun(r)

\* Reads, cancellations and interrupts are such steps.
LEMMA QuietTells ==
  ASSUME Core, QuietStep
  PROVE  TypeOK' /\ \E p \in Procs : \E x : Quiet(p, x)
<1> USE Everyone DEF Core
<1>1. ASSUME NEW p \in Procs, ReadPending(p) PROVE TypeOK' /\ Quiet(p, pc[p])
  <2>1. Range(pending) \subseteq Runs
    BY RangeIn DEF TypeOK
  <2>2. reads' \in [Procs -> SUBSET ReadKinds] /\ listed' \in [Procs -> SUBSET Runs]
    BY <1>1, <2>1 DEF ReadPending, TypeOK, ReadKinds
  <2>3. QED
    BY <1>1, <2>2 DEF ReadPending, TypeOK, Quiet, bounds
<1>2. ASSUME NEW p \in Procs, ReadRows(p) PROVE TypeOK' /\ Quiet(p, pc[p])
  <2>1. reads' \in [Procs -> SUBSET ReadKinds] /\ found' \in [Procs -> SUBSET Runs]
    BY <1>2 DEF ReadRows, TypeOK, ReadKinds, ActiveRows
  <2>2. QED
    BY <1>2, <2>1 DEF ReadRows, TypeOK, Quiet, bounds
<1>3. ASSUME NEW p \in Procs, Interrupt(p) PROVE TypeOK' /\ Quiet(p, "cancel")
  BY <1>3 DEF Interrupt, Goto, TypeOK, ActiveRows, Quiet, bounds
<1>4. ASSUME NEW p \in Procs, EndInterrupt(p) PROVE TypeOK' /\ Quiet(p, "done")
  BY <1>4 DEF EndInterrupt, Goto, Forget, TypeOK, Quiet, bounds
<1>5. ASSUME NEW p \in Procs, DispatchRows(p) PROVE TypeOK' /\ \E x : Quiet(p, x)
  <2>1. PICK x \in {"select", AfterDispatch(p)} :
          /\ pc' = [pc EXCEPT ![p] = x] /\ missed' \in BOOLEAN
          /\ missed => missed'
          /\ x = "select" \/ missed' \/ InFlight # {}
    <3>1. CASE ActiveRows \ listed[p] = {}
      BY <1>5, <3>1 DEF DispatchRows, Goto, TypeOK
    <3>2. CASE ActiveRows \ listed[p] # {}
      <4>1. missed' = (missed \/ (ActiveRows \ listed[p]) \cap InFlight = {}) /\ pc' = [pc EXCEPT ![p] = AfterDispatch(p)]
        BY <1>5, <3>2 DEF DispatchRows, Goto
      <4>2. missed' \/ InFlight # {}
        BY <4>1
      <4>3. QED
        BY <4>1, <4>2 DEF TypeOK
    <3>3. QED
      BY <3>1, <3>2
  <2>2. Quiet(p, x)
    BY <1>5, <2>1 DEF DispatchRows, Quiet, bounds
  <2>3. TypeOK'
    BY <1>5, <2>1 DEF DispatchRows, Forget, AfterDispatch, TypeOK, bounds
  <2>4. QED
    BY <2>2, <2>3
<1>6. ASSUME NEW p \in Procs, NEW r \in Runs, CancelFound(p, r) PROVE TypeOK' /\ Quiet(p, pc[p])
  BY <1>6 DEF CancelFound, Mark, TypeOK, Quiet, bounds
<1>7. ASSUME NEW r \in Runs, RefuseCompaction(r) PROVE TypeOK' /\ Quiet(r, "done")
  BY <1>7 DEF RefuseCompaction, HaveRead, Goto, Forget, TypeOK, Quiet, bounds
<1>8. ASSUME NEW r \in Runs, CancelRun(r) PROVE TypeOK' /\ Quiet(r, pc[r])
  BY <1>8 DEF CancelRun, Event, Mark, TypeOK, Quiet, local
<1>9. QED
  BY <1>1, <1>2, <1>3, <1>4, <1>5, <1>6, <1>7, <1>8 DEF QuietStep

\* A run is moved to the front, if it still waits.
Promotes(p) ==
  /\ \E x \in {"interrupt", "dispatch"} : pc' = [pc EXCEPT ![p] = x]
  /\ (p \in Runs /\ pc[p] = "promote") \/ (p \in Guides /\ pc[p] = "read")
  /\ hand' = [hand EXCEPT ![p] = NoRun]
  /\ Range(pending') = Range(pending)
  /\ pending = <<>> => pending' = <<>>
  /\ Distinct(pending) => Distinct(pending')
  /\ UNCHANGED <<kind, status, queue, starts, crashes, retries, lost, missed>>

\* promoteRun is such a step.
LEMMA PromoteTells ==
  ASSUME Core, NEW p \in Procs, Promote(p)
  PROVE  TypeOK' /\ Promotes(p)
<1> USE Everyone DEF Core
<1>1. pending \in Seq(Runs)
  BY DEF TypeOK
<1>2. pending' \in Seq(Runs) /\ Range(pending') = Range(pending) /\ (Distinct(pending) => Distinct(pending'))
  BY <1>1, Promoted DEF Promote
<1>3. PICK x \in {"interrupt", "dispatch"} :
        /\ pc' = [pc EXCEPT ![p] = x]
        /\ reads' \in [Procs -> SUBSET ReadKinds] /\ listed' \in [Procs -> SUBSET Runs]
        /\ found' \in [Procs -> SUBSET Runs]
  <2>1. CASE HasActiveRun(p)
    BY <2>1 DEF Promote, Goto, local, TypeOK
  <2>2. CASE ~HasActiveRun(p)
    BY <2>2 DEF Promote, Goto, Forget, TypeOK
  <2>3. QED
    BY <2>1, <2>2
<1>4. /\ hand' = [hand EXCEPT ![p] = NoRun]
      /\ UNCHANGED <<kind, status, cancel, queue, starts, lost, missed>> /\ UNCHANGED <<managed, events, crashes, retries>>
  BY DEF Promote, bounds
<1>5. (p \in Runs /\ pc[p] = "promote") \/ (p \in Guides /\ pc[p] = "read")
  BY DEF Promote, HaveRead, Roles, Procs
<1>6. TypeOK'
  BY <1>2, <1>3, <1>4 DEF TypeOK
<1>7. pending = <<>> => pending' = <<>>
  <2>1. pending = <<>> => Range(pending) = {}
    BY <1>1, RangeIn
  <2>2. Range(pending') = {} => pending' = <<>>
    BY <1>2, RangeIn
  <2>3. QED
    BY <1>2, <2>1, <2>2
<1>8. QED
  BY <1>2, <1>3, <1>4, <1>5, <1>6, <1>7 DEF Promotes

\* A dispatcher finds nothing to dispatch, or the first entry.
Selects(p) ==
  /\ pc[p] = "select"
  /\ \/ pending = <<>> /\ pc' = [pc EXCEPT ![p] = AfterDispatch(p)] /\ hand' = hand
     \/ /\ pc' = [pc EXCEPT ![p] = "delete"]
        /\ hand' = [hand EXCEPT ![p] = Head(pending)]
        /\ Head(pending) \in Range(pending) /\ Head(pending) \in Runs
  /\ UNCHANGED <<kind, status, pending, queue, starts, crashes, retries, lost, missed>>

\* The select of dequeueNext is such a step.
LEMMA SelectTells ==
  ASSUME Core, NEW p \in Procs, SelectNext(p)
  PROVE  TypeOK' /\ Selects(p)
<1>1. CASE pending = <<>>
  BY <1>1 DEF Core, SelectNext, Selects, Goto, AfterDispatch, local, bounds, TypeOK
<1>2. CASE pending # <<>>
  <2>1. Head(pending) \in Range(pending) /\ Head(pending) \in Runs
    BY <1>2, Taken DEF Core, TypeOK
  <2>2. QED
    BY <1>2, <2>1 DEF Core, SelectNext, Selects, Goto, local, bounds, TypeOK
<1>3. QED
  BY <1>1, <1>2

\* A run begins to wait.
Pends(r) ==
  /\ pc[r] = "read" /\ status[r] = "queued"
  /\ \E x \in {"promote", "done"} : pc' = [pc EXCEPT ![r] = x]
  /\ Range(pending') = Range(pending) \cup {r}
  /\ Distinct(pending) /\ r \notin Range(pending) => Distinct(pending')
  /\ missed' \/ InFlight # {} \/ pc[Executor] # "idle"
  /\ UNCHANGED <<kind, status, queue, hand, starts, crashes, retries, lost>>

\* enqueueRun on the pending table is such a step.
LEMMA PendTells ==
  ASSUME Core, NEW r \in Runs, Pend(r)
  PROVE  TypeOK' /\ Pends(r)
<1> USE Everyone DEF Core
<1>1. PICK x \in {"promote", "done"} :
        /\ pc' = [pc EXCEPT ![r] = x]
        /\ reads' \in [Procs -> SUBSET ReadKinds] /\ listed' \in [Procs -> SUBSET Runs]
        /\ found' \in [Procs -> SUBSET Runs]
  <2>1. CASE kind[r] = "interrupt"
    BY <2>1 DEF Pend, Goto, local, TypeOK
  <2>2. CASE kind[r] # "interrupt"
    BY <2>2 DEF Pend, Goto, Forget, TypeOK
  <2>3. QED
    BY <2>1, <2>2
<1>2. /\ pc[r] = "read" /\ status[r] = "queued" /\ pending' = Append(pending, r)
      /\ UNCHANGED <<kind, status, cancel, queue, hand, starts, lost>> /\ UNCHANGED <<managed, events, crashes, retries>>
  BY DEF Pend, Decided, HaveRead, bounds
<1>3. missed' \in BOOLEAN /\ (missed' \/ InFlight # {} \/ pc[Executor] # "idle")
  BY DEF Pend, TypeOK
<1>4. /\ pending' \in Seq(Runs) /\ Range(pending') = Range(pending) \cup {r}
      /\ Distinct(pending) /\ r \notin Range(pending) => Distinct(pending')
  BY <1>2, Appended DEF TypeOK
<1>5. TypeOK'
  BY <1>1, <1>2, <1>3, <1>4 DEF TypeOK
<1>6. QED
  BY <1>1, <1>2, <1>3, <1>4, <1>5 DEF Pends

\* What is in flight is in the queue, or on its way there, or with the executor.
Flying(r) ==
  \/ r \in Range(queue)
  \/ \E p \in Procs : pc[p] = "handover" /\ hand[p] = r
  \/ pc[Executor] \in {"begin", "running"} /\ hand[Executor] = r

\* The model's set of runs in flight holds exactly these.
LEMMA InFlightIs ==
  ASSUME Core
  PROVE  /\ \A r : r \in InFlight <=> Flying(r)
         /\ InFlight # {} => queue # <<>> \/ (\E p \in Procs : pc[p] = "handover") \/ pc[Executor] \in {"begin", "running"}
<1>1. ASSUME NEW r PROVE r \in InFlight <=> Flying(r)
  <2> DEFINE A == {hand[p] : p \in {q \in Procs : pc[q] = "handover"}}
             B == {hand[p] : p \in {q \in {Executor} : pc[q] \in {"begin", "running"}}}
  <2>1. r \in A <=> \E p \in Procs : pc[p] = "handover" /\ hand[p] = r
    OBVIOUS
  <2>2. r \in B <=> pc[Executor] \in {"begin", "running"} /\ hand[Executor] = r
    OBVIOUS
  <2>3. InFlight = Range(queue) \cup A \cup B
    BY DEF InFlight
  <2> HIDE DEF A, B
  <2>4. QED
    BY <2>1, <2>2, <2>3 DEF Flying
<1>2. queue = <<>> => Range(queue) = {}
  BY RangeIn DEF Core, TypeOK
<1>3. QED
  BY <1>1, <1>2 DEF Flying

-----------------------------------------------------------------------------
(* Each part of the invariant is kept, by every step.                        *)

\* The types.
LEMMA TypesKept ==
  ASSUME Core, Next
  PROVE  TypeOK'
<1> USE Everyone
<1>1. CASE QuietStep
  BY <1>1, QuietTells
<1>2. ASSUME NEW p \in Procs, Promote(p) PROVE TypeOK'
  BY <1>2, PromoteTells
<1>3. ASSUME NEW p \in Procs, SelectNext(p) PROVE TypeOK'
  BY <1>3, SelectTells
<1>4. ASSUME NEW p \in Procs, DeleteNext(p) PROVE TypeOK'
  BY <1>4, Deleted DEF DeleteNext, Goto, Core, TypeOK, Roles, Handed, Forget, local, bounds
<1>5. ASSUME NEW p \in Procs, HandOver(p) PROVE TypeOK'
  BY <1>5, Appended DEF HandOver, Goto, AfterDispatch, Core, TypeOK, Roles, Handed, Forget, local, bounds
<1>6. ASSUME NEW r \in Runs, Create(r) PROVE TypeOK'
  BY <1>6 DEF Create, Goto, Core, TypeOK, Roles, Handed, Forget, local, bounds
<1>7. ASSUME NEW r \in Runs, CreateChild(r) PROVE TypeOK'
  BY <1>7 DEF CreateChild, HaveRead, Core, TypeOK, Roles, Handed, Forget, local, bounds
<1>8. ASSUME NEW r \in Runs, EnqueueDirectly(r) PROVE TypeOK'
  BY <1>8, Appended DEF EnqueueDirectly, Decided, HaveRead, Goto, Core, TypeOK, Roles, Handed, Forget, local, bounds
<1>9. ASSUME NEW r \in Runs, Pend(r) PROVE TypeOK'
  BY <1>9, PendTells
<1>10. ASSUME NEW r \in Runs, BeginCompaction(r) PROVE TypeOK'
  BY <1>10 DEF BeginCompaction, HaveRead, Goto, Core, TypeOK, Roles, Handed, Forget, local, bounds
<1>11. ASSUME NEW r \in Runs, EndCompaction(r) PROVE TypeOK'
  BY <1>11 DEF EndCompaction, Outcomes, Goto, Core, TypeOK, Roles, Handed, Forget, local, bounds
<1>12. ASSUME NEW g \in Guides, NEW r \in Runs, Guide(g, r) PROVE TypeOK'
  BY <1>12 DEF Guide, Event, Goto, Core, TypeOK, Roles, Handed, Forget, local, bounds
<1>13. ASSUME NEW r \in Runs, Requeue(r) PROVE TypeOK'
  BY <1>13 DEF Requeue, Executes, Event, Goto, Core, TypeOK, Roles, Handed, Forget, local, bounds
<1>14. ASSUME NEW r \in Runs, RecoverAsEnded(r) PROVE TypeOK'
  BY <1>14 DEF RecoverAsEnded, Executes, Event, Core, TypeOK, Roles, Handed, Forget, local, bounds
<1>15. ASSUME NEW r \in Runs, HealEntry(r) PROVE TypeOK'
  BY <1>15, Deleted DEF HealEntry, Core, TypeOK, Roles, Handed, Forget, local, bounds
<1>16. CASE Take
  BY <1>16, Taken DEF Take, Goto, Core, TypeOK, Roles, Handed, Forget, local, bounds
<1>17. CASE BeginNothing
  BY <1>17 DEF BeginNothing, Goto, Core, TypeOK, Roles, Handed, Forget, local, bounds
<1>18. CASE Begin
  BY <1>18 DEF Begin, Goto, Core, TypeOK, Roles, Handed, Forget, local, bounds
<1>19. CASE Finish
  BY <1>19 DEF Finish, Goto, Core, TypeOK, Roles, Handed, Forget, local, bounds
<1>20. CASE FinishWithoutDispatch
  BY <1>20 DEF FinishWithoutDispatch, Outcomes, Goto, Core, TypeOK, Roles, Handed, Forget, local, bounds
<1>21. CASE Crash
  BY <1>21 DEF Crash, Event, Goto, Core, TypeOK, Roles, Handed, Forget, local, bounds
<1>22. ASSUME NEW p \in Procs, Die(p) PROVE TypeOK'
  BY <1>22 DEF Die, Event, Goto, Core, TypeOK, Roles, Handed, Forget, local, bounds
<1>23. ASSUME NEW r \in Runs, RequeueByHand(r) PROVE TypeOK'
  BY <1>23 DEF RequeueByHand, Event, Goto, Core, TypeOK, Roles, Handed, Forget, local, bounds
<1>24. ASSUME NEW r \in Runs, HealUnread(r) PROVE TypeOK'
  BY <1>24, Deleted DEF HealUnread, Event, Core, TypeOK, Roles, Handed, Forget, local, bounds
<1>25. QED
  BY <1>1, <1>2, <1>3, <1>4, <1>5, <1>6, <1>7, <1>8, <1>9, <1>10, <1>11, <1>12, <1>13, <1>14, <1>15, <1>16,
     <1>17, <1>18, <1>19, <1>20, <1>21, <1>22, <1>23, <1>24
     DEF Next, QuietStep

\* Who may be where, and with a run in hand.
LEMMA RolesKept ==
  ASSUME Core, Next
  PROVE  Roles' /\ Handed'
<1> USE Everyone
<1>1. CASE QuietStep
  <2>0. PICK p \in Procs : \E x : Quiet(p, x)
    BY <1>1, QuietTells
  <2>1. PICK x : Quiet(p, x)
    BY <2>0
  <2>2. QED
    BY <2>1 DEF Quiet, AfterDispatch, Core, TypeOK, Roles, Handed
<1>2. ASSUME NEW p \in Procs, Promote(p) PROVE Roles' /\ Handed'
  <2>1. Promotes(p)
    BY <1>2, PromoteTells
  <2>2. QED
    BY <2>1 DEF Promotes, Core, TypeOK, Roles, Handed
<1>3. ASSUME NEW p \in Procs, SelectNext(p) PROVE Roles' /\ Handed'
  <2>1. Selects(p)
    BY <1>3, SelectTells
  <2>2. QED
    <3>1. Roles'
      BY <2>1 DEF Selects, AfterDispatch, Core, TypeOK, Roles
    <3>2. Handed'
      BY <2>1 DEF Selects, AfterDispatch, Core, TypeOK, Handed
    <3>3. QED
      BY <3>1, <3>2
<1>4. ASSUME NEW p \in Procs, DeleteNext(p) PROVE Roles' /\ Handed'
  BY <1>4, Deleted DEF DeleteNext, Goto, Core, TypeOK, Roles, Handed
<1>5. ASSUME NEW p \in Procs, HandOver(p) PROVE Roles' /\ Handed'
  BY <1>5, Appended DEF HandOver, Goto, AfterDispatch, Core, TypeOK, Roles, Handed
<1>6. ASSUME NEW r \in Runs, Create(r) PROVE Roles' /\ Handed'
  BY <1>6 DEF Create, Goto, Core, TypeOK, Roles, Handed
<1>7. ASSUME NEW r \in Runs, CreateChild(r) PROVE Roles' /\ Handed'
  BY <1>7 DEF CreateChild, HaveRead, Core, TypeOK, Roles, Handed
<1>8. ASSUME NEW r \in Runs, EnqueueDirectly(r) PROVE Roles' /\ Handed'
  BY <1>8, Appended DEF EnqueueDirectly, Decided, HaveRead, Goto, Core, TypeOK, Roles, Handed
<1>9. ASSUME NEW r \in Runs, Pend(r) PROVE Roles' /\ Handed'
  <2>1. Pends(r)
    BY <1>9, PendTells
  <2>2. QED
    BY <2>1 DEF Pends, Core, TypeOK, Roles, Handed
<1>10. ASSUME NEW r \in Runs, BeginCompaction(r) PROVE Roles' /\ Handed'
  BY <1>10 DEF BeginCompaction, HaveRead, Goto, Core, TypeOK, Roles, Handed
<1>11. ASSUME NEW r \in Runs, EndCompaction(r) PROVE Roles' /\ Handed'
  BY <1>11 DEF EndCompaction, Outcomes, Goto, Core, TypeOK, Roles, Handed
<1>12. ASSUME NEW g \in Guides, NEW r \in Runs, Guide(g, r) PROVE Roles' /\ Handed'
  BY <1>12 DEF Guide, Event, Goto, Core, TypeOK, Roles, Handed
<1>13. ASSUME NEW r \in Runs, Requeue(r) PROVE Roles' /\ Handed'
  BY <1>13 DEF Requeue, Executes, Event, Goto, Core, TypeOK, Roles, Handed
<1>14. ASSUME NEW r \in Runs, RecoverAsEnded(r) PROVE Roles' /\ Handed'
  BY <1>14 DEF RecoverAsEnded, Executes, Event, Core, TypeOK, Roles, Handed
<1>15. ASSUME NEW r \in Runs, HealEntry(r) PROVE Roles' /\ Handed'
  BY <1>15, Deleted DEF HealEntry, Core, TypeOK, Roles, Handed
<1>16. CASE Take
  BY <1>16, Taken DEF Take, Goto, Core, TypeOK, Roles, Handed
<1>17. CASE BeginNothing
  BY <1>17 DEF BeginNothing, Goto, Core, TypeOK, Roles, Handed
<1>18. CASE Begin
  BY <1>18 DEF Begin, Goto, Core, TypeOK, Roles, Handed
<1>19. CASE Finish
  BY <1>19 DEF Finish, Goto, Core, TypeOK, Roles, Handed
<1>20. CASE FinishWithoutDispatch
  BY <1>20 DEF FinishWithoutDispatch, Outcomes, Goto, Core, TypeOK, Roles, Handed
<1>21. CASE Crash
  BY <1>21 DEF Crash, Event, Goto, Core, TypeOK, Roles, Handed
<1>22. ASSUME NEW p \in Procs, Die(p) PROVE Roles' /\ Handed'
  BY <1>22 DEF Die, Event, Goto, Core, TypeOK, Roles, Handed
<1>23. ASSUME NEW r \in Runs, RequeueByHand(r) PROVE Roles' /\ Handed'
  BY <1>23 DEF RequeueByHand, Event, Goto, Core, TypeOK, Roles, Handed
<1>24. ASSUME NEW r \in Runs, HealUnread(r) PROVE Roles' /\ Handed'
  BY <1>24, Deleted DEF HealUnread, Event, Core, TypeOK, Roles, Handed
<1>25. QED
  BY <1>1, <1>2, <1>3, <1>4, <1>5, <1>6, <1>7, <1>8, <1>9, <1>10, <1>11, <1>12, <1>13, <1>14, <1>15, <1>16,
     <1>17, <1>18, <1>19, <1>20, <1>21, <1>22, <1>23, <1>24
     DEF Next, QuietStep

\* A request keeps its run to itself until it hands it over; rows follow.
LEMMA FreshKept ==
  ASSUME Core, Fresh, Rows, Next
  PROVE  Fresh' /\ Rows'
<1> USE Everyone
<1>1. CASE QuietStep
  <2>0. PICK p \in Procs : \E x : Quiet(p, x)
    BY <1>1, QuietTells
  <2>1. PICK x : Quiet(p, x)
    BY <2>0
  <2>2. QED
    BY <2>1 DEF Quiet, AfterDispatch, Core, TypeOK, Roles, Handed, Fresh, Rows, Unplaced
<1>2. ASSUME NEW p \in Procs, Promote(p) PROVE Fresh' /\ Rows'
  <2>1. Promotes(p)
    BY <1>2, PromoteTells
  <2>2. QED
    BY <2>1 DEF Promotes, Core, TypeOK, Roles, Handed, Fresh, Rows, Unplaced
<1>3. ASSUME NEW p \in Procs, SelectNext(p) PROVE Fresh' /\ Rows'
  <2>1. Selects(p)
    BY <1>3, SelectTells
  <2>2. Fresh'
    BY <2>1 DEF Selects, AfterDispatch, Core, TypeOK, Fresh, Unplaced
  <2>3. Rows'
    BY <2>1 DEF Selects, AfterDispatch, Core, TypeOK, Roles, Rows
  <2>4. QED
    BY <2>2, <2>3
<1>4. ASSUME NEW p \in Procs, DeleteNext(p) PROVE Fresh' /\ Rows'
  BY <1>4, Deleted DEF DeleteNext, Goto, Core, TypeOK, Roles, Handed, Fresh, Rows, Unplaced
<1>5. ASSUME NEW p \in Procs, HandOver(p) PROVE Fresh' /\ Rows'
  BY <1>5, Appended DEF HandOver, Goto, AfterDispatch, Core, TypeOK, Roles, Handed, Fresh, Rows, Unplaced
<1>6. ASSUME NEW r \in Runs, Create(r) PROVE Fresh' /\ Rows'
  BY <1>6 DEF Create, Goto, Core, TypeOK, Roles, Handed, Fresh, Rows, Unplaced
<1>7. ASSUME NEW r \in Runs, CreateChild(r) PROVE Fresh' /\ Rows'
  BY <1>7 DEF CreateChild, HaveRead, Core, TypeOK, Roles, Handed, Fresh, Rows, Unplaced
<1>8. ASSUME NEW r \in Runs, EnqueueDirectly(r) PROVE Fresh' /\ Rows'
  BY <1>8, Appended DEF EnqueueDirectly, Decided, HaveRead, Goto, Core, TypeOK, Roles, Handed, Fresh, Rows, Unplaced
<1>9. ASSUME NEW r \in Runs, Pend(r) PROVE Fresh' /\ Rows'
  <2>1. Pends(r)
    BY <1>9, PendTells
  <2>2. QED
    BY <2>1 DEF Pends, Core, TypeOK, Roles, Handed, Fresh, Rows, Unplaced
<1>10. ASSUME NEW r \in Runs, BeginCompaction(r) PROVE Fresh' /\ Rows'
  BY <1>10 DEF BeginCompaction, HaveRead, Goto, Core, TypeOK, Roles, Handed, Fresh, Rows, Unplaced
<1>11. ASSUME NEW r \in Runs, EndCompaction(r) PROVE Fresh' /\ Rows'
  BY <1>11 DEF EndCompaction, Outcomes, Goto, Core, TypeOK, Roles, Handed, Fresh, Rows, Unplaced
<1>12. ASSUME NEW g \in Guides, NEW r \in Runs, Guide(g, r) PROVE Fresh' /\ Rows'
  BY <1>12 DEF Guide, Event, Goto, Core, TypeOK, Roles, Handed, Fresh, Rows, Unplaced
<1>13. ASSUME NEW r \in Runs, Requeue(r) PROVE Fresh' /\ Rows'
  BY <1>13 DEF Requeue, Executes, Event, Goto, Core, TypeOK, Roles, Handed, Fresh, Rows, Unplaced
<1>14. ASSUME NEW r \in Runs, RecoverAsEnded(r) PROVE Fresh' /\ Rows'
  BY <1>14 DEF RecoverAsEnded, Executes, Event, Core, TypeOK, Roles, Handed, Fresh, Rows, Unplaced
<1>15. ASSUME NEW r \in Runs, HealEntry(r) PROVE Fresh' /\ Rows'
  BY <1>15, Deleted DEF HealEntry, Core, TypeOK, Roles, Handed, Fresh, Rows, Unplaced
<1>16. CASE Take
  BY <1>16, Taken DEF Take, Goto, Core, TypeOK, Roles, Handed, Fresh, Rows, Unplaced
<1>17. CASE BeginNothing
  BY <1>17 DEF BeginNothing, Goto, Core, TypeOK, Roles, Handed, Fresh, Rows, Unplaced
<1>18. CASE Begin
  BY <1>18 DEF Begin, Goto, Core, TypeOK, Roles, Handed, Fresh, Rows, Unplaced
<1>19. CASE Finish
  BY <1>19 DEF Finish, Goto, Core, TypeOK, Roles, Handed, Fresh, Rows, Unplaced
<1>20. CASE FinishWithoutDispatch
  BY <1>20 DEF FinishWithoutDispatch, Outcomes, Goto, Core, TypeOK, Roles, Handed, Fresh, Rows, Unplaced
<1>21. CASE Crash
  BY <1>21 DEF Crash, Event, Goto, Core, TypeOK, Roles, Handed, Fresh, Rows, Unplaced
<1>22. ASSUME NEW p \in Procs, Die(p) PROVE Fresh' /\ Rows'
  BY <1>22 DEF Die, Event, Goto, Core, TypeOK, Roles, Handed, Fresh, Rows, Unplaced
<1>23. ASSUME NEW r \in Runs, RequeueByHand(r) PROVE Fresh' /\ Rows'
  BY <1>23 DEF RequeueByHand, Event, Goto, Core, TypeOK, Roles, Handed, Fresh, Rows, Unplaced
<1>24. ASSUME NEW r \in Runs, HealUnread(r) PROVE Fresh' /\ Rows'
  BY <1>24, Deleted DEF HealUnread, Event, Core, TypeOK, Roles, Handed, Fresh, Rows, Unplaced
<1>25. QED
  BY <1>1, <1>2, <1>3, <1>4, <1>5, <1>6, <1>7, <1>8, <1>9, <1>10, <1>11, <1>12, <1>13, <1>14, <1>15, <1>16,
     <1>17, <1>18, <1>19, <1>20, <1>21, <1>22, <1>23, <1>24
     DEF Next, QuietStep

\* An action goes to the queue, never to the pending table.
LEMMA ActionsKept ==
  ASSUME Core, Actions, Next
  PROVE  Actions'
<1> USE Everyone
<1>1. CASE QuietStep
  <2>0. PICK p \in Procs : \E x : Quiet(p, x)
    BY <1>1, QuietTells
  <2>1. PICK x : Quiet(p, x)
    BY <2>0
  <2>2. QED
    BY <2>1 DEF Quiet, AfterDispatch, Core, TypeOK, Actions
<1>2. ASSUME NEW p \in Procs, Promote(p) PROVE Actions'
  <2>1. Promotes(p)
    BY <1>2, PromoteTells
  <2>2. QED
    BY <2>1 DEF Promotes, Core, TypeOK, Actions
<1>3. ASSUME NEW p \in Procs, SelectNext(p) PROVE Actions'
  <2>1. Selects(p)
    BY <1>3, SelectTells
  <2>2. QED
    BY <2>1 DEF Selects, AfterDispatch, Core, TypeOK, Actions
<1>4. ASSUME NEW p \in Procs, DeleteNext(p) PROVE Actions'
  BY <1>4, Deleted DEF DeleteNext, Goto, Core, TypeOK, Actions
<1>5. ASSUME NEW p \in Procs, HandOver(p) PROVE Actions'
  BY <1>5, Appended DEF HandOver, Goto, AfterDispatch, Core, TypeOK, Actions
<1>6. ASSUME NEW r \in Runs, Create(r) PROVE Actions'
  BY <1>6 DEF Create, Goto, Core, TypeOK, Actions
<1>7. ASSUME NEW r \in Runs, CreateChild(r) PROVE Actions'
  BY <1>7 DEF CreateChild, HaveRead, Core, TypeOK, Actions
<1>8. ASSUME NEW r \in Runs, EnqueueDirectly(r) PROVE Actions'
  BY <1>8, Appended DEF EnqueueDirectly, Decided, HaveRead, Goto, Core, TypeOK, Actions
<1>9. ASSUME NEW r \in Runs, Pend(r) PROVE Actions'
  <2>1. Pends(r)
    BY <1>9, PendTells
  <2>2. QED
    BY <2>1 DEF Pends, Core, TypeOK, Actions
<1>10. ASSUME NEW r \in Runs, BeginCompaction(r) PROVE Actions'
  BY <1>10 DEF BeginCompaction, HaveRead, Goto, Core, TypeOK, Actions
<1>11. ASSUME NEW r \in Runs, EndCompaction(r) PROVE Actions'
  BY <1>11 DEF EndCompaction, Outcomes, Goto, Core, TypeOK, Actions
<1>12. ASSUME NEW g \in Guides, NEW r \in Runs, Guide(g, r) PROVE Actions'
  BY <1>12 DEF Guide, Event, Goto, Core, TypeOK, Actions
<1>13. ASSUME NEW r \in Runs, Requeue(r) PROVE Actions'
  BY <1>13 DEF Requeue, Executes, Event, Goto, Core, TypeOK, Actions
<1>14. ASSUME NEW r \in Runs, RecoverAsEnded(r) PROVE Actions'
  BY <1>14 DEF RecoverAsEnded, Executes, Event, Core, TypeOK, Actions
<1>15. ASSUME NEW r \in Runs, HealEntry(r) PROVE Actions'
  BY <1>15, Deleted DEF HealEntry, Core, TypeOK, Actions
<1>16. CASE Take
  BY <1>16, Taken DEF Take, Goto, Core, TypeOK, Actions
<1>17. CASE BeginNothing
  BY <1>17 DEF BeginNothing, Goto, Core, TypeOK, Actions
<1>18. CASE Begin
  BY <1>18 DEF Begin, Goto, Core, TypeOK, Actions
<1>19. CASE Finish
  BY <1>19 DEF Finish, Goto, Core, TypeOK, Actions
<1>20. CASE FinishWithoutDispatch
  BY <1>20 DEF FinishWithoutDispatch, Outcomes, Goto, Core, TypeOK, Actions
<1>21. CASE Crash
  BY <1>21 DEF Crash, Event, Goto, Core, TypeOK, Actions
<1>22. ASSUME NEW p \in Procs, Die(p) PROVE Actions'
  BY <1>22 DEF Die, Event, Goto, Core, TypeOK, Actions
<1>23. ASSUME NEW r \in Runs, RequeueByHand(r) PROVE Actions'
  BY <1>23 DEF RequeueByHand, Event, Goto, Core, TypeOK, Actions
<1>24. ASSUME NEW r \in Runs, HealUnread(r) PROVE Actions'
  BY <1>24, Deleted DEF HealUnread, Event, Core, TypeOK, Actions
<1>25. QED
  BY <1>1, <1>2, <1>3, <1>4, <1>5, <1>6, <1>7, <1>8, <1>9, <1>10, <1>11, <1>12, <1>13, <1>14, <1>15, <1>16,
     <1>17, <1>18, <1>19, <1>20, <1>21, <1>22, <1>23, <1>24
     DEF Next, QuietStep

\* An entry that two dispatchers selected is deleted before either hands it over.
LEMMA WaitingKept ==
  ASSUME Core, Fresh, Waiting, Next
  PROVE  Waiting'
<1> USE Everyone
<1>1. CASE QuietStep
  <2>0. PICK p \in Procs : \E x : Quiet(p, x)
    BY <1>1, QuietTells
  <2>1. PICK x : Quiet(p, x)
    BY <2>0
  <2>2. QED
    BY <2>1, RangeIn DEF Quiet, AfterDispatch, Core, TypeOK, Roles, Handed, Fresh, Unplaced, Waiting
<1>2. ASSUME NEW p \in Procs, Promote(p) PROVE Waiting'
  <2>1. Promotes(p)
    BY <1>2, PromoteTells
  <2>2. QED
    BY <2>1, RangeIn DEF Promotes, Core, TypeOK, Roles, Handed, Fresh, Unplaced, Waiting
<1>3. ASSUME NEW p \in Procs, SelectNext(p) PROVE Waiting'
  <2>1. Selects(p)
    BY <1>3, SelectTells
  <2>2. QED
    BY <2>1, RangeIn DEF Selects, AfterDispatch, Core, TypeOK, Roles, Handed, Fresh, Unplaced, Waiting
<1>4. ASSUME NEW p \in Procs, DeleteNext(p) PROVE Waiting'
  BY <1>4, Deleted, RangeIn DEF DeleteNext, Goto, Core, TypeOK, Roles, Handed, Fresh, Unplaced, Waiting
<1>5. ASSUME NEW p \in Procs, HandOver(p) PROVE Waiting'
  BY <1>5, Appended, RangeIn DEF HandOver, Goto, AfterDispatch, Core, TypeOK, Roles, Handed, Fresh, Unplaced, Waiting
<1>6. ASSUME NEW r \in Runs, Create(r) PROVE Waiting'
  BY <1>6, RangeIn DEF Create, Goto, Core, TypeOK, Roles, Handed, Fresh, Unplaced, Waiting
<1>7. ASSUME NEW r \in Runs, CreateChild(r) PROVE Waiting'
  BY <1>7, RangeIn DEF CreateChild, HaveRead, Core, TypeOK, Roles, Handed, Fresh, Unplaced, Waiting
<1>8. ASSUME NEW r \in Runs, EnqueueDirectly(r) PROVE Waiting'
  BY <1>8, Appended, RangeIn DEF EnqueueDirectly, Decided, HaveRead, Goto, Core, TypeOK, Roles, Handed, Fresh,
     Unplaced, Waiting
<1>9. ASSUME NEW r \in Runs, Pend(r) PROVE Waiting'
  <2>1. Pends(r)
    BY <1>9, PendTells
  <2>2. QED
    BY <2>1, RangeIn DEF Pends, Core, TypeOK, Roles, Handed, Fresh, Unplaced, Waiting
<1>10. ASSUME NEW r \in Runs, BeginCompaction(r) PROVE Waiting'
  BY <1>10, RangeIn DEF BeginCompaction, HaveRead, Goto, Core, TypeOK, Roles, Handed, Fresh, Unplaced, Waiting
<1>11. ASSUME NEW r \in Runs, EndCompaction(r) PROVE Waiting'
  BY <1>11, RangeIn DEF EndCompaction, Outcomes, Goto, Core, TypeOK, Roles, Handed, Fresh, Unplaced, Waiting
<1>12. ASSUME NEW g \in Guides, NEW r \in Runs, Guide(g, r) PROVE Waiting'
  BY <1>12, RangeIn DEF Guide, Event, Goto, Core, TypeOK, Roles, Handed, Fresh, Unplaced, Waiting
<1>13. ASSUME NEW r \in Runs, Requeue(r) PROVE Waiting'
  BY <1>13, RangeIn DEF Requeue, Executes, Event, Goto, Core, TypeOK, Roles, Handed, Fresh, Unplaced, Waiting
<1>14. ASSUME NEW r \in Runs, RecoverAsEnded(r) PROVE Waiting'
  BY <1>14, RangeIn DEF RecoverAsEnded, Executes, Event, Core, TypeOK, Roles, Handed, Fresh, Unplaced, Waiting
<1>15. ASSUME NEW r \in Runs, HealEntry(r) PROVE Waiting'
  BY <1>15, Deleted, RangeIn DEF HealEntry, Core, TypeOK, Roles, Handed, Fresh, Unplaced, Waiting
<1>16. CASE Take
  BY <1>16, Taken, RangeIn DEF Take, Goto, Core, TypeOK, Roles, Handed, Fresh, Unplaced, Waiting
<1>17. CASE BeginNothing
  BY <1>17, RangeIn DEF BeginNothing, Goto, Core, TypeOK, Roles, Handed, Fresh, Unplaced, Waiting
<1>18. CASE Begin
  BY <1>18, RangeIn DEF Begin, Goto, Core, TypeOK, Roles, Handed, Fresh, Unplaced, Waiting
<1>19. CASE Finish
  BY <1>19, RangeIn DEF Finish, Goto, Core, TypeOK, Roles, Handed, Fresh, Unplaced, Waiting
<1>20. CASE FinishWithoutDispatch
  BY <1>20, RangeIn DEF FinishWithoutDispatch, Outcomes, Goto, Core, TypeOK, Roles, Handed, Fresh, Unplaced, Waiting
<1>21. CASE Crash
  BY <1>21, RangeIn DEF Crash, Event, Goto, Core, TypeOK, Roles, Handed, Fresh, Unplaced, Waiting
<1>22. ASSUME NEW p \in Procs, Die(p) PROVE Waiting'
  BY <1>22, RangeIn DEF Die, Event, Goto, Core, TypeOK, Roles, Handed, Fresh, Unplaced, Waiting
<1>23. ASSUME NEW r \in Runs, RequeueByHand(r) PROVE Waiting'
  BY <1>23, RangeIn DEF RequeueByHand, Event, Goto, Core, TypeOK, Roles, Handed, Fresh, Unplaced, Waiting
<1>24. ASSUME NEW r \in Runs, HealUnread(r) PROVE Waiting'
  BY <1>24, Deleted, RangeIn DEF HealUnread, Event, Core, TypeOK, Roles, Handed, Fresh, Unplaced, Waiting
<1>25. QED
  BY <1>1, <1>2, <1>3, <1>4, <1>5, <1>6, <1>7, <1>8, <1>9, <1>10, <1>11, <1>12, <1>13, <1>14, <1>15, <1>16,
     <1>17, <1>18, <1>19, <1>20, <1>21, <1>22, <1>23, <1>24
     DEF Next, QuietStep

\* A run is started only when no earlier start of it is unaccounted for.
LEMMA StartedKept ==
  ASSUME Core, Fresh, Rows, Started, Next
  PROVE  Started'
<1> USE Everyone
<1>1. CASE QuietStep
  <2>0. PICK p \in Procs : \E x : Quiet(p, x)
    BY <1>1, QuietTells
  <2>1. PICK x : Quiet(p, x)
    BY <2>0
  <2>2. QED
    BY <2>1 DEF Quiet, AfterDispatch, Core, TypeOK, Roles, Handed, Fresh, Unplaced, Rows, Started, Accounted, bounds
<1>2. ASSUME NEW p \in Procs, Promote(p) PROVE Started'
  <2>1. Promotes(p)
    BY <1>2, PromoteTells
  <2>2. QED
    BY <2>1 DEF Promotes, Core, TypeOK, Roles, Handed, Fresh, Unplaced, Rows, Started, Accounted, bounds
<1>3. ASSUME NEW p \in Procs, SelectNext(p) PROVE Started'
  <2>1. Selects(p)
    BY <1>3, SelectTells
  <2>2. QED
    BY <2>1 DEF Selects, AfterDispatch, Core, TypeOK, Roles, Handed, Fresh, Unplaced, Rows, Started, Accounted, bounds
<1>4. ASSUME NEW p \in Procs, DeleteNext(p) PROVE Started'
  BY <1>4, Deleted DEF DeleteNext, Goto, Core, TypeOK, Roles, Handed, Fresh, Unplaced, Rows, Started, Accounted, bounds
<1>5. ASSUME NEW p \in Procs, HandOver(p) PROVE Started'
  BY <1>5, Appended DEF HandOver, Goto, AfterDispatch, Core, TypeOK, Roles, Handed, Fresh, Unplaced, Rows,
     Started, Accounted, bounds
<1>6. ASSUME NEW r \in Runs, Create(r) PROVE Started'
  <2>1. status[r] # "ended" /\ hand[Executor] # r
    BY <1>6 DEF Create, Core, TypeOK, Fresh, Unplaced
  <2>2. /\ pc'[Executor] = pc[Executor] /\ hand' = hand /\ starts' = starts
        /\ crashes' = crashes /\ retries' = retries
        /\ \A q \in Runs : q # r => status'[q] = status[q]
    BY <1>6 DEF Create, Goto, Core, TypeOK, bounds
  <2>3. QED
    BY <2>1, <2>2 DEF Started, Accounted
<1>7. ASSUME NEW r \in Runs, CreateChild(r) PROVE Started'
  BY <1>7 DEF CreateChild, HaveRead, Core, TypeOK, Roles, Handed, Fresh, Unplaced, Rows, Started, Accounted, bounds
<1>8. ASSUME NEW r \in Runs, EnqueueDirectly(r) PROVE Started'
  BY <1>8, Appended DEF EnqueueDirectly, Decided, HaveRead, Goto, Core, TypeOK, Roles, Handed, Fresh, Unplaced,
     Rows, Started, Accounted, bounds
<1>9. ASSUME NEW r \in Runs, Pend(r) PROVE Started'
  <2>1. Pends(r)
    BY <1>9, PendTells
  <2>2. QED
    BY <2>1 DEF Pends, Core, TypeOK, Roles, Handed, Fresh, Unplaced, Rows, Started, Accounted, bounds
<1>10. ASSUME NEW r \in Runs, BeginCompaction(r) PROVE Started'
  <2>1. status[r] # "ended" /\ hand[Executor] # r
    BY <1>10 DEF BeginCompaction, HaveRead, Core, TypeOK, Fresh, Unplaced
  <2>2. /\ pc'[Executor] = pc[Executor] /\ hand' = hand /\ starts' = starts
        /\ crashes' = crashes /\ retries' = retries
        /\ \A q \in Runs : q # r => status'[q] = status[q]
    BY <1>10 DEF BeginCompaction, HaveRead, Goto, Core, TypeOK, bounds
  <2>3. QED
    BY <2>1, <2>2 DEF Started, Accounted
<1>11. ASSUME NEW r \in Runs, EndCompaction(r) PROVE Started'
  BY <1>11 DEF EndCompaction, Outcomes, Goto, Core, TypeOK, Roles, Handed, Fresh, Unplaced, Rows, Started, Accounted, bounds
<1>12. ASSUME NEW g \in Guides, NEW r \in Runs, Guide(g, r) PROVE Started'
  BY <1>12 DEF Guide, Event, Goto, Core, TypeOK, Roles, Handed, Fresh, Unplaced, Rows, Started, Accounted, bounds
<1>13. ASSUME NEW r \in Runs, Requeue(r) PROVE Started'
  BY <1>13 DEF Requeue, Executes, Event, Goto, Core, TypeOK, Roles, Handed, Fresh, Unplaced, Rows, Started, Accounted, bounds
<1>14. ASSUME NEW r \in Runs, RecoverAsEnded(r) PROVE Started'
  BY <1>14 DEF RecoverAsEnded, Executes, Event, Core, TypeOK, Roles, Handed, Fresh, Unplaced, Rows, Started, Accounted, bounds
<1>15. ASSUME NEW r \in Runs, HealEntry(r) PROVE Started'
  BY <1>15, Deleted DEF HealEntry, Core, TypeOK, Roles, Handed, Fresh, Unplaced, Rows, Started, Accounted, bounds
<1>16. CASE Take
  BY <1>16, Taken DEF Take, Goto, Core, TypeOK, Roles, Handed, Fresh, Unplaced, Rows, Started, Accounted, bounds
<1>17. CASE BeginNothing
  BY <1>17 DEF BeginNothing, Goto, Core, TypeOK, Roles, Handed, Fresh, Unplaced, Rows, Started, Accounted, bounds
<1>18. CASE Begin
  BY <1>18 DEF Begin, Goto, Core, TypeOK, Roles, Handed, Fresh, Unplaced, Rows, Started, Accounted, bounds
<1>19. CASE Finish
  BY <1>19 DEF Finish, Goto, Core, TypeOK, Roles, Handed, Fresh, Unplaced, Rows, Started, Accounted, bounds
<1>20. CASE FinishWithoutDispatch
  BY <1>20 DEF FinishWithoutDispatch, Outcomes, Goto, Core, TypeOK, Roles, Handed, Fresh, Unplaced, Rows, Started, Accounted, bounds
<1>21. CASE Crash
  BY <1>21 DEF Crash, Event, Goto, Core, TypeOK, Roles, Handed, Fresh, Unplaced, Rows, Started, Accounted, bounds
<1>22. ASSUME NEW p \in Procs, Die(p) PROVE Started'
  BY <1>22 DEF Die, Event, Goto, Core, TypeOK, Roles, Handed, Fresh, Unplaced, Rows, Started, Accounted, bounds
<1>23. ASSUME NEW r \in Runs, RequeueByHand(r) PROVE Started'
  BY <1>23 DEF RequeueByHand, Event, Goto, Core, TypeOK, Roles, Handed, Fresh, Unplaced, Rows, Started, Accounted, bounds
<1>24. ASSUME NEW r \in Runs, HealUnread(r) PROVE Started'
  BY <1>24, Deleted DEF HealUnread, Event, Core, TypeOK, Roles, Handed, Fresh, Unplaced, Rows, Started, Accounted, bounds
<1>25. QED
  BY <1>1, <1>2, <1>3, <1>4, <1>5, <1>6, <1>7, <1>8, <1>9, <1>10, <1>11, <1>12, <1>13, <1>14, <1>15, <1>16,
     <1>17, <1>18, <1>19, <1>20, <1>21, <1>22, <1>23, <1>24
     DEF Next, QuietStep

\* Whoever ends a run dispatches, or is recorded in missed.
LEMMA AwakeKept ==
  ASSUME Core, Fresh, Rows, Awake, Next
  PROVE  Awake'
<1> USE Everyone
<1>1. CASE QuietStep
  <2>0. PICK p \in Procs : \E x : Quiet(p, x)
    BY <1>1, QuietTells
  <2>1. PICK x : Quiet(p, x)
    BY <2>0
  <2>2. CASE missed \/ missed'
    BY <2>1, <2>2 DEF Quiet, Awake
  <2>3. CASE pending = <<>> \/ queue # <<>> \/ \E r \in Runs : status[r] = "running"
    BY <2>1, <2>3 DEF Quiet, Awake
  <2>4. CASE \E q \in Procs : pc[q] = "handover"
    BY <2>1, <2>4 DEF Quiet, AfterDispatch, Core, TypeOK, Awake
  <2>5. CASE pc[Executor] # "idle"
    <3>1. CASE pc'[Executor] # "idle"
      BY <3>1 DEF Awake
    <3>2. CASE pc'[Executor] = "idle"
      <4>1. p = Executor /\ pc[p] = "dispatch" /\ x = "idle"
        BY <2>1, <2>5, <3>2 DEF Quiet, AfterDispatch, Core, TypeOK, Roles
      <4>2. missed' \/ queue # <<>> \/ \E q \in Procs : pc[q] = "handover"
        BY <2>1, <4>1, InFlightIs DEF Quiet
      <4>3. QED
        BY <2>2, <2>3, <2>4, <4>2
    <3>3. QED
      BY <3>1, <3>2
  <2>6. QED
    BY <2>2, <2>3, <2>4, <2>5 DEF Awake
<1>2. ASSUME NEW p \in Procs, Promote(p) PROVE Awake'
  <2>1. Promotes(p)
    BY <1>2, PromoteTells
  <2>2. QED
    BY <2>1 DEF Promotes, Core, TypeOK, Roles, Handed, Rows, Awake
<1>3. ASSUME NEW p \in Procs, SelectNext(p) PROVE Awake'
  <2>1. Selects(p)
    BY <1>3, SelectTells
  <2>2. QED
    BY <2>1 DEF Selects, AfterDispatch, Core, TypeOK, Roles, Handed, Rows, Awake
<1>4. ASSUME NEW p \in Procs, DeleteNext(p) PROVE Awake'
  BY <1>4, Deleted DEF DeleteNext, Goto, Core, TypeOK, Roles, Handed, Rows, Awake
<1>5. ASSUME NEW p \in Procs, HandOver(p) PROVE Awake'
  BY <1>5, Appended DEF HandOver, Goto, AfterDispatch, Core, TypeOK, Roles, Handed, Rows, Awake
<1>6. ASSUME NEW r \in Runs, Create(r) PROVE Awake'
  <2>1. status[r] # "running" /\ pc[r] = "create" /\ r # Executor
    BY <1>6 DEF Create, Core, TypeOK, Fresh, Unplaced
  <2>2. /\ \A q \in Runs : q # r => status'[q] = status[q]
        /\ \A p \in Procs : p # r => pc'[p] = pc[p]
        /\ UNCHANGED <<pending, queue, missed>>
    BY <1>6 DEF Create, Goto, Core, TypeOK
  <2>3. QED
    BY <2>1, <2>2 DEF Awake
<1>7. ASSUME NEW r \in Runs, CreateChild(r) PROVE Awake'
  BY <1>7 DEF CreateChild, HaveRead, Core, TypeOK, Roles, Handed, Rows, Awake
<1>8. ASSUME NEW r \in Runs, EnqueueDirectly(r) PROVE Awake'
  <2>1. queue' # <<>>
    BY <1>8, Appended DEF EnqueueDirectly, Core, TypeOK
  <2>2. QED
    BY <2>1 DEF Awake
<1>9. ASSUME NEW r \in Runs, Pend(r) PROVE Awake'
  <2>1. Pends(r)
    BY <1>9, PendTells
  <2>2. missed' \/ queue # <<>> \/ (\E p \in Procs : pc[p] = "handover") \/ pc[Executor] # "idle"
    BY <2>1, InFlightIs DEF Pends
  <2>3. QED
    BY <2>1, <2>2 DEF Pends, Core, TypeOK, Awake
<1>10. ASSUME NEW r \in Runs, BeginCompaction(r) PROVE Awake'
  BY <1>10 DEF BeginCompaction, HaveRead, Goto, Core, TypeOK, Roles, Handed, Rows, Awake
<1>11. ASSUME NEW r \in Runs, EndCompaction(r) PROVE Awake'
  BY <1>11 DEF EndCompaction, Outcomes, Goto, Core, TypeOK, Roles, Handed, Rows, Awake
<1>12. ASSUME NEW g \in Guides, NEW r \in Runs, Guide(g, r) PROVE Awake'
  BY <1>12 DEF Guide, Event, Goto, Core, TypeOK, Roles, Handed, Rows, Awake
<1>13. ASSUME NEW r \in Runs, Requeue(r) PROVE Awake'
  BY <1>13 DEF Requeue, Executes, Event, Goto, Core, TypeOK, Roles, Handed, Rows, Awake
<1>14. ASSUME NEW r \in Runs, RecoverAsEnded(r) PROVE Awake'
  BY <1>14 DEF RecoverAsEnded, Executes, Event, Core, TypeOK, Roles, Handed, Rows, Awake
<1>15. ASSUME NEW r \in Runs, HealEntry(r) PROVE Awake'
  BY <1>15, RangeIn DEF HealEntry, Core, TypeOK, Awake
<1>16. CASE Take
  BY <1>16, Taken DEF Take, Goto, Core, TypeOK, Roles, Handed, Rows, Awake
<1>17. CASE BeginNothing
  BY <1>17 DEF BeginNothing, Goto, Core, TypeOK, Roles, Handed, Rows, Awake
<1>18. CASE Begin
  BY <1>18 DEF Begin, Goto, Core, TypeOK, Roles, Handed, Rows, Awake
<1>19. CASE Finish
  BY <1>19 DEF Finish, Goto, Core, TypeOK, Roles, Handed, Rows, Awake
<1>20. CASE FinishWithoutDispatch
  BY <1>20 DEF FinishWithoutDispatch, Outcomes, Goto, Core, TypeOK, Roles, Handed, Rows, Awake
<1>21. CASE Crash
  BY <1>21 DEF Crash, Event, Goto, Core, TypeOK, Roles, Handed, Rows, Awake
<1>22. ASSUME NEW p \in Procs, Die(p) PROVE Awake'
  BY <1>22 DEF Die, Event, Goto, Core, TypeOK, Roles, Handed, Rows, Awake
<1>23. ASSUME NEW r \in Runs, RequeueByHand(r) PROVE Awake'
  BY <1>23 DEF RequeueByHand, Event, Goto, Core, TypeOK, Roles, Handed, Rows, Awake
<1>24. ASSUME NEW r \in Runs, HealUnread(r) PROVE Awake'
  BY <1>24, RangeIn DEF HealUnread, Core, TypeOK, Awake
<1>25. QED
  BY <1>1, <1>2, <1>3, <1>4, <1>5, <1>6, <1>7, <1>8, <1>9, <1>10, <1>11, <1>12, <1>13, <1>14, <1>15, <1>16,
     <1>17, <1>18, <1>19, <1>20, <1>21, <1>22, <1>23, <1>24
     DEF Next, QuietStep

\* A run is put in its next place in the step that takes it from the last one,
\* or by the process that has it in hand.
LEMMA AcceptedKept ==
  ASSUME Core, Fresh, Actions, MessageNotForgotten, Next
  PROVE  MessageNotForgotten'
<1> USE Everyone
<1>1. CASE QuietStep
  <2>0. PICK p \in Procs : \E x : Quiet(p, x)
    BY <1>1, QuietTells
  <2>1. PICK x : Quiet(p, x)
    BY <2>0
  <2>2. QED
    BY <2>1 DEF Quiet, AfterDispatch, Core, TypeOK, Roles, Handed, Fresh, Unplaced, Actions,
       MessageNotForgotten, Placed
<1>2. ASSUME NEW p \in Procs, Promote(p) PROVE MessageNotForgotten'
  <2>1. Promotes(p)
    BY <1>2, PromoteTells
  <2>2. QED
    BY <2>1 DEF Promotes, Core, TypeOK, Roles, Handed, Fresh, Unplaced, Actions, MessageNotForgotten, Placed
<1>3. ASSUME NEW p \in Procs, SelectNext(p) PROVE MessageNotForgotten'
  <2>1. Selects(p)
    BY <1>3, SelectTells
  <2>2. QED
    BY <2>1 DEF Selects, AfterDispatch, Core, TypeOK, Roles, Handed, Fresh, Unplaced, Actions,
       MessageNotForgotten, Placed
<1>4. ASSUME NEW p \in Procs, DeleteNext(p) PROVE MessageNotForgotten'
  BY <1>4, Deleted DEF DeleteNext, Goto, Core, TypeOK, Roles, Handed, Fresh, Unplaced, Actions,
     MessageNotForgotten, Placed
<1>5. ASSUME NEW p \in Procs, HandOver(p) PROVE MessageNotForgotten'
  BY <1>5, Appended DEF HandOver, Goto, AfterDispatch, Core, TypeOK, Roles, Handed, Fresh, Unplaced, Actions,
     MessageNotForgotten, Placed
<1>6. ASSUME NEW r \in Runs, Create(r) PROVE MessageNotForgotten'
  BY <1>6 DEF Create, Goto, Core, TypeOK, Roles, Handed, Fresh, Unplaced, Actions, MessageNotForgotten, Placed
<1>7. ASSUME NEW r \in Runs, CreateChild(r) PROVE MessageNotForgotten'
  BY <1>7 DEF CreateChild, HaveRead, Core, TypeOK, Roles, Handed, Fresh, Unplaced, Actions, MessageNotForgotten,
     Placed
<1>8. ASSUME NEW r \in Runs, EnqueueDirectly(r) PROVE MessageNotForgotten'
  BY <1>8, Appended DEF EnqueueDirectly, Decided, HaveRead, Goto, Core, TypeOK, Roles, Handed, Fresh, Unplaced,
     Actions, MessageNotForgotten, Placed
<1>9. ASSUME NEW r \in Runs, Pend(r) PROVE MessageNotForgotten'
  <2>1. Pends(r)
    BY <1>9, PendTells
  <2>2. QED
    BY <2>1 DEF Pends, Core, TypeOK, Roles, Handed, Fresh, Unplaced, Actions, MessageNotForgotten, Placed
<1>10. ASSUME NEW r \in Runs, BeginCompaction(r) PROVE MessageNotForgotten'
  BY <1>10 DEF BeginCompaction, HaveRead, Goto, Core, TypeOK, Roles, Handed, Fresh, Unplaced, Actions,
     MessageNotForgotten, Placed
<1>11. ASSUME NEW r \in Runs, EndCompaction(r) PROVE MessageNotForgotten'
  BY <1>11 DEF EndCompaction, Outcomes, Goto, Core, TypeOK, Roles, Handed, Fresh, Unplaced, Actions, MessageNotForgotten, Placed
<1>12. ASSUME NEW g \in Guides, NEW r \in Runs, Guide(g, r) PROVE MessageNotForgotten'
  BY <1>12 DEF Guide, Event, Goto, Core, TypeOK, Roles, Handed, Fresh, Unplaced, Actions, MessageNotForgotten, Placed
<1>13. ASSUME NEW r \in Runs, Requeue(r) PROVE MessageNotForgotten'
  BY <1>13 DEF Requeue, Executes, Event, Goto, Core, TypeOK, Roles, Handed, Fresh, Unplaced, Actions,
     MessageNotForgotten, Placed
<1>14. ASSUME NEW r \in Runs, RecoverAsEnded(r) PROVE MessageNotForgotten'
  BY <1>14 DEF RecoverAsEnded, Executes, Event, Core, TypeOK, Roles, Handed, Fresh, Unplaced, Actions,
     MessageNotForgotten, Placed
<1>15. ASSUME NEW r \in Runs, HealEntry(r) PROVE MessageNotForgotten'
  BY <1>15, Deleted DEF HealEntry, ByMessage, Core, TypeOK, Roles, Handed, Fresh, Unplaced, Actions,
     MessageNotForgotten, Placed
<1>16. CASE Take
  BY <1>16, Taken DEF Take, Goto, Core, TypeOK, Roles, Handed, Fresh, Unplaced, Actions, MessageNotForgotten, Placed
<1>17. CASE BeginNothing
  BY <1>17 DEF BeginNothing, Goto, Core, TypeOK, Roles, Handed, Fresh, Unplaced, Actions, MessageNotForgotten, Placed
<1>18. CASE Begin
  BY <1>18 DEF Begin, Goto, Core, TypeOK, Roles, Handed, Fresh, Unplaced, Actions, MessageNotForgotten, Placed
<1>19. CASE Finish
  BY <1>19 DEF Finish, Goto, Core, TypeOK, Roles, Handed, Fresh, Unplaced, Actions, MessageNotForgotten, Placed
<1>20. CASE FinishWithoutDispatch
  BY <1>20 DEF FinishWithoutDispatch, Outcomes, Goto, Core, TypeOK, Roles, Handed, Fresh, Unplaced, Actions,
     MessageNotForgotten, Placed
<1>21. CASE Crash
  BY <1>21 DEF Crash, Event, Goto, Core, TypeOK, Roles, Handed, Fresh, Unplaced, Actions, MessageNotForgotten, Placed
<1>22. ASSUME NEW p \in Procs, Die(p) PROVE MessageNotForgotten'
  <2> SUFFICES ASSUME NEW r \in Runs, status'[r] = "queued", kind'[r] \in {"message", "interrupt", "action"}
               PROVE  Placed(r)' \/ r \in lost'
    BY DEF MessageNotForgotten
  <2>1. Placed(r) \/ r \in lost
    BY <1>22 DEF Die, MessageNotForgotten
  <2>2. /\ \A q \in Procs : q # p => pc'[q] = pc[q] /\ hand'[q] = hand[q]
        /\ UNCHANGED <<pending, queue>> /\ lost \subseteq lost'
    BY <1>22 DEF Die, Goto, Core, TypeOK
  <2>3. CASE p = r
    <3>1. pc[p] \in {"read", "enqueue"} => r \in lost'
      BY <1>22, <2>3 DEF Die
    <3>2. hand[p] = r /\ pc[p] \in {"handover", "begin"} => r \in lost'
      BY <1>22, <2>3 DEF Die, Core, Roles
    <3>3. QED
      BY <2>1, <2>2, <2>3, <3>1, <3>2 DEF Placed
  <2>4. CASE p # r
    <3>1. hand[p] = r /\ pc[p] \in {"handover", "begin"} => r \in lost'
      <4>1. pc[p] # "begin"
        BY <1>22 DEF Die, Core, Roles, Procs
      <4>2. QED
        BY <1>22, <4>1 DEF Die
    <3>2. QED
      BY <2>1, <2>2, <2>4, <3>1 DEF Placed
  <2>5. QED
    BY <2>3, <2>4
<1>23. ASSUME NEW r \in Runs, RequeueByHand(r) PROVE MessageNotForgotten'
  BY <1>23 DEF RequeueByHand, Event, Goto, Core, TypeOK, Roles, Handed, Fresh, Unplaced, Actions, MessageNotForgotten, Placed
<1>24. ASSUME NEW r \in Runs, HealUnread(r) PROVE MessageNotForgotten'
  BY <1>24, Deleted DEF HealUnread, Event, Core, TypeOK, Roles, Handed, Fresh, Unplaced, Actions, MessageNotForgotten, Placed
<1>25. QED
  BY <1>1, <1>2, <1>3, <1>4, <1>5, <1>6, <1>7, <1>8, <1>9, <1>10, <1>11, <1>12, <1>13, <1>14, <1>15, <1>16,
     <1>17, <1>18, <1>19, <1>20, <1>21, <1>22, <1>23, <1>24
     DEF Next, QuietStep

-----------------------------------------------------------------------------
(* The theorems.                                                             *)

\* A session without runs satisfies the invariant.
LEMMA InitDispatchInv == Init => DispatchInv
<1> SUFFICES ASSUME Init PROVE DispatchInv
  OBVIOUS
<1> USE Everyone
<1>0. kind \in [Runs -> RunKinds]
  BY DispatchAssumption DEF Init
<1>1. <<>> \in Seq(Runs) /\ Range(<<>>) = {}
  BY DEF Range
<1>2. pc \in [Procs -> {"idle", "read", "create"}]
  BY DEF Init
<1>3. TypeOK
  <2>1. /\ status \in [Runs -> {"none", "queued", "running", "ended"}] /\ starts \in [Runs -> Nat]
        /\ hand \in [Procs -> Runs \cup {NoRun}]
        /\ reads \in [Procs -> SUBSET ReadKinds] /\ listed \in [Procs -> SUBSET Runs] /\ found \in [Procs -> SUBSET Runs]
    BY DEF Init
  <2>2. cancel \in [Runs -> BOOLEAN] /\ missed \in BOOLEAN
    BY DEF Init
  <2>3. QED
    BY <1>0, <1>1, <1>2, <2>1, <2>2 DEF Init, TypeOK
<1>4. Roles /\ Handed
  BY DEF Init, Roles, Handed
<1>5. Fresh /\ Rows
  BY <1>1, <1>2 DEF Init, Fresh, Rows, Unplaced
<1>6. Actions
  <2>1. ASSUME NEW r \in Runs, pc[r] = "read" PROVE kind[r] # "action"
    BY <2>1 DEF Init, ReadsFirst
  <2>2. QED
    BY <1>1, <2>1 DEF Init, Actions
<1>7. Waiting /\ Started /\ Awake
  BY <1>1 DEF Init, Waiting, Started, Awake, Distinct
<1>8. MessageNotForgotten
  BY DEF Init, MessageNotForgotten
<1>9. QED
  BY <1>3, <1>4, <1>5, <1>6, <1>7, <1>8 DEF DispatchInv, Core

\* Every step keeps the invariant.
LEMMA DispatchInvStep == DispatchInv /\ [Next]_vars => DispatchInv'
<1>1. ASSUME DispatchInv, Next PROVE DispatchInv'
  <2>1. Core /\ Fresh /\ Rows /\ Actions /\ Waiting /\ Started /\ Awake /\ MessageNotForgotten
    BY <1>1 DEF DispatchInv
  <2>2. Core'
    BY <1>1, <2>1, TypesKept, RolesKept DEF Core
  <2>3. Fresh' /\ Rows'
    BY <1>1, <2>1, FreshKept
  <2>4. Actions' /\ Waiting'
    BY <1>1, <2>1, ActionsKept, WaitingKept
  <2>5. Started' /\ Awake'
    BY <1>1, <2>1, StartedKept, AwakeKept
  <2>6. MessageNotForgotten'
    BY <1>1, <2>1, AcceptedKept
  <2>7. QED
    BY <2>2, <2>3, <2>4, <2>5, <2>6 DEF DispatchInv
<1>2. ASSUME DispatchInv, UNCHANGED vars PROVE DispatchInv'
  BY <1>2 DEF vars, local, bounds, DispatchInv, Core, TypeOK, Roles, Handed, Fresh, Rows, Actions, Waiting, Started,
              Accounted, Awake, MessageNotForgotten, Placed
<1>3. QED
  BY <1>1, <1>2

\* Every state of every behaviour satisfies the inductive invariant.
THEOREM DispatchInvariance == Spec => []DispatchInv
<1>1. QED
  BY InitDispatchInv, DispatchInvStep, PTL DEF Spec

\* The tables, the queue and the processes keep their types: in particular no
\* dispatcher hands over a run that it has not found (dispatchNextQueuedRun).
THEOREM DispatchTypeCorrect == Spec => []TypeOK
<1>1. DispatchInv => TypeOK
  BY DEF DispatchInv, Core
<1>2. QED
  BY <1>1, DispatchInvariance, PTL

\* A run that waits in the pending table waits there once and is nowhere else,
\* although dispatchers delete entries that others have selected, promotions
\* move them and listings remove them (repositories.ts, dequeueNext).
THEOREM PendingExclusive == Spec => []PendingIsExclusive
<1>1. ASSUME DispatchInv PROVE PendingIsExclusive
  <2>1. Core /\ Waiting
    BY <1>1 DEF DispatchInv
  <2> SUFFICES ASSUME NEW i \in DOMAIN pending
               PROVE  /\ status[pending[i]] = "queued"
                      /\ pending[i] \notin InFlight
                      /\ \A j \in DOMAIN pending : pending[i] = pending[j] => i = j
    BY DEF PendingIsExclusive
  <2>2. pending[i] \in Range(pending)
    BY DEF Range
  <2>3. ~Flying(pending[i])
    BY <2>1, <2>2, Everyone DEF Waiting, Flying
  <2>4. QED
    BY <2>1, <2>2, <2>3, InFlightIs DEF Waiting, Distinct
<1>2. QED
  BY <1>1, DispatchInvariance, PTL

\* An accepted message or action is in the pending table, in the run queue or
\* in somebody's hands as long as its row is queued (session-engine.ts,
\* createSessionMessage; dispatchNextQueuedRun; listSessionQueuedRuns), unless
\* one of the four steps that MessageNotForgotten names lost it: the death of
\* the executor, of a request, or of a dispatcher or recovery with the run in
\* hand, or a listing that failed to read its row.
THEOREM AcceptedNotForgotten == Spec => []MessageNotForgotten
<1>1. DispatchInv => MessageNotForgotten
  BY DEF DispatchInv
<1>2. QED
  BY <1>1, DispatchInvariance, PTL

\* However often its id reaches the queue, a run is started once, and once more
\* for each death of the executor and each requeue of a run that was executed
\* or had ended (processRun's check of the row's status).
THEOREM StartedOnce == Spec => []StartedOncePerCrash
<1>1. DispatchInv => StartedOncePerCrash
  BY DEF DispatchInv, Started, StartedOncePerCrash
<1>2. QED
  BY <1>1, DispatchInvariance, PTL

\* A session in which nothing moves leaves no run pending, unless one of the
\* steps that NothingStrandedOtherwise names came before: of the steps of this
\* module, no other strands a run.
THEOREM StrandedOnlyWhenMissed == Spec => []NothingStrandedOtherwise
<1>1. ASSUME DispatchInv, Quiescent, ~missed PROVE pending = <<>>
  <2>1. Core /\ Rows /\ Awake
    BY <1>1 DEF DispatchInv
  <2>2. ASSUME NEW p \in Procs PROVE pc[p] # "handover"
    <3>1. CASE p \in Runs
      BY <1>1, <2>1, <3>1 DEF Quiescent, Rows
    <3>2. CASE p \notin Runs
      BY <1>1, <3>2 DEF Quiescent, Procs
    <3>3. QED
      BY <3>1, <3>2
  <2>3. QED
    BY <1>1, <2>1, <2>2 DEF Quiescent, Awake
<1>2. DispatchInv => NothingStrandedOtherwise
  BY <1>1 DEF NothingStrandedOtherwise
<1>3. QED
  BY <1>2, DispatchInvariance, PTL
=============================================================================
