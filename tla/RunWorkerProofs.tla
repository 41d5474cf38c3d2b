--------------------------- MODULE RunWorkerProofs ---------------------------
(***************************************************************************)
(* Machine-checked proofs about RunWorker, for every number of sessions,   *)
(* runs, workers and processes.                                            *)
(***************************************************************************)
EXTENDS RunWorker, SequenceTheorems, FunctionTheorems, FiniteSetTheorems, TLAPS

-----------------------------------------------------------------------------
(* Lists.                                                                   *)

\* Appending or prepending an element adds exactly that element.
LEMMA RangeAppend ==
  ASSUME NEW S, NEW q \in Seq(S), NEW x \in S
  PROVE  /\ Append(q, x) \in Seq(S)
         /\ <<x>> \o q \in Seq(S)
         /\ Range(Append(q, x)) = Range(q) \cup {x}
         /\ Range(<<x>> \o q) = Range(q) \cup {x}
<1>1. /\ Append(q, x) \in Seq(S)
      /\ Len(Append(q, x)) = Len(q) + 1
      /\ \A i \in 1 .. Len(q) : Append(q, x)[i] = q[i]
      /\ Append(q, x)[Len(q) + 1] = x
  BY AppendProperties
<1>2. Range(Append(q, x)) = Range(q) \cup {x}
  BY <1>1, LenProperties DEF Range
<1>3. /\ <<x>> \in Seq(S) /\ Len(<<x>>) = 1 /\ <<x>>[1] = x
  OBVIOUS
<1>4. /\ <<x>> \o q \in Seq(S)
      /\ Len(<<x>> \o q) = 1 + Len(q)
      /\ \A i \in 1 .. 1 + Len(q) : (<<x>> \o q)[i] = IF i <= 1 THEN <<x>>[i] ELSE q[i - 1]
  BY <1>3, ConcatProperties
<1>5. Range(<<x>> \o q) = Range(q) \cup {x}
  <2>1. Range(<<x>> \o q) \subseteq Range(q) \cup {x}
    BY <1>3, <1>4, LenProperties DEF Range
  <2>2. x \in Range(<<x>> \o q)
    BY <1>3, <1>4, LenProperties DEF Range
  <2>3. ASSUME NEW i \in 1 .. Len(q) PROVE q[i] \in Range(<<x>> \o q)
    <3>1. i + 1 \in 1 .. 1 + Len(q) /\ (<<x>> \o q)[i + 1] = q[i]
      BY <1>4, LenProperties
    <3> QED BY <3>1, <1>4, LenProperties DEF Range
  <2> QED BY <2>1, <2>2, <2>3, LenProperties DEF Range
<1> QED BY <1>1, <1>2, <1>4, <1>5

\* The pieces of a list that a claim puts together again.
LEMMA Piece ==
  ASSUME NEW S, NEW q \in Seq(S), NEW m \in Nat, NEW n \in Nat, m <= n, n <= Len(q)
  PROVE  /\ SubSeq(q, m + 1, n) \in Seq(S)
         /\ Len(SubSeq(q, m + 1, n)) = n - m
         /\ \A i \in 1 .. n - m : SubSeq(q, m + 1, n)[i] = q[m + i]
<1>0. Len(q) \in Nat
  BY LenProperties
<1>1. \A i \in m + 1 .. n : q[i] \in S
  <2> TAKE i \in m + 1 .. n
  <2>1. i \in 1 .. Len(q)
    BY <1>0
  <2> QED BY <2>1, ElementOfSeq
<1>2. /\ SubSeq(q, m + 1, n) \in Seq(S)
      /\ Len(SubSeq(q, m + 1, n)) = IF m + 1 <= n THEN n - (m + 1) + 1 ELSE 0
      /\ \A i \in 1 .. n - (m + 1) + 1 : SubSeq(q, m + 1, n)[i] = q[m + 1 + i - 1]
  <2>1. m + 1 \in Int /\ n \in Int
    OBVIOUS
  <2> QED BY <1>1, <2>1, SubSeqProperties
<1>3. n - (m + 1) + 1 = n - m /\ \A i \in 1 .. n - m : m + 1 + i - 1 = m + i
  OBVIOUS
<1>4. Len(SubSeq(q, m + 1, n)) = n - m
  BY <1>2
<1>5. ASSUME NEW i \in 1 .. n - m PROVE SubSeq(q, m + 1, n)[i] = q[m + i]
  BY <1>2, <1>3
<1> QED BY <1>2, <1>4, <1>5

\* What is left of a list behind its first m entries.
LEMMA Suffix ==
  ASSUME NEW S, NEW q \in Seq(S), NEW m \in Nat, m <= Len(q)
  PROVE  /\ SubSeq(q, m + 1, Len(q)) \in Seq(S)
         /\ Len(SubSeq(q, m + 1, Len(q))) = Len(q) - m
         /\ \A i \in 1 .. Len(q) - m : SubSeq(q, m + 1, Len(q))[i] = q[m + i]
<1>1. PICK n \in Nat : n = Len(q)
  BY LenProperties
<1>2. m <= n /\ n <= Len(q)
  BY <1>1
<1>3. /\ SubSeq(q, m + 1, n) \in Seq(S)
      /\ Len(SubSeq(q, m + 1, n)) = n - m
      /\ \A i \in 1 .. n - m : SubSeq(q, m + 1, n)[i] = q[m + i]
  BY <1>2, Piece
<1> QED BY <1>1, <1>3

\* Moving the first k entries to the back keeps the same entries; leaving out
\* the entry after them (m = k + 1) removes no other.
LEMMA RotateRange ==
  ASSUME NEW S, NEW q \in Seq(S), NEW k \in Nat, NEW m \in {k, k + 1}, m <= Len(q)
  PROVE  LET t == SubSeq(q, m + 1, Len(q)) \o SubSeq(q, 1, k) IN
         /\ t \in Seq(S)
         /\ Range(t) \subseteq Range(q)
         /\ \A i \in 1 .. Len(q) : i <= k \/ i > m => q[i] \in Range(t)
<1>0. Len(q) \in Nat /\ m \in Nat /\ k <= m /\ DOMAIN q = 1 .. Len(q) /\ 0 + 1 = 1
  BY LenProperties
<1>1. PICK a : a = SubSeq(q, m + 1, Len(q))
  OBVIOUS
<1>2. PICK b : b = SubSeq(q, 1, k)
  OBVIOUS
<1>3. /\ a \in Seq(S) /\ Len(a) = Len(q) - m
      /\ \A i \in 1 .. Len(q) - m : a[i] = q[m + i]
  <2>1. m \in Nat /\ m <= Len(q)
    BY <1>0
  <2>2. /\ SubSeq(q, m + 1, Len(q)) \in Seq(S) /\ Len(SubSeq(q, m + 1, Len(q))) = Len(q) - m
        /\ \A i \in 1 .. Len(q) - m : SubSeq(q, m + 1, Len(q))[i] = q[m + i]
    BY <2>1, Suffix
  <2> QED BY <1>1, <2>2
<1>4. /\ b \in Seq(S) /\ Len(b) = k
      /\ \A i \in 1 .. k : b[i] = q[i]
  <2>1. /\ SubSeq(q, 0 + 1, k) \in Seq(S) /\ Len(SubSeq(q, 0 + 1, k)) = k - 0
        /\ \A i \in 1 .. k - 0 : SubSeq(q, 0 + 1, k)[i] = q[0 + i]
    <3>1. 0 \in Nat /\ 0 <= k /\ k <= Len(q)
      BY <1>0
    <3> QED BY <3>1, Piece
  <2>2. k - 0 = k /\ \A i \in 1 .. k : 0 + i = i
    OBVIOUS
  <2> QED BY <1>0, <1>2, <2>1, <2>2
<1>5. PICK t : t = a \o b
  OBVIOUS
<1>6. /\ t \in Seq(S)
      /\ Len(t) = Len(a) + Len(b)
      /\ \A i \in 1 .. Len(a) + Len(b) : t[i] = IF i <= Len(a) THEN a[i] ELSE b[i - Len(a)]
  BY <1>3, <1>4, <1>5, ConcatProperties
<1>7. /\ Len(t) = Len(q) - m + k
      /\ \A i \in 1 .. Len(q) - m : t[i] = q[m + i]
      /\ \A i \in 1 .. k : t[Len(q) - m + i] = q[i]
      /\ DOMAIN t = 1 .. Len(t)
  <2>1. Len(t) = Len(q) - m + k /\ DOMAIN t = 1 .. Len(t)
    BY <1>0, <1>3, <1>4, <1>6, LenProperties
  <2>2. ASSUME NEW i \in 1 .. Len(q) - m PROVE t[i] = q[m + i]
    <3>1. i \in 1 .. Len(a) + Len(b) /\ i <= Len(a)
      BY <1>0, <1>3, <1>4
    <3> QED BY <3>1, <1>3, <1>6
  <2>3. ASSUME NEW i \in 1 .. k PROVE t[Len(q) - m + i] = q[i]
    <3>1. /\ Len(a) + i \in 1 .. Len(a) + Len(b)
          /\ ~(Len(a) + i <= Len(a))
          /\ Len(a) + i - Len(a) = i
      BY <1>0, <1>3, <1>4
    <3>2. t[Len(a) + i] = b[i]
      BY <3>1, <1>6
    <3> QED BY <3>2, <1>3, <1>4
  <2> QED BY <2>1, <2>2, <2>3
<1>8. Range(t) \subseteq Range(q)
  <2>1. ASSUME NEW i \in 1 .. Len(t) PROVE \E j \in 1 .. Len(q) : t[i] = q[j]
    <3>1. CASE i <= Len(q) - m
      <4>1. i \in 1 .. Len(q) - m /\ m + i \in 1 .. Len(q)
        BY <3>1, <1>0, <1>7
      <4> QED BY <4>1, <1>7
    <3>2. CASE ~(i <= Len(q) - m)
      <4> DEFINE j == i - (Len(q) - m)
      <4>1. j \in 1 .. k /\ j \in 1 .. Len(q) /\ Len(q) - m + j = i
        BY <3>2, <1>0, <1>7
      <4> HIDE DEF j
      <4>2. t[Len(q) - m + j] = q[j]
        BY <4>1, <1>7
      <4> QED BY <4>1, <4>2
    <3> QED BY <3>1, <3>2
  <2>2. DOMAIN t = 1 .. Len(t) /\ DOMAIN q = 1 .. Len(q)
    BY <1>0, <1>7
  <2> QED BY <2>1, <2>2 DEF Range
<1>9. ASSUME NEW i \in 1 .. Len(q), i <= k \/ i > m PROVE q[i] \in Range(t)
  <2>1. \E j \in 1 .. Len(t) : t[j] = q[i]
    <3>1. CASE i <= k
      <4>1. i \in 1 .. k /\ Len(q) - m + i \in 1 .. Len(t)
        BY <3>1, <1>0, <1>7
      <4> QED BY <4>1, <1>7
    <3>2. CASE i > m
      <4>1. i - m \in 1 .. Len(q) - m /\ i - m \in 1 .. Len(t) /\ m + (i - m) = i
        BY <3>2, <1>0, <1>7
      <4>2. t[i - m] = q[m + (i - m)]
        BY <4>1, <1>7
      <4> QED BY <4>1, <4>2
    <3> QED BY <1>9, <3>1, <3>2
  <2> QED BY <2>1, <1>7, Zenon DEF Range
<1> QED BY <1>1, <1>2, <1>5, <1>6, <1>8, <1>9
-----------------------------------------------------------------------------
(* What each queue script preserves.                                        *)

\* enqueue keeps the queue's types, lists a session it records, and drops none.
LEMMA EnqueueLemma ==
  ASSUME QueueTypeOK, NEW s \in Sessions, NEW r \in Runs, NEW prio \in Priorities,
         NEW p \in Targets \cup {None}, Enqueue(s, r, prio, p)
  PROVE  /\ QueueTypeOK'
         /\ ReadySetIsListed => ReadySetIsListed'
         /\ Range(readyList) \subseteq Range(readyList')
         /\ ReadySetIsListed /\ queue[s] = <<>> => s \in Range(readyList')
         /\ \A x \in Sessions : x # s => queue'[x] = queue[x]
         /\ queue'[s] = Append(queue[s], r)
<1> DEFINE announce == Len(queue[s]) = 0 /\ s \notin readySet
<1>1. /\ queue \in [Sessions -> Seq(Runs)] /\ readyList \in Seq(Sessions)
      /\ readySet \in SUBSET Sessions
      /\ preferred \in [Sessions -> Targets \cup {None}]
      /\ priority \in [Sessions -> Priorities \cup {None}]
      /\ lock \in [Sessions -> Workers \cup {None}]
  BY DEF QueueTypeOK
<1>2. /\ queue' = [queue EXCEPT ![s] = Append(queue[s], r)]
      /\ preferred' = [preferred EXCEPT ![s] = p]
      /\ priority' = [priority EXCEPT ![s] = IF Len(queue[s]) = 0 THEN prio ELSE priority[s]]
      /\ readySet' = IF announce THEN readySet \cup {s} ELSE readySet
      /\ readyList' = IF ~announce THEN readyList
                      ELSE IF prio = "subagent" THEN <<s>> \o readyList
                      ELSE Append(readyList, s)
      /\ lock' = lock
  BY <1>1 DEF Enqueue
<1>3. queue' \in [Sessions -> Seq(Runs)]
  <2>1. Append(queue[s], r) \in Seq(Runs)
    BY <1>1, RangeAppend
  <2> QED BY <1>1, <1>2, <2>1
<1>4. /\ readyList' \in Seq(Sessions)
      /\ announce => Range(readyList') = Range(readyList) \cup {s}
      /\ ~announce => readyList' = readyList
  <2>1. /\ Append(readyList, s) \in Seq(Sessions) /\ <<s>> \o readyList \in Seq(Sessions)
        /\ Range(Append(readyList, s)) = Range(readyList) \cup {s}
        /\ Range(<<s>> \o readyList) = Range(readyList) \cup {s}
    BY <1>1, RangeAppend
  <2> HIDE DEF announce
  <2> QED BY <1>1, <1>2, <2>1
<1>5. queue[s] = <<>> => Len(queue[s]) = 0
  OBVIOUS
<1>6. QueueTypeOK'
  <2>1. preferred' \in [Sessions -> Targets \cup {None}] /\ lock' \in [Sessions -> Workers \cup {None}]
    BY <1>1, <1>2
  <2>2. priority' \in [Sessions -> Priorities \cup {None}] /\ readySet' \in SUBSET Sessions
    BY <1>1, <1>2
  <2> QED BY <1>3, <1>4, <2>1, <2>2 DEF QueueTypeOK
<1>7. /\ ReadySetIsListed => ReadySetIsListed'
      /\ Range(readyList) \subseteq Range(readyList')
      /\ ReadySetIsListed /\ queue[s] = <<>> => s \in Range(readyList')
  <2>1. CASE announce
    <3> HIDE DEF announce
    <3> QED BY <1>2, <1>4, <2>1 DEF ReadySetIsListed
  <2>2. CASE ~announce
    BY <1>2, <1>4, <1>5, <2>2 DEF ReadySetIsListed
  <2> QED BY <2>1, <2>2
<1>8. (\A x \in Sessions : x # s => queue'[x] = queue[x]) /\ queue'[s] = Append(queue[s], r)
  BY <1>1, <1>2
<1> QED BY <1>6, <1>7, <1>8

\* A claim that finds a session keeps the types, and takes that session alone
\* off the list and out of the set.
LEMMA ClaimLemma ==
  ASSUME QueueTypeOK, NEW w \in Workers, NEW i \in 1 .. Len(readyList), ClaimCompatibleSession(w, i)
  PROVE  /\ QueueTypeOK'
         /\ readyList[i] \in Sessions
         /\ ReadySetIsListed => ReadySetIsListed'
         /\ \A x \in Range(readyList) : x # readyList[i] => x \in Range(readyList')
         /\ queue' = queue /\ lock' = lock
<1>0. readyList \in Seq(Sessions) /\ Len(readyList) \in Nat /\ DOMAIN readyList = 1 .. Len(readyList)
  BY LenProperties DEF QueueTypeOK
<1>1. readyList[i] \in Sessions
  BY <1>0, ElementOfSeq
<1>2. /\ readyList' = SubSeq(readyList, i + 1, Len(readyList)) \o SubSeq(readyList, 1, i - 1)
      /\ readySet' = readySet \ {readyList[i]}
      /\ queue' = queue /\ preferred' = preferred /\ priority' = priority /\ lock' = lock
  BY DEF ClaimCompatibleSession
<1>3. /\ readyList' \in Seq(Sessions)
      /\ \A j \in 1 .. Len(readyList) : j <= i - 1 \/ j > i => readyList[j] \in Range(readyList')
  <2>1. i - 1 \in Nat /\ i \in {i - 1, (i - 1) + 1} /\ i <= Len(readyList)
    BY <1>0
  <2> QED BY <1>0, <1>2, <2>1, RotateRange
<1>4. ASSUME NEW x \in Range(readyList), x # readyList[i] PROVE x \in Range(readyList')
  <2>1. PICK j \in 1 .. Len(readyList) : x = readyList[j]
    BY <1>0 DEF Range
  <2>2. j <= i - 1 \/ j > i
    BY <1>0, <1>4, <2>1
  <2> QED BY <1>3, <2>1, <2>2
<1>5. QueueTypeOK'
  BY <1>2, <1>3 DEF QueueTypeOK
<1>6. ReadySetIsListed => ReadySetIsListed'
  BY <1>2, <1>4 DEF ReadySetIsListed
<1> QED BY <1>1, <1>2, <1>4, <1>5, <1>6

\* A claim that finds nothing rotates the list and loses no entry.
LEMMA ClaimNothingLemma ==
  ASSUME QueueTypeOK, NEW w \in Workers, ClaimNothing(w)
  PROVE  /\ QueueTypeOK'
         /\ ReadySetIsListed => ReadySetIsListed'
         /\ Range(readyList) \subseteq Range(readyList')
         /\ queue' = queue /\ lock' = lock
<1>0. readyList \in Seq(Sessions) /\ Len(readyList) \in Nat /\ DOMAIN readyList = 1 .. Len(readyList)
  BY LenProperties DEF QueueTypeOK
<1>1. Scanned \in Nat /\ Scanned <= Len(readyList)
  BY <1>0, QueueAssumption DEF Scanned, SeqMin
<1>2. /\ readyList' = SubSeq(readyList, Scanned + 1, Len(readyList)) \o SubSeq(readyList, 1, Scanned)
      /\ readySet' = readySet
      /\ queue' = queue /\ preferred' = preferred /\ priority' = priority /\ lock' = lock
  BY DEF ClaimNothing
<1>3. /\ readyList' \in Seq(Sessions)
      /\ \A j \in 1 .. Len(readyList) : j <= Scanned \/ j > Scanned => readyList[j] \in Range(readyList')
  <2>1. PICK k \in Nat : k = Scanned
    BY <1>1
  <2>2. k \in {k, k + 1} /\ k <= Len(readyList)
    BY <1>1, <2>1
  <2> QED BY <1>0, <1>2, <2>1, <2>2, RotateRange
<1>4. Range(readyList) \subseteq Range(readyList')
  <2> SUFFICES ASSUME NEW x \in Range(readyList) PROVE x \in Range(readyList')
    OBVIOUS
  <2>1. PICK j \in 1 .. Len(readyList) : x = readyList[j]
    BY <1>0 DEF Range
  <2>2. j <= Scanned \/ j > Scanned
    BY <1>0, <1>1
  <2> QED BY <1>3, <2>1, <2>2
<1> QED BY <1>2, <1>3, <1>4 DEF QueueTypeOK, ReadySetIsListed

\* requeueSessionIfPending keeps the types, and afterwards a session with
\* queued runs is listed if the set was sound.
LEMMA RequeueLemma ==
  ASSUME QueueTypeOK, NEW s \in Sessions, NEW p \in Targets \cup {None}, RequeueSessionIfPending(s, p)
  PROVE  /\ QueueTypeOK'
         /\ ReadySetIsListed => ReadySetIsListed'
         /\ Range(readyList) \subseteq Range(readyList')
         /\ ReadySetIsListed /\ Pending(s) => s \in Range(readyList')
         /\ queue' = queue /\ lock' = lock
<1>1. /\ readyList \in Seq(Sessions) /\ readySet \in SUBSET Sessions
      /\ preferred \in [Sessions -> Targets \cup {None}]
  BY DEF QueueTypeOK
<1>2. /\ Append(readyList, s) \in Seq(Sessions)
      /\ Range(Append(readyList, s)) = Range(readyList) \cup {s}
  <2>1. /\ Append(readyList, s) \in Seq(Sessions)
        /\ <<s>> \o readyList \in Seq(Sessions)
        /\ Range(Append(readyList, s)) = Range(readyList) \cup {s}
        /\ Range(<<s>> \o readyList) = Range(readyList) \cup {s}
    BY <1>1, RangeAppend
  <2> QED BY <2>1
<1>3. /\ preferred' = IF Pending(s) /\ p # None THEN [preferred EXCEPT ![s] = p] ELSE preferred
      /\ readySet' = IF Pending(s) THEN readySet \cup {s} ELSE readySet
      /\ readyList' = IF Pending(s) /\ s \notin readySet THEN Append(readyList, s) ELSE readyList
      /\ queue' = queue /\ priority' = priority /\ lock' = lock
  BY DEF RequeueSessionIfPending
<1>4. preferred' \in [Sessions -> Targets \cup {None}]
  BY <1>1, <1>3
<1>5. readyList' \in Seq(Sessions) /\ readySet' \in SUBSET Sessions
  BY <1>1, <1>2, <1>3
<1>6. QueueTypeOK'
  BY <1>3, <1>4, <1>5 DEF QueueTypeOK
<1>7. /\ ReadySetIsListed => ReadySetIsListed'
      /\ Range(readyList) \subseteq Range(readyList')
      /\ ReadySetIsListed /\ Pending(s) => s \in Range(readyList')
  BY <1>2, <1>3 DEF ReadySetIsListed
<1> QED BY <1>3, <1>6, <1>7

\* dequeueRun keeps the types and every list entry; an emptied session leaves
\* the set.
LEMMA DequeueLemma ==
  ASSUME QueueTypeOK, NEW s \in Sessions, DequeueRun(s)
  PROVE  /\ QueueTypeOK'
         /\ ReadySetIsListed => ReadySetIsListed'
         /\ readyList' = readyList /\ lock' = lock
         /\ Pending(s)
         /\ Head(queue[s]) \in Runs
         /\ queue'[s] = Tail(queue[s])
         /\ \A x \in Sessions : x # s => queue'[x] = queue[x]
<1>1. /\ queue \in [Sessions -> Seq(Runs)] /\ readySet \in SUBSET Sessions
      /\ preferred \in [Sessions -> Targets \cup {None}]
      /\ priority \in [Sessions -> Priorities \cup {None}]
  BY DEF QueueTypeOK
<1>2. queue[s] # <<>> /\ queue[s] \in Seq(Runs)
  BY <1>1 DEF DequeueRun, Pending
<1>3. Head(queue[s]) \in Runs /\ Tail(queue[s]) \in Seq(Runs)
  BY <1>2, HeadTailProperties
<1>4. queue' = [queue EXCEPT ![s] = Tail(queue[s])]
  BY <1>1 DEF DequeueRun
<1>5. queue' \in [Sessions -> Seq(Runs)]
  BY <1>1, <1>3, <1>4
<1>6. /\ preferred' \in [Sessions -> Targets \cup {None}]
      /\ priority' \in [Sessions -> Priorities \cup {None}]
      /\ readySet' \subseteq readySet
      /\ readyList' = readyList /\ lock' = lock
  BY <1>1 DEF DequeueRun
<1>7. QueueTypeOK'
  BY <1>1, <1>5, <1>6 DEF QueueTypeOK
<1> QED BY <1>1, <1>2, <1>3, <1>4, <1>6, <1>7 DEF ReadySetIsListed, Pending

\* The three lock operators change the lock only.
LEMMA LockLemma ==
  ASSUME QueueTypeOK, NEW s \in Sessions, NEW w \in Workers,
         TryAcquireSessionLock(s, w) \/ ReleaseSessionLock(s, w) \/ ExpireSessionLock(s)
  PROVE  /\ QueueTypeOK'
         /\ queue' = queue /\ readyList' = readyList /\ readySet' = readySet
         /\ \A x \in Sessions : x # s => lock'[x] = lock[x]
<1>1. lock \in [Sessions -> Workers \cup {None}]
  BY DEF QueueTypeOK
<1>2. /\ queue' = queue /\ readyList' = readyList /\ readySet' = readySet
      /\ preferred' = preferred /\ priority' = priority
  BY DEF TryAcquireSessionLock, ReleaseSessionLock, ExpireSessionLock
<1>3. lock' \in [Sessions -> Workers \cup {None}] /\ \A x \in Sessions : x # s => lock'[x] = lock[x]
  BY <1>1 DEF TryAcquireSessionLock, ReleaseSessionLock, ExpireSessionLock
<1> QED BY <1>2, <1>3 DEF QueueTypeOK
-----------------------------------------------------------------------------
(* Type correctness.  The types of the lists need to know that a worker at   *)
(* work has a session, and a worker that is processing has a run.            *)

HasSession ==
  \A w \in Workers : pc[w] \in Claiming \cup Draining \cup {"release", "abort"} => session[w] \in Sessions

HasRun == \A w \in Workers : pc[w] = "process" => run[w] \in Runs

TypeInv == TypeOK /\ HasSession /\ HasRun

\* The initial state has its types, and an empty set is listed.
LEMMA InitType == Init => TypeInv /\ ReadySetIsListed
<1> SUFFICES ASSUME Init PROVE TypeInv /\ ReadySetIsListed
  OBVIOUS
<1>1. QueueTypeOK /\ ReadySetIsListed
  BY EmptySeq DEF Init, QueueInit, QueueTypeOK, ReadySetIsListed
<1>2. placement \in [Sessions -> Targets \cup {None}]
  BY WorkerAssumption DEF Init
<1> QED BY <1>1, <1>2 DEF Init, TypeInv, TypeOK, HasSession, HasRun, PCs, Claiming, Draining, States

\* A step that leaves the queue alone leaves its types alone.
LEMMA QueueUnchanged ==
  ASSUME QueueTypeOK, ReadySetIsListed, UNCHANGED queueVars
  PROVE  QueueTypeOK' /\ ReadySetIsListed'
BY DEF queueVars, QueueTypeOK, ReadySetIsListed

\* Every step of a worker, the engine, the placement or the clock keeps them.
LEMMA TypeStep == TypeInv /\ ReadySetIsListed /\ [Next]_vars => TypeInv' /\ ReadySetIsListed'
<1> SUFFICES ASSUME TypeInv, ReadySetIsListed, [Next]_vars PROVE TypeInv' /\ ReadySetIsListed'
  OBVIOUS
<1>q. QueueTypeOK
  BY DEF TypeInv, TypeOK
<1>1. ASSUME NEW r \in Runs, NEW prio \in Priorities, NEW p \in Hints, EnqueueRun(r, prio, p)
      PROVE  TypeInv' /\ ReadySetIsListed'
  <2>1. SessionOf[r] \in Sessions /\ p \in Targets \cup {None}
    BY WorkerAssumption
  <2>2. Enqueue(SessionOf[r], r, prio, p)
    BY <1>1 DEF EnqueueRun
  <2>3. QueueTypeOK' /\ ReadySetIsListed'
    BY <1>q, <2>1, <2>2, EnqueueLemma
  <2> QED BY <1>1, <2>3 DEF EnqueueRun, TypeInv, TypeOK, HasSession, HasRun, PCs, Claiming, Draining, States, workerVars, envVars
<1>2. ASSUME NEW s \in Sessions, NEW p \in Hints, MovePlacement(s, p)
      PROVE  TypeInv' /\ ReadySetIsListed'
  <2>1. p \in Targets \cup {None}
    BY WorkerAssumption
  <2>2. QueueTypeOK' /\ ReadySetIsListed'
    BY <1>2, <1>q, QueueUnchanged DEF MovePlacement
  <2> QED BY <1>2, <2>1, <2>2 DEF MovePlacement, TypeInv, TypeOK, HasSession, HasRun, PCs, Claiming, Draining, States, workerVars, envVars
<1>3. ASSUME NEW s \in Sessions, LockExpires(s)
      PROVE  TypeInv' /\ ReadySetIsListed'
  <2>1. QueueTypeOK' /\ ReadySetIsListed'
    BY <1>3, <1>q DEF LockExpires, ExpireSessionLock, QueueTypeOK, ReadySetIsListed
  <2> QED BY <1>3, <2>1 DEF LockExpires, TypeInv, TypeOK, HasSession, HasRun, PCs, Claiming, Draining, States, workerVars, envVars
<1>4. ASSUME NEW w \in Workers, Start(w) \/ RecoverStaleRuns(w) \/ LoopTop(w) \/ Close(w)
      PROVE  TypeInv' /\ ReadySetIsListed'
  <2>1. QueueTypeOK' /\ ReadySetIsListed'
    BY <1>4, <1>q, QueueUnchanged DEF Start, RecoverStaleRuns, LoopTop, Close
  <2>2. CASE Start(w)
    BY <2>1, <2>2 DEF Start, TypeInv, TypeOK, HasSession, HasRun, PCs, Claiming, Draining, States, workerVars, envVars
  <2>5. CASE RecoverStaleRuns(w)
    BY <2>1, <2>5 DEF RecoverStaleRuns, TypeInv, TypeOK, HasSession, HasRun, PCs, Claiming, Draining, States, workerVars, envVars
  <2>3. CASE LoopTop(w)
    <3>1. pc' = [pc EXCEPT ![w] = "claim"] \/ pc' = [pc EXCEPT ![w] = "closed"]
      BY <2>3 DEF LoopTop
    <3> QED BY <2>1, <2>3, <3>1 DEF LoopTop, TypeInv, TypeOK, HasSession, HasRun, PCs, Claiming, Draining, States, workerVars, envVars
  <2>4. CASE Close(w)
    BY <2>1, <2>4 DEF Close, TypeInv, TypeOK, HasSession, HasRun, PCs, Claiming, Draining, States, workerVars, envVars
  <2> QED BY <1>4, <2>2, <2>3, <2>4, <2>5
<1>5. ASSUME NEW w \in Workers, Crash(w)
      PROVE  TypeInv' /\ ReadySetIsListed'
  <2>1. QueueTypeOK' /\ ReadySetIsListed'
    BY <1>5, <1>q, QueueUnchanged DEF Crash
  <2> QED BY <1>5, <2>1 DEF Crash, TypeInv, TypeOK, HasSession, HasRun, PCs, Claiming, Draining, States, workerVars, envVars
<1>6. ASSUME NEW w \in Workers, ClaimSession(w)
      PROVE  TypeInv' /\ ReadySetIsListed'
  <2>1. PICK i \in 1 .. Len(readyList) :
           /\ ClaimCompatibleSession(w, i)
           /\ session' = [session EXCEPT ![w] = readyList[i]]
    BY <1>6 DEF ClaimSession
  <2>2. QueueTypeOK' /\ ReadySetIsListed' /\ readyList[i] \in Sessions
    BY <1>q, <2>1, ClaimLemma
  <2> QED BY <1>6, <2>1, <2>2 DEF ClaimSession, TypeInv, TypeOK, HasSession, HasRun, PCs, Claiming, Draining, States, workerVars, envVars
<1>7. ASSUME NEW w \in Workers, ClaimMisses(w) \/ ClaimFails(w)
      PROVE  TypeInv' /\ ReadySetIsListed'
  <2>1. QueueTypeOK' /\ ReadySetIsListed'
    <3>1. CASE UNCHANGED queueVars
      BY <3>1, <1>q, QueueUnchanged
    <3>2. CASE ClaimNothing(w)
      BY <3>2, <1>q, ClaimNothingLemma
    <3>3. CASE \E i \in 1 .. Len(readyList) : ClaimCompatibleSession(w, i)
      BY <3>3, <1>q, ClaimLemma
    <3> QED BY <1>7, <3>1, <3>2, <3>3 DEF ClaimMisses, ClaimFails
  <2> QED BY <1>7, <2>1 DEF ClaimMisses, ClaimFails, TypeInv, TypeOK, HasSession, HasRun, PCs, Claiming, Draining, States, workerVars, envVars
<1>8. ASSUME NEW w \in Workers, AcquireLock(w) \/ AcquireFails(w)
      PROVE  TypeInv' /\ ReadySetIsListed'
  <2>0. session[w] \in Sessions
    BY <1>8 DEF AcquireLock, AcquireFails, TypeInv, HasSession, Claiming
  <2>1. QueueTypeOK' /\ ReadySetIsListed'
    <3>1. CASE UNCHANGED queueVars
      BY <3>1, <1>q, QueueUnchanged
    <3>2. CASE TryAcquireSessionLock(session[w], w)
      BY <3>2, <1>q, <2>0, LockLemma DEF ReadySetIsListed
    <3> QED BY <1>8, <3>1, <3>2 DEF AcquireLock, AcquireFails
  <2> QED BY <1>8, <2>1 DEF AcquireLock, AcquireFails, TypeInv, TypeOK, HasSession, HasRun, PCs, Claiming, Draining, States, workerVars, envVars
<1>9. ASSUME NEW w \in Workers, LoseRaceForLock(w) \/ RestoreClaimFails(w) \/ PeekFails(w)
                                \/ RestoreRejectedFails(w) \/ DescribeFails(w) \/ StopDraining(w)
      PROVE  TypeInv' /\ ReadySetIsListed'
  <2>1. QueueTypeOK' /\ ReadySetIsListed'
    BY <1>9, <1>q, QueueUnchanged
    DEF LoseRaceForLock, RestoreClaimFails, PeekFails, RestoreRejectedFails, DescribeFails, StopDraining
  <2> QED BY <1>9, <2>1 DEF LoseRaceForLock, RestoreClaimFails, PeekFails, RestoreRejectedFails,
                            DescribeFails, StopDraining, LeaveDrain, TypeInv, TypeOK, HasSession, HasRun, PCs, Claiming, Draining, States, workerVars, envVars
<1>10. ASSUME NEW w \in Workers, RestoreClaim(w)
       PROVE  TypeInv' /\ ReadySetIsListed'
  <2>1. session[w] \in Sessions
    BY <1>10 DEF RestoreClaim, TypeInv, HasSession, Claiming
  <2>2. QueueTypeOK' /\ ReadySetIsListed'
    BY <1>10, <1>q, <2>1, RequeueLemma DEF RestoreClaim
  <2> QED BY <1>10, <2>2 DEF RestoreClaim, TypeInv, TypeOK, HasSession, HasRun, PCs, Claiming, Draining, States, workerVars, envVars
<1>11. ASSUME NEW w \in Workers, RestoreRejected(w)
       PROVE  TypeInv' /\ ReadySetIsListed'
  <2>1. session[w] \in Sessions /\ hint[w] \in Targets \cup {None}
    BY <1>11 DEF RestoreRejected, TypeInv, TypeOK, HasSession, Draining
  <2>2. QueueTypeOK' /\ ReadySetIsListed'
    BY <1>11, <1>q, <2>1, RequeueLemma DEF RestoreRejected
  <2> QED BY <1>11, <2>2 DEF RestoreRejected, LeaveDrain, TypeInv, TypeOK, HasSession, HasRun, PCs, Claiming, Draining, States, workerVars, envVars
<1>12. ASSUME NEW w \in Workers, PeekRun(w)
       PROVE  TypeInv' /\ ReadySetIsListed'
  <2>1. session[w] \in Sessions
    BY <1>12 DEF PeekRun, TypeInv, HasSession, Draining
  <2>2. Head(queue[session[w]]) \in Runs
    BY <1>12, <1>q, <2>1, HeadTailProperties DEF PeekRun, Pending, QueueTypeOK
  <2>3. QueueTypeOK' /\ ReadySetIsListed'
    BY <1>12, <1>q, QueueUnchanged DEF PeekRun
  <2> QED BY <1>12, <2>2, <2>3 DEF PeekRun, TypeInv, TypeOK, HasSession, HasRun, PCs, Claiming, Draining, States, workerVars, envVars
<1>13. ASSUME NEW w \in Workers, DescribeRun(w) \/ RejectRun(w)
       PROVE  TypeInv' /\ ReadySetIsListed'
  <2>1. session[w] \in Sessions
    BY <1>13 DEF DescribeRun, RejectRun, TypeInv, HasSession, Draining
  <2>2. placement[session[w]] \in Targets \cup {None}
    BY <2>1 DEF TypeInv, TypeOK
  <2>3. QueueTypeOK' /\ ReadySetIsListed'
    BY <1>13, <1>q, QueueUnchanged DEF DescribeRun, RejectRun
  <2> QED BY <1>13, <2>2, <2>3 DEF DescribeRun, RejectRun, TypeInv, TypeOK, HasSession, HasRun, PCs, Claiming, Draining, States, workerVars, envVars
<1>14. ASSUME NEW w \in Workers, Dequeue(w)
       PROVE  TypeInv' /\ ReadySetIsListed'
  <2>1. session[w] \in Sessions
    BY <1>14 DEF Dequeue, TypeInv, HasSession, Draining
  <2>2. QueueTypeOK' /\ ReadySetIsListed' /\ Head(queue[session[w]]) \in Runs
    BY <1>14, <1>q, <2>1, DequeueLemma DEF Dequeue
  <2> QED BY <1>14, <2>2 DEF Dequeue, TypeInv, TypeOK, HasSession, HasRun, PCs, Claiming, Draining, States, workerVars, envVars
<1>15. ASSUME NEW w \in Workers, DequeueFindsNothing(w) \/ DequeueFails(w)
       PROVE  TypeInv' /\ ReadySetIsListed'
  <2>1. session[w] \in Sessions
    BY <1>15 DEF DequeueFindsNothing, DequeueFails, TypeInv, HasSession, Draining
  <2>2. QueueTypeOK' /\ ReadySetIsListed'
    <3>1. CASE UNCHANGED queueVars
      BY <3>1, <1>q, QueueUnchanged
    <3>2. CASE DequeueRun(session[w])
      BY <3>2, <1>q, <2>1, DequeueLemma
    <3> QED BY <1>15, <3>1, <3>2 DEF DequeueFindsNothing, DequeueFails
  <2> QED BY <1>15, <2>2 DEF DequeueFindsNothing, DequeueFails, LeaveDrain, TypeInv, TypeOK, HasSession, HasRun, PCs, Claiming, Draining, States, workerVars, envVars
<1>16. ASSUME NEW w \in Workers, ProcessRun(w)
       PROVE  TypeInv' /\ ReadySetIsListed'
  <2>1. QueueTypeOK' /\ ReadySetIsListed'
    BY <1>16, <1>q, QueueUnchanged DEF ProcessRun
  <2> QED BY <1>16, <2>1 DEF ProcessRun, TypeInv, TypeOK, HasSession, HasRun, PCs, Claiming, Draining, States, workerVars, envVars
<1>17. ASSUME NEW w \in Workers, ReleaseLock(w) \/ ReleaseFails(w)
       PROVE  TypeInv' /\ ReadySetIsListed'
  <2>0. session[w] \in Sessions
    BY <1>17 DEF ReleaseLock, ReleaseFails, TypeInv, HasSession
  <2>1. QueueTypeOK' /\ ReadySetIsListed'
    <3>1. CASE UNCHANGED queueVars
      BY <3>1, <1>q, QueueUnchanged
    <3>2. CASE ReleaseSessionLock(session[w], w)
      BY <3>2, <1>q, <2>0, LockLemma DEF ReadySetIsListed
    <3> QED BY <1>17, <3>1, <3>2 DEF ReleaseLock, ReleaseFails
  <2> QED BY <1>17, <2>1 DEF ReleaseLock, ReleaseFails, AfterRelease, TypeInv, TypeOK, HasSession, HasRun, PCs, Claiming, Draining, States, workerVars, envVars
<1>18. CASE UNCHANGED vars
  <2>1. QueueTypeOK' /\ ReadySetIsListed'
    BY <1>18, <1>q, QueueUnchanged DEF vars
  <2> QED BY <1>18, <2>1 DEF vars, TypeInv, TypeOK, HasSession, HasRun, PCs, Claiming, Draining, States, workerVars, envVars
<1> QED
  BY <1>1, <1>2, <1>3, <1>4, <1>5, <1>6, <1>7, <1>8, <1>9, <1>10, <1>11, <1>12, <1>13, <1>14, <1>15,
     <1>16, <1>17, <1>18 DEF Next, LoopStep, FaultStep

\* The types of Redis keys and of the worker loops' variables.
THEOREM TypeCorrect == Spec => []TypeOK
<1>1. TypeInv => TypeOK
  BY DEF TypeInv
<1> QED BY <1>1, InitType, TypeStep, PTL DEF Spec

\* The ready set never records a session the ready list does not hold, under
\* every fault: dropping a session from the list always drops it from the set.
THEOREM ReadySetSound == Spec => []ReadySetIsListed
BY InitType, TypeStep, PTL DEF Spec
-----------------------------------------------------------------------------
(* No stranded session.  When workers are neither closed nor crashed and     *)
(* Redis answers, a session with queued runs stays listed or in hand, even   *)
(* if locks lapse under their holders and descriptions fail.                 *)

OnlyStallsAndDb == Faults \subseteq {"stall", "db"}

\* Without Close or Crash a started worker stays active.
StartedIsActive == \A w \in Workers : pc[w] # "off" => active[w] = TRUE

ReachInv == TypeInv /\ ReadySetIsListed /\ StartedIsActive /\ PendingIsReachable

\* Without closes and crashes a started worker stays active.
LEMMA ActiveStep ==
  ASSUME OnlyStallsAndDb, TypeInv, StartedIsActive, [Next]_vars
  PROVE  StartedIsActive'
<1> USE DEF StartedIsActive
<1>1. pc \in [Workers -> PCs] /\ active \in [Workers -> BOOLEAN]
  BY DEF TypeInv, TypeOK
<1>2. ASSUME NEW w \in Workers, LoopStep(w) \/ DescribeFails(w) PROVE StartedIsActive'
  <2>1. pc[w] # "off" /\ active' = active /\ \A v \in Workers : v # w => pc'[v] = pc[v]
    BY <1>1, <1>2 DEF LoopStep, RecoverStaleRuns, LoopTop, ClaimSession, ClaimMisses, AcquireLock,
       LoseRaceForLock, RestoreClaim, PeekRun, StopDraining, DescribeRun, RejectRun, RestoreRejected,
       Dequeue, DequeueFindsNothing, ProcessRun, ReleaseLock, AfterRelease, LeaveDrain, DescribeFails
  <2> QED BY <2>1
<1>3. ASSUME NEW w \in Workers, Start(w) PROVE StartedIsActive'
  BY <1>1, <1>3 DEF Start
<1>4. ASSUME NEW w \in Workers, FaultStep(w) PROVE DescribeFails(w)
  BY <1>4 DEF FaultStep, ClaimFails, AcquireFails, RestoreClaimFails, PeekFails, RestoreRejectedFails,
     DequeueFails, ReleaseFails, Close, Crash, OnlyStallsAndDb
<1>5. CASE UNCHANGED workerVars
  BY <1>5 DEF workerVars
<1> QED BY <1>2, <1>3, <1>4, <1>5 DEF Next, EnqueueRun, MovePlacement, LockExpires, vars

\* One worker moves from one place where it has its session in hand to another,
\* or was not in hand of anything; lists and queues stay.
LEMMA KeepsReach ==
  ASSUME TypeInv, PendingIsReachable, NEW w \in Workers,
         queue' = queue, Range(readyList) \subseteq Range(readyList'),
         \A v \in Workers : v # w => pc'[v] = pc[v] /\ session'[v] = session[v],
         pc[w] \in Claiming \cup Draining =>
           \/ pc'[w] \in Claiming \cup Draining /\ session'[w] = session[w]
           \/ Pending(session[w]) => session[w] \in Range(readyList')
  PROVE  PendingIsReachable'
<1> SUFFICES ASSUME NEW x \in Sessions, queue'[x] # <<>>, x \notin Range(readyList')
             PROVE  \E v \in Workers : session'[v] = x /\ pc'[v] \in Claiming \cup Draining
  BY DEF PendingIsReachable, Pending, InHand
<1>1. Pending(x) /\ x \notin Range(readyList)
  BY DEF Pending
<1>2. PICK v \in Workers : session[v] = x /\ pc[v] \in Claiming \cup Draining
  BY <1>1 DEF PendingIsReachable, InHand
<1>3. CASE v # w
  BY <1>2, <1>3
<1>4. CASE v = w
  BY <1>1, <1>2, <1>4
<1> QED BY <1>3, <1>4

\* Then no step strands a session: whoever takes it off the list has it in
\* hand, and whoever lets go of it has emptied or listed it.
LEMMA ReachStep ==
  ASSUME OnlyStallsAndDb, ReachInv, [Next]_vars
  PROVE  PendingIsReachable'
<1>q. TypeInv /\ ReadySetIsListed /\ PendingIsReachable /\ QueueTypeOK /\ StartedIsActive
  BY DEF ReachInv, TypeInv, TypeOK
<1>t. /\ pc \in [Workers -> PCs] /\ session \in [Workers -> Sessions \cup {None}]
      /\ queue \in [Sessions -> Seq(Runs)]
  BY <1>q DEF TypeInv, TypeOK, QueueTypeOK
<1>1. ASSUME NEW r \in Runs, NEW prio \in Priorities, NEW p \in Hints, EnqueueRun(r, prio, p)
      PROVE  PendingIsReachable'
  <2> DEFINE s == SessionOf[r]
  <2>1. s \in Sessions /\ p \in Targets \cup {None}
    BY WorkerAssumption
  <2>2. Enqueue(s, r, prio, p)
    BY <1>1 DEF EnqueueRun
  <2> HIDE DEF s
  <2>3. /\ Range(readyList) \subseteq Range(readyList')
        /\ queue[s] = <<>> => s \in Range(readyList')
        /\ \A x \in Sessions : x # s => queue'[x] = queue[x]
    BY <1>q, <2>1, <2>2, EnqueueLemma
  <2>4. pc' = pc /\ session' = session
    BY <1>1 DEF EnqueueRun, workerVars
  <2>5. ASSUME NEW x \in Sessions, queue'[x] # <<>> PROVE x \in Range(readyList') \/ InHand(x)
    <3>1. CASE queue[x] # <<>>
      BY <1>q, <2>3, <3>1 DEF PendingIsReachable, Pending
    <3>2. CASE queue[x] = <<>>
      BY <2>3, <2>5, <3>2
    <3> QED BY <3>1, <3>2
  <2>6. \A x \in Sessions : InHand(x)' = InHand(x)
    BY <2>4 DEF InHand
  <2> QED BY <2>5, <2>6 DEF PendingIsReachable, Pending
<1>2. CASE UNCHANGED workerVars /\ queue' = queue /\ readyList' = readyList
  BY <1>q, <1>2 DEF PendingIsReachable, Pending, InHand, workerVars
<1>3. ASSUME NEW w \in Workers,
             \/ Start(w) \/ RecoverStaleRuns(w) \/ LoopTop(w)
             \/ LoseRaceForLock(w) \/ PeekRun(w) \/ DescribeRun(w) \/ RejectRun(w)
             \/ DescribeFails(w) \/ ProcessRun(w)
      PROVE  PendingIsReachable'
  <2>1. queue' = queue /\ Range(readyList) \subseteq Range(readyList')
    BY <1>3 DEF Start, RecoverStaleRuns, LoopTop, LoseRaceForLock, PeekRun, DescribeRun, RejectRun,
       DescribeFails, ProcessRun, queueVars
  <2>2. /\ \A v \in Workers : v # w => pc'[v] = pc[v]
        /\ session' = session
        /\ pc[w] \in Claiming \cup Draining => pc'[w] \in Claiming \cup Draining
    BY <1>3, <1>t DEF Start, RecoverStaleRuns, LoopTop, LoseRaceForLock, PeekRun, DescribeRun, RejectRun,
       DescribeFails, ProcessRun, Claiming, Draining
  <2> QED BY <1>q, <2>1, <2>2, KeepsReach
<1>4. ASSUME NEW w \in Workers, AcquireLock(w)
      PROVE  PendingIsReachable'
  <2>1. queue' = queue /\ Range(readyList) \subseteq Range(readyList')
    BY <1>4 DEF AcquireLock, TryAcquireSessionLock
  <2>2. /\ \A v \in Workers : v # w => pc'[v] = pc[v]
        /\ session' = session
        /\ pc'[w] \in Claiming \cup Draining
    BY <1>4, <1>t DEF AcquireLock, Claiming, Draining
  <2> QED BY <1>q, <2>1, <2>2, KeepsReach
<1>5. ASSUME NEW w \in Workers, ReleaseLock(w)
      PROVE  PendingIsReachable'
  <2>1. queue' = queue /\ Range(readyList) \subseteq Range(readyList')
    BY <1>5 DEF ReleaseLock, ReleaseSessionLock
  <2>2. /\ \A v \in Workers : v # w => pc'[v] = pc[v] /\ session'[v] = session[v]
        /\ pc[w] \notin Claiming \cup Draining
    BY <1>5, <1>t DEF ReleaseLock, AfterRelease, Claiming, Draining
  <2> QED BY <1>q, <2>1, <2>2, KeepsReach
<1>6. ASSUME NEW w \in Workers, StopDraining(w) \/ DequeueFindsNothing(w)
      PROVE  PendingIsReachable'
  <2>1. queue' = queue /\ Range(readyList) \subseteq Range(readyList')
    BY <1>6 DEF StopDraining, DequeueFindsNothing, queueVars
  <2>2. ~Pending(session[w])
    BY <1>6, <1>q DEF StopDraining, DequeueFindsNothing, StartedIsActive
  <2>3. \A v \in Workers : v # w => pc'[v] = pc[v] /\ session'[v] = session[v]
    BY <1>6, <1>t DEF StopDraining, DequeueFindsNothing, LeaveDrain
  <2> QED BY <1>q, <2>1, <2>2, <2>3, KeepsReach
<1>7. ASSUME NEW w \in Workers, RestoreClaim(w) \/ RestoreRejected(w)
      PROVE  PendingIsReachable'
  <2>1. session[w] \in Sessions /\ hint[w] \in Targets \cup {None}
    BY <1>7, <1>q DEF RestoreClaim, RestoreRejected, TypeInv, TypeOK, HasSession, Claiming, Draining
  <2>2. \E p \in Targets \cup {None} : RequeueSessionIfPending(session[w], p)
    BY <1>7, <2>1 DEF RestoreClaim, RestoreRejected
  <2>3. /\ queue' = queue /\ Range(readyList) \subseteq Range(readyList')
        /\ Pending(session[w]) => session[w] \in Range(readyList')
    BY <1>q, <2>1, <2>2, RequeueLemma
  <2>4. \A v \in Workers : v # w => pc'[v] = pc[v] /\ session'[v] = session[v]
    BY <1>7, <1>t DEF RestoreClaim, RestoreRejected, LeaveDrain
  <2> QED BY <1>q, <2>3, <2>4, KeepsReach
<1>8. ASSUME NEW w \in Workers, ClaimMisses(w)
      PROVE  PendingIsReachable'
  <2>1. queue' = queue /\ Range(readyList) \subseteq Range(readyList')
    BY <1>8, <1>q, ClaimNothingLemma DEF ClaimMisses
  <2>2. /\ \A v \in Workers : v # w => pc'[v] = pc[v] /\ session'[v] = session[v]
        /\ pc[w] \notin Claiming \cup Draining
    BY <1>8, <1>t DEF ClaimMisses, Claiming, Draining
  <2> QED BY <1>q, <2>1, <2>2, KeepsReach
<1>9. ASSUME NEW w \in Workers, ClaimSession(w)
      PROVE  PendingIsReachable'
  <2>1. PICK i \in 1 .. Len(readyList) :
           ClaimCompatibleSession(w, i) /\ session' = [session EXCEPT ![w] = readyList[i]]
    BY <1>9 DEF ClaimSession
  <2>2. /\ queue' = queue
        /\ \A x \in Range(readyList) : x # readyList[i] => x \in Range(readyList')
    BY <1>q, <2>1, ClaimLemma
  <2>3. /\ pc[w] = "claim" /\ pc'[w] = "acquire" /\ session'[w] = readyList[i]
        /\ \A v \in Workers : v # w => pc'[v] = pc[v] /\ session'[v] = session[v]
    BY <1>9, <1>t, <2>1 DEF ClaimSession
  <2>4. ASSUME NEW x \in Sessions, queue'[x] # <<>>
        PROVE  x \in Range(readyList') \/ \E v \in Workers : session'[v] = x /\ pc'[v] \in Claiming \cup Draining
    <3>1. x \in Range(readyList) \/ \E v \in Workers : session[v] = x /\ pc[v] \in Claiming \cup Draining
      BY <1>q, <2>2, <2>4 DEF PendingIsReachable, Pending, InHand
    <3>2. pc[w] \notin Claiming \cup Draining /\ pc'[w] \in Claiming \cup Draining
      BY <2>3 DEF Claiming, Draining
    <3> QED BY <2>2, <2>3, <3>1, <3>2
  <2> QED BY <2>4 DEF PendingIsReachable, Pending, InHand
<1>10. ASSUME NEW w \in Workers, Dequeue(w)
       PROVE  PendingIsReachable'
  <2>1. session[w] \in Sessions
    BY <1>10, <1>q DEF Dequeue, TypeInv, HasSession, Draining
  <2>2. /\ readyList' = readyList
        /\ \A x \in Sessions : x # session[w] => queue'[x] = queue[x]
    BY <1>10, <1>q, <2>1, DequeueLemma DEF Dequeue
  <2>3. /\ session' = session /\ pc'[w] = "process"
        /\ \A v \in Workers : v # w => pc'[v] = pc[v]
    BY <1>10, <1>t DEF Dequeue
  <2>4. ASSUME NEW x \in Sessions, queue'[x] # <<>>
        PROVE  x \in Range(readyList') \/ \E v \in Workers : session'[v] = x /\ pc'[v] \in Claiming \cup Draining
    <3>1. pc'[w] \in Claiming \cup Draining
      BY <2>3 DEF Draining
    <3>2. CASE x = session[w]
      BY <2>3, <3>1, <3>2
    <3>3. CASE x # session[w]
      <4>1. x \in Range(readyList) \/ \E v \in Workers : session[v] = x /\ pc[v] \in Claiming \cup Draining
        BY <1>q, <2>2, <2>4, <3>3 DEF PendingIsReachable, Pending, InHand
      <4> QED BY <2>2, <2>3, <3>3, <4>1
    <3> QED BY <3>2, <3>3
  <2> QED BY <2>4 DEF PendingIsReachable, Pending, InHand
<1>11. ASSUME NEW w \in Workers, FaultStep(w) PROVE DescribeFails(w)
  BY <1>11 DEF FaultStep, ClaimFails, AcquireFails, RestoreClaimFails, PeekFails, RestoreRejectedFails,
     DequeueFails, ReleaseFails, Close, Crash, OnlyStallsAndDb
<1>12. ASSUME NEW s \in Sessions, LockExpires(s) PROVE PendingIsReachable'
  BY <1>12, <1>2 DEF LockExpires, ExpireSessionLock
<1>13. ASSUME NEW s \in Sessions, NEW p \in Hints, MovePlacement(s, p) PROVE PendingIsReachable'
  BY <1>13, <1>2 DEF MovePlacement, queueVars
<1>14. CASE UNCHANGED vars
  BY <1>14, <1>2 DEF vars, queueVars
<1> QED
  BY <1>1, <1>3, <1>4, <1>5, <1>6, <1>7, <1>8, <1>9, <1>10, <1>11, <1>12, <1>13, <1>14
  DEF Next, LoopStep

\* While workers are not closed, do not crash and can talk to Redis, no session
\* with queued runs is ever stranded.
THEOREM NoStrandedSession ==
  ASSUME OnlyStallsAndDb
  PROVE  Spec => []PendingIsReachable
<1>1. Init => ReachInv
  <2>1. Init => StartedIsActive /\ PendingIsReachable
    BY DEF Init, QueueInit, StartedIsActive, PendingIsReachable, Pending
  <2> QED BY <2>1, InitType DEF ReachInv
<1>2. ReachInv /\ [Next]_vars => ReachInv'
  <2> SUFFICES ASSUME ReachInv, [Next]_vars PROVE ReachInv'
    OBVIOUS
  <2>1. TypeInv' /\ ReadySetIsListed'
    BY TypeStep DEF ReachInv
  <2>2. StartedIsActive'
    BY ActiveStep DEF ReachInv
  <2>3. PendingIsReachable'
    BY ReachStep
  <2> QED BY <2>1, <2>2, <2>3 DEF ReachInv
<1>3. ReachInv => PendingIsReachable
  BY DEF ReachInv
<1> QED BY <1>1, <1>2, <1>3, PTL DEF Spec
-----------------------------------------------------------------------------
(* One place per run.  This needs no assumption on the faults: even two       *)
(* workers that drain one session together never get the same run.            *)

\* A run is queued only with its own session.
Homed == \A s \in Sessions : \A r \in Range(queue[s]) : SessionOf[r] = s

\* Whatever the queue and the workers hold was handed to the queue, and no run
\* is both done and orphaned: only such runs may be enqueued again.
Accounted ==
  /\ done \subseteq submitted /\ orphaned \subseteq submitted
  /\ done \cap orphaned = {}
  /\ \A s \in Sessions : Range(queue[s]) \subseteq submitted
  /\ \A w \in Workers : pc[w] = "process" => run[w] \in submitted

PlaceInv == RunInOnePlace /\ Homed /\ Accounted

\* A list holds no entry twice.
Distinct(q) == \A i, j \in DOMAIN q : q[i] = q[j] => i = j

\* A new entry at the end of a list without repetitions makes none.
LEMMA AppendDistinct ==
  ASSUME NEW S, NEW q \in Seq(S), NEW x \in S, Distinct(q), x \notin Range(q)
  PROVE  Distinct(Append(q, x))
<1>1. /\ Len(q) \in Nat /\ DOMAIN q = 1 .. Len(q)
      /\ DOMAIN Append(q, x) = 1 .. Len(q) + 1
      /\ \A i \in 1 .. Len(q) : Append(q, x)[i] = q[i]
      /\ Append(q, x)[Len(q) + 1] = x
  BY AppendProperties, LenProperties
<1> SUFFICES ASSUME NEW i \in 1 .. Len(q) + 1, NEW j \in 1 .. Len(q) + 1,
                    Append(q, x)[i] = Append(q, x)[j]
             PROVE  i = j
  BY <1>1 DEF Distinct
<1>2. \A k \in 1 .. Len(q) : q[k] # x
  BY <1>1 DEF Range
<1>3. CASE i \in 1 .. Len(q) /\ j \in 1 .. Len(q)
  BY <1>1, <1>3 DEF Distinct
<1>4. CASE i = Len(q) + 1 \/ j = Len(q) + 1
  BY <1>1, <1>2, <1>4
<1> QED BY <1>1, <1>3, <1>4

\* The head of a list without repetitions is not in its tail.
LEMMA TailDistinct ==
  ASSUME NEW S, NEW q \in Seq(S), q # <<>>, Distinct(q)
  PROVE  /\ Distinct(Tail(q))
         /\ Range(Tail(q)) \subseteq Range(q)
         /\ Head(q) \in Range(q)
         /\ Head(q) \notin Range(Tail(q))
<1>1. /\ Len(q) \in Nat \ {0} /\ DOMAIN q = 1 .. Len(q)
      /\ Tail(q) \in Seq(S) /\ Head(q) = q[1]
      /\ Len(Tail(q)) = Len(q) - 1
      /\ \A i \in 1 .. Len(q) - 1 : Tail(q)[i] = q[i + 1]
  BY LenProperties, EmptySeq, HeadTailProperties
<1>2. DOMAIN Tail(q) = 1 .. Len(q) - 1
  BY <1>1, LenProperties
<1>3. ASSUME NEW i \in 1 .. Len(q) - 1
      PROVE  i + 1 \in 1 .. Len(q) /\ 1 \in 1 .. Len(q) /\ i + 1 # 1 /\ Tail(q)[i] = q[i + 1]
  BY <1>1
<1>4. Distinct(Tail(q))
  <2> SUFFICES ASSUME NEW i \in 1 .. Len(q) - 1, NEW j \in 1 .. Len(q) - 1, Tail(q)[i] = Tail(q)[j]
               PROVE  i = j
    BY <1>2 DEF Distinct
  <2>1. i + 1 = j + 1
    BY <1>1, <1>3 DEF Distinct
  <2> QED BY <2>1, <1>1
<1>5. Range(Tail(q)) \subseteq Range(q)
  BY <1>1, <1>2, <1>3 DEF Range
<1>6. Head(q) \in Range(q)
  BY <1>1 DEF Range
<1>7. Head(q) \notin Range(Tail(q))
  BY <1>1, <1>2, <1>3 DEF Range, Distinct
<1> QED BY <1>4, <1>5, <1>6, <1>7

\* The definition's first line, with its name.
LEMMA QueuesDistinct == RunInOnePlace => \A s \in Sessions : Distinct(queue[s])
BY DEF RunInOnePlace, Distinct

\* A step that moves no run between queues, workers and the two sets keeps every
\* run where it is.
LEMMA PlacesKept ==
  ASSUME PlaceInv, queue' = queue, submitted' = submitted, done' = done, orphaned' = orphaned,
         \A v \in Workers : pc'[v] = "process" => pc[v] = "process" /\ run'[v] = run[v]
  PROVE  PlaceInv'
<1>1. RunInOnePlace'
  BY DEF PlaceInv, RunInOnePlace
<1>2. Homed' /\ Accounted'
  BY DEF PlaceInv, Homed, Accounted
<1> QED BY <1>1, <1>2 DEF PlaceInv

\* enqueue puts a run that is new, or orphaned, in its session's queue.
LEMMA PlaceEnqueue ==
  ASSUME TypeInv, PlaceInv, NEW r \in Runs, NEW prio \in Priorities, NEW p \in Hints, EnqueueRun(r, prio, p)
  PROVE  PlaceInv'
<1> DEFINE s == SessionOf[r]
<1>0. QueueTypeOK /\ s \in Sessions /\ p \in Targets \cup {None} /\ Enqueue(s, r, prio, p)
  BY WorkerAssumption DEF EnqueueRun, TypeInv, TypeOK
<1> HIDE DEF s
<1>1. /\ \A x \in Sessions : x # s => queue'[x] = queue[x]
      /\ queue'[s] = Append(queue[s], r)
  BY <1>0, EnqueueLemma
<1>2. queue[s] \in Seq(Runs)
  BY <1>0 DEF QueueTypeOK
<1>3. /\ submitted' = submitted \cup {r} /\ orphaned' = orphaned \ {r} /\ done' = done
      /\ pc' = pc /\ run' = run
      /\ r \notin submitted \/ r \in orphaned
  BY DEF EnqueueRun, workerVars
<1>4. /\ r \notin done
      /\ \A x \in Sessions : r \notin Range(queue[x])
      /\ \A w \in Workers : pc[w] = "process" => run[w] # r
  BY <1>3 DEF PlaceInv, RunInOnePlace, Accounted
<1>5. Distinct(queue'[s]) /\ Range(queue'[s]) = Range(queue[s]) \cup {r}
  <2>1. Distinct(queue[s])
    BY <1>0, QueuesDistinct DEF PlaceInv
  <2>2. Distinct(Append(queue[s], r))
    BY <1>0, <1>2, <1>4, <2>1, AppendDistinct
  <2>3. /\ Append(queue[s], r) \in Seq(Runs)
        /\ <<r>> \o queue[s] \in Seq(Runs)
        /\ Range(Append(queue[s], r)) = Range(queue[s]) \cup {r}
        /\ Range(<<r>> \o queue[s]) = Range(queue[s]) \cup {r}
    BY <1>2, RangeAppend
  <2> QED BY <1>1, <2>2, <2>3
<1>6. \A x \in Sessions : Range(queue'[x]) = Range(queue[x]) \/ (x = s /\ Range(queue'[x]) = Range(queue[x]) \cup {r})
  BY <1>1, <1>5
<1>7. \A x \in Sessions : Distinct(queue'[x])
  BY <1>1, <1>5, QueuesDistinct DEF PlaceInv
<1>8. RunInOnePlace'
  <2>1. \A x \in Sessions : \A i, j \in DOMAIN queue'[x] : queue'[x][i] = queue'[x][j] => i = j
    BY <1>7 DEF Distinct
  <2>2. \A x \in Sessions : Range(queue'[x]) \cap (done' \cup orphaned') = {}
    BY <1>3, <1>4, <1>6 DEF PlaceInv, RunInOnePlace
  <2>3. ASSUME NEW w \in Workers, pc'[w] = "process"
        PROVE  /\ run'[w] \notin done' \cup orphaned'
               /\ \A x \in Sessions : run'[w] \notin Range(queue'[x])
               /\ \A v \in Workers : pc'[v] = "process" /\ v # w => run'[v] # run'[w]
    BY <1>3, <1>4, <1>6, <2>3 DEF PlaceInv, RunInOnePlace
  <2> QED BY <2>1, <2>2, <2>3 DEF RunInOnePlace
<1>9. Homed'
  BY <1>6 DEF PlaceInv, Homed, s
<1>10. Accounted'
  BY <1>3, <1>4, <1>6 DEF PlaceInv, Accounted
<1> QED BY <1>8, <1>9, <1>10 DEF PlaceInv

\* dequeueRun takes the oldest run of one session's queue: it is then with the
\* worker that dequeued it (kept), or lost with a failed reply.
LEMMA PlaceDequeue ==
  ASSUME TypeInv, PlaceInv, NEW w \in Workers, NEW kept \in BOOLEAN,
         session[w] \in Sessions, DequeueRun(session[w]),
         submitted' = submitted, done' = done, orphaned' = orphaned,
         \A v \in Workers : v # w => pc'[v] = pc[v] /\ run'[v] = run[v],
         kept => run'[w] = Head(queue[session[w]]),
         ~kept => pc'[w] # "process"
  PROVE  PlaceInv'
<1> DEFINE s == session[w]
<1> DEFINE h == Head(queue[s])
<1>0. QueueTypeOK /\ s \in Sessions /\ DequeueRun(s)
  BY DEF TypeInv, TypeOK
<1> HIDE DEF s
<1>1. /\ queue'[s] = Tail(queue[s]) /\ Pending(s)
      /\ \A x \in Sessions : x # s => queue'[x] = queue[x]
  BY <1>0, DequeueLemma
<1>2. queue[s] \in Seq(Runs) /\ queue[s] # <<>>
  BY <1>0, <1>1 DEF QueueTypeOK, Pending
<1>3. Distinct(queue[s])
  BY <1>0, QueuesDistinct DEF PlaceInv
<1>4. /\ Distinct(Tail(queue[s])) /\ Range(Tail(queue[s])) \subseteq Range(queue[s])
      /\ h \in Range(queue[s]) /\ h \notin Range(Tail(queue[s]))
  BY <1>2, <1>3, TailDistinct
<1> HIDE DEF h
<1>5. \A x \in Sessions : Distinct(queue'[x]) /\ Range(queue'[x]) \subseteq Range(queue[x]) /\ h \notin Range(queue'[x])
  <2> TAKE x \in Sessions
  <2>1. CASE x = s
    BY <1>1, <1>4, <2>1
  <2>2. CASE x # s
    <3>1. queue'[x] = queue[x] /\ Distinct(queue[x])
      BY <1>1, <2>2, QueuesDistinct DEF PlaceInv
    <3>2. h \notin Range(queue[x])
      BY <1>0, <1>4, <2>2 DEF PlaceInv, Homed
    <3> QED BY <3>1, <3>2
  <2> QED BY <2>1, <2>2
<1>6. h \in submitted /\ h \notin done \cup orphaned /\ \A v \in Workers : pc[v] = "process" => run[v] # h
  BY <1>0, <1>4 DEF PlaceInv, RunInOnePlace, Accounted
<1>7. \A v \in Workers : pc'[v] = "process" => (v # w /\ pc[v] = "process" /\ run'[v] = run[v]) \/ (v = w /\ run'[v] = h)
  BY DEF h, s
<1>8. RunInOnePlace'
  <2>1. \A x \in Sessions : \A i, j \in DOMAIN queue'[x] : queue'[x][i] = queue'[x][j] => i = j
    BY <1>5 DEF Distinct
  <2>2. \A x \in Sessions : Range(queue'[x]) \cap (done' \cup orphaned') = {}
    BY <1>5 DEF PlaceInv, RunInOnePlace
  <2>3. ASSUME NEW v \in Workers, pc'[v] = "process"
        PROVE  /\ run'[v] \notin done' \cup orphaned'
               /\ \A x \in Sessions : run'[v] \notin Range(queue'[x])
               /\ \A u \in Workers : pc'[u] = "process" /\ u # v => run'[u] # run'[v]
    <3>1. CASE v = w
      BY <1>5, <1>6, <1>7, <2>3, <3>1
    <3>2. CASE v # w
      <4>1. pc[v] = "process" /\ run'[v] = run[v]
        BY <1>7, <2>3, <3>2
      <4>2. run[v] \notin done \cup orphaned /\ \A x \in Sessions : run[v] \notin Range(queue[x])
        BY <4>1 DEF PlaceInv, RunInOnePlace
      <4>3. \A u \in Workers : pc[u] = "process" /\ u # v => run[u] # run[v]
        BY <4>1 DEF PlaceInv, RunInOnePlace
      <4>4. run[v] # h
        BY <1>6, <4>1
      <4> QED BY <1>5, <1>7, <4>1, <4>2, <4>3, <4>4
    <3> QED BY <3>1, <3>2
  <2> QED BY <2>1, <2>2, <2>3 DEF RunInOnePlace
<1>9. Homed'
  BY <1>5 DEF PlaceInv, Homed
<1>10. Accounted'
  BY <1>5, <1>6, <1>7 DEF PlaceInv, Accounted
<1> QED BY <1>8, <1>9, <1>10 DEF PlaceInv

\* A run leaves its worker for one of the two sets: done when processing
\* returned, orphaned when the process died.
LEMMA PlaceLeaves ==
  ASSUME TypeInv, PlaceInv, NEW w \in Workers, pc[w] = "process",
         queue' = queue, submitted' = submitted,
         \/ done' = done \cup {run[w]} /\ orphaned' = orphaned
         \/ done' = done /\ orphaned' = orphaned \cup {run[w]},
         pc'[w] # "process",
         \A v \in Workers : v # w => pc'[v] = pc[v] /\ run'[v] = run[v]
  PROVE  PlaceInv'
<1>1. /\ run[w] \in submitted /\ run[w] \notin done \cup orphaned
      /\ \A s \in Sessions : run[w] \notin Range(queue[s])
      /\ \A v \in Workers : pc[v] = "process" /\ v # w => run[v] # run[w]
  BY DEF PlaceInv, RunInOnePlace, Accounted
<1>2. \A v \in Workers : pc'[v] = "process" => v # w /\ pc[v] = "process" /\ run'[v] = run[v]
  OBVIOUS
<1>3. done' \cup orphaned' = done \cup orphaned \cup {run[w]}
  OBVIOUS
<1>4. RunInOnePlace'
  <2>1. \A x \in Sessions : \A i, j \in DOMAIN queue'[x] : queue'[x][i] = queue'[x][j] => i = j
    BY DEF PlaceInv, RunInOnePlace
  <2>2. \A x \in Sessions : Range(queue'[x]) \cap (done' \cup orphaned') = {}
    BY <1>1, <1>3 DEF PlaceInv, RunInOnePlace
  <2>3. ASSUME NEW v \in Workers, pc'[v] = "process"
        PROVE  /\ run'[v] \notin done' \cup orphaned'
               /\ \A x \in Sessions : run'[v] \notin Range(queue'[x])
               /\ \A u \in Workers : pc'[u] = "process" /\ u # v => run'[u] # run'[v]
    BY <1>1, <1>2, <1>3, <2>3 DEF PlaceInv, RunInOnePlace
  <2> QED BY <2>1, <2>2, <2>3 DEF RunInOnePlace
<1>5. Homed'
  BY DEF PlaceInv, Homed
<1>6. Accounted'
  BY <1>1, <1>2, <1>3 DEF PlaceInv, Accounted
<1> QED BY <1>4, <1>5, <1>6 DEF PlaceInv

\* Every step of every worker, the engine and the clock keeps a run in one place.
LEMMA PlaceStep == TypeInv /\ PlaceInv /\ [Next]_vars => PlaceInv'
<1> SUFFICES ASSUME TypeInv, PlaceInv, [Next]_vars PROVE PlaceInv'
  OBVIOUS
<1>t. /\ pc \in [Workers -> PCs] /\ run \in [Workers -> Runs \cup {None}]
  BY DEF TypeInv, TypeOK
<1>1. ASSUME NEW r \in Runs, NEW prio \in Priorities, NEW p \in Hints, EnqueueRun(r, prio, p) PROVE PlaceInv'
  BY <1>1, PlaceEnqueue
<1>2. ASSUME NEW s \in Sessions, NEW p \in Hints, MovePlacement(s, p) PROVE PlaceInv'
  BY <1>2, PlacesKept DEF MovePlacement, queueVars, workerVars
<1>3. ASSUME NEW s \in Sessions, LockExpires(s) PROVE PlaceInv'
  BY <1>3, PlacesKept DEF LockExpires, ExpireSessionLock, workerVars, envVars
<1>4. ASSUME NEW w \in Workers,
             \/ Start(w) \/ RecoverStaleRuns(w) \/ LoopTop(w) \/ ClaimSession(w) \/ ClaimMisses(w)
             \/ ClaimFails(w) \/ AcquireLock(w) \/ AcquireFails(w) \/ LoseRaceForLock(w)
             \/ RestoreClaim(w) \/ RestoreClaimFails(w)
      PROVE  PlaceInv'
  <2>1. queue' = queue /\ run' = run /\ UNCHANGED envVars
    BY <1>4 DEF Start, RecoverStaleRuns, LoopTop, ClaimSession, ClaimMisses, ClaimFails, AcquireLock,
       AcquireFails, LoseRaceForLock, RestoreClaim, RestoreClaimFails, ClaimCompatibleSession, ClaimNothing,
       TryAcquireSessionLock, RequeueSessionIfPending, queueVars
  <2>2. (\A v \in Workers : v # w => pc'[v] = pc[v]) /\ pc'[w] # "process"
    BY <1>4, <1>t DEF Start, RecoverStaleRuns, LoopTop, ClaimSession, ClaimMisses, ClaimFails, AcquireLock,
       AcquireFails, LoseRaceForLock, RestoreClaim, RestoreClaimFails
  <2> QED BY <2>1, <2>2, PlacesKept DEF envVars
<1>5. ASSUME NEW w \in Workers,
             \/ StopDraining(w) \/ PeekRun(w) \/ PeekFails(w) \/ DescribeRun(w) \/ RejectRun(w)
             \/ DescribeFails(w) \/ RestoreRejected(w) \/ RestoreRejectedFails(w)
             \/ DequeueFindsNothing(w) \/ ReleaseLock(w) \/ ReleaseFails(w)
      PROVE  PlaceInv'
  <2>1. queue' = queue /\ run' = run /\ UNCHANGED envVars
    BY <1>5 DEF StopDraining, PeekRun, PeekFails, DescribeRun, RejectRun, DescribeFails, RestoreRejected,
       RestoreRejectedFails, DequeueFindsNothing, ReleaseLock, ReleaseFails, ReleaseSessionLock,
       RequeueSessionIfPending, LeaveDrain, AfterRelease, queueVars
  <2>2. (\A v \in Workers : v # w => pc'[v] = pc[v]) /\ pc'[w] # "process"
    BY <1>5, <1>t DEF StopDraining, PeekRun, PeekFails, DescribeRun, RejectRun, DescribeFails, RestoreRejected,
       RestoreRejectedFails, DequeueFindsNothing, ReleaseLock, ReleaseFails, LeaveDrain, AfterRelease
  <2> QED BY <2>1, <2>2, PlacesKept DEF envVars
<1>6. ASSUME NEW w \in Workers, Close(w) PROVE PlaceInv'
  BY <1>6, PlacesKept DEF Close, queueVars, envVars
<1>7. ASSUME NEW w \in Workers, Dequeue(w) PROVE PlaceInv'
  <2>1. session[w] \in Sessions /\ DequeueRun(session[w])
    BY <1>7 DEF Dequeue, TypeInv, HasSession, Draining
  <2>2. submitted' = submitted /\ done' = done /\ orphaned' = orphaned
    BY <1>7 DEF Dequeue, envVars
  <2>3. /\ \A v \in Workers : v # w => pc'[v] = pc[v] /\ run'[v] = run[v]
        /\ run'[w] = Head(queue[session[w]])
    BY <1>7, <1>t DEF Dequeue
  <2> QED BY <2>1, <2>2, <2>3, PlaceDequeue
<1>8. ASSUME NEW w \in Workers, DequeueFails(w) PROVE PlaceInv'
  <2>1. session[w] \in Sessions
    BY <1>8 DEF DequeueFails, TypeInv, HasSession, Draining
  <2>2. submitted' = submitted /\ done' = done /\ orphaned' = orphaned
    BY <1>8 DEF DequeueFails, LeaveDrain, envVars
  <2>3. /\ \A v \in Workers : v # w => pc'[v] = pc[v] /\ run'[v] = run[v]
        /\ pc'[w] # "process"
    BY <1>8, <1>t DEF DequeueFails, LeaveDrain
  <2>4. CASE DequeueRun(session[w])
    BY <2>1, <2>2, <2>3, <2>4, PlaceDequeue
  <2>5. CASE UNCHANGED queueVars
    BY <2>2, <2>3, <2>5, PlacesKept DEF queueVars
  <2> QED BY <1>8, <2>4, <2>5 DEF DequeueFails
<1>9. ASSUME NEW w \in Workers, ProcessRun(w) PROVE PlaceInv'
  <2>1. /\ pc[w] = "process" /\ queue' = queue /\ submitted' = submitted /\ orphaned' = orphaned
        /\ done' = done \cup {run[w]}
    BY <1>9 DEF ProcessRun, queueVars
  <2>2. pc'[w] # "process" /\ \A v \in Workers : v # w => pc'[v] = pc[v] /\ run'[v] = run[v]
    BY <1>9, <1>t DEF ProcessRun
  <2> QED BY <2>1, <2>2, PlaceLeaves
<1>10. ASSUME NEW w \in Workers, Crash(w) PROVE PlaceInv'
  <2>1. /\ queue' = queue /\ submitted' = submitted /\ done' = done
        /\ orphaned' = IF pc[w] = "process" THEN orphaned \cup {run[w]} ELSE orphaned
    BY <1>10 DEF Crash, queueVars
  <2>2. pc'[w] # "process" /\ \A v \in Workers : v # w => pc'[v] = pc[v] /\ run'[v] = run[v]
    BY <1>10, <1>t DEF Crash
  <2>3. CASE pc[w] = "process"
    BY <2>1, <2>2, <2>3, PlaceLeaves
  <2>4. CASE pc[w] # "process"
    BY <2>1, <2>2, <2>4, PlacesKept
  <2> QED BY <2>3, <2>4
<1>11. CASE UNCHANGED vars
  BY <1>11, PlacesKept DEF vars, queueVars, workerVars, envVars
<1> QED
  BY <1>1, <1>2, <1>3, <1>4, <1>5, <1>6, <1>7, <1>8, <1>9, <1>10, <1>11 DEF Next, LoopStep, FaultStep

\* A run is once in one queue, or with one worker, or done, or orphaned, under
\* every fault: enqueue, dequeueRun and the end of processing move it, and two
\* drainers that meet on a lapsed lock get different runs.
THEOREM OnePlacePerRun == Spec => []RunInOnePlace
<1>1. Init => TypeInv /\ PlaceInv /\ ReadySetIsListed
  <2> SUFFICES ASSUME Init PROVE PlaceInv
    BY InitType
  <2>1. \A s \in Sessions : queue[s] = <<>> /\ DOMAIN queue[s] = {} /\ Range(queue[s]) = {}
    BY DEF Init, QueueInit, Range
  <2>2. /\ submitted = {} /\ done = {} /\ orphaned = {}
        /\ \A w \in Workers : pc[w] # "process"
    BY DEF Init
  <2> QED BY <2>1, <2>2 DEF PlaceInv, RunInOnePlace, Homed, Accounted
<1>2. TypeInv /\ ReadySetIsListed /\ PlaceInv /\ [Next]_vars => TypeInv' /\ ReadySetIsListed' /\ PlaceInv'
  BY TypeStep, PlaceStep
<1>3. PlaceInv => RunInOnePlace
  BY DEF PlaceInv
<1> QED BY <1>1, <1>2, <1>3, PTL DEF Spec
-----------------------------------------------------------------------------
(* The autoscaler sees every backlog that nobody serves.                    *)

\* The entries of a list are finitely many.
LEMMA RangeFinite ==
  ASSUME NEW S, NEW q \in Seq(S)
  PROVE  IsFiniteSet(Range(q))
<1>1. Len(q) \in Nat /\ q \in [1 .. Len(q) -> S] /\ DOMAIN q = 1 .. Len(q)
  BY LenProperties
<1>2. q \in Surjection(1 .. Len(q), Range(q))
  BY <1>1, Fun_RangeProperties
<1>3. IsFiniteSet(1 .. Len(q))
  BY <1>1, FS_Interval
<1> QED BY <1>2, <1>3, FS_Surjection

\* A finite set with an element has a positive count.
LEMMA CountIsPositive ==
  ASSUME NEW S, IsFiniteSet(S), NEW x \in S
  PROVE  Cardinality(S) > 0
<1>1. Cardinality(S) \in Nat
  BY FS_CardinalityType
<1>2. Cardinality(S) # 0
  BY FS_EmptySet
<1> QED BY <1>1, <1>2

\* getSchedulingPressure counts a listed, unlocked session with queued runs, or
\* falls back to the length of a list it did not read to the end.
LEMMA ListedIsCounted ==
  ASSUME QueueTypeOK, NEW s \in Sessions, Pending(s), lock[s] = None, s \in Range(readyList)
  PROVE  SchedulingPressure.readySessionCount > 0
<1> DEFINE depth == SeqMin(PressureScanLimit, Len(readyList))
           sampled == Range(SubSeq(readyList, 1, depth))
           schedulable == {x \in {y \in sampled : Pending(y)} : lock[x] = None}
<1>1. readyList \in Seq(Sessions) /\ Len(readyList) \in Nat /\ DOMAIN readyList = 1 .. Len(readyList)
  BY LenProperties DEF QueueTypeOK
<1>2. SchedulingPressure.readySessionCount =
        IF Len(readyList) > depth THEN Len(readyList) ELSE Cardinality(schedulable)
  BY DEF SchedulingPressure
<1>3. depth \in Nat /\ depth <= Len(readyList)
  BY <1>1, QueueAssumption DEF SeqMin
<1>4. CASE Len(readyList) > depth
  <2> HIDE DEF depth, schedulable
  <2>1. Len(readyList) > 0
    BY <1>1, <1>3, <1>4
  <2> QED BY <1>2, <1>4, <2>1
<1>5. CASE ~(Len(readyList) > depth)
  <2>1. depth = Len(readyList)
    BY <1>1, <1>3, <1>5
  <2> HIDE DEF depth
  <2>2. PICK t : t = SubSeq(readyList, 1, depth)
    OBVIOUS
  <2>3. t \in Seq(Sessions) /\ Len(t) = depth /\ \A i \in 1 .. depth : t[i] = readyList[i]
    <3>1. /\ SubSeq(readyList, 0 + 1, depth) \in Seq(Sessions)
          /\ Len(SubSeq(readyList, 0 + 1, depth)) = depth - 0
          /\ \A i \in 1 .. depth - 0 : SubSeq(readyList, 0 + 1, depth)[i] = readyList[0 + i]
      <4>1. 0 \in Nat /\ 0 <= depth
        BY <1>3
      <4> QED BY <1>1, <1>3, <4>1, Piece
    <3>2. 0 + 1 = 1 /\ depth - 0 = depth /\ \A i \in 1 .. depth : 0 + i = i
      BY <1>3
    <3> QED BY <2>2, <3>1, <3>2
  <2>4. s \in Range(t)
    <3>1. PICK i \in 1 .. Len(readyList) : s = readyList[i]
      BY <1>1 DEF Range
    <3>2. i \in DOMAIN t /\ t[i] = s
      BY <2>1, <2>3, <3>1, LenProperties
    <3> QED BY <3>2 DEF Range
  <2>5. IsFiniteSet(Range(t))
    BY <2>3, RangeFinite
  <2>6. schedulable \in SUBSET Range(t) /\ s \in schedulable
    BY <2>2, <2>4
  <2> HIDE DEF schedulable
  <2>7. IsFiniteSet(schedulable)
    BY <2>5, <2>6, FS_Subset
  <2>8. Cardinality(schedulable) > 0
    BY <2>6, <2>7, CountIsPositive
  <2> QED BY <1>2, <1>5, <2>8
<1> QED BY <1>4, <1>5

\* A session with queued runs that nobody has in hand and nobody has locked
\* makes the ready session count positive, so the pool and the controller see
\* it, however far down the ready list it is.
THEOREM BacklogIsSeen ==
  ASSUME OnlyStallsAndDb
  PROVE  Spec => []PressureSeesBacklog
<1>1. TypeOK /\ PendingIsReachable => PressureSeesBacklog
  <2> SUFFICES ASSUME TypeOK, PendingIsReachable,
                      NEW s \in Sessions, Pending(s), ~InHand(s), lock[s] = None
               PROVE  SchedulingPressure.readySessionCount > 0
    BY DEF PressureSeesBacklog
  <2>1. QueueTypeOK
    BY DEF TypeOK
  <2>2. s \in Range(readyList)
    BY DEF PendingIsReachable
  <2> QED BY <2>1, <2>2, ListedIsCounted
<1> QED BY <1>1, TypeCorrect, NoStrandedSession, PTL
=============================================================================
