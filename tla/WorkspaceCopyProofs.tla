------------------------- MODULE WorkspaceCopyProofs -------------------------
(***************************************************************************)
(* Proofs about WorkspaceCopy: nothing is lost unless one of the overlaps  *)
(* happens that the manager does not guard against, for any number of      *)
(* users, tasks, entries, writes and failures.                             *)
(*                                                                         *)
(* The invariant has four parts.  Counts: refCount is at least the number  *)
(* of leases, so an entry without references has none.  Freshness: a write *)
(* is in no directory that was read before it, so a lease that wrote sees  *)
(* a fingerprint that differs from its baseline.  Shape: what the phases   *)
(* and jobs imply about each other.  Calm: while nothing was disturbed,    *)
(* leases are on the entry in the map, evictions and leases exclude each   *)
(* other, and every directory about to be uploaded shows all that is       *)
(* saved.                                                                  *)
(***************************************************************************)
EXTENDS WorkspaceCopy, FiniteSetTheorems, TLAPS

\* The leases that count, and the users that use or await the copy.
Counting == {"publish", "held", "hash", "compare"}
Counted(c) == {u \in Users : held[u] = c /\ phase[u] \in Counting}
Using(u) == phase[u] \in {"loading", "publish", "held", "hash", "compare"}

CountInv == \A c \in Copies : Cardinality(Counted(c)) <= refs[c]

Shown == 0 .. written

FreshInv ==
  /\ local \subseteq Shown /\ store \subseteq Shown
  /\ \A c \in Copies : synced[c] \subseteq Shown
  /\ \A u \in Users : baseline[u] \subseteq Shown /\ mine[u] \cap baseline[u] = {}
  /\ \A a \in Agents : snap[a] \subseteq Shown

ShapeInv ==
  /\ \A u \in Users : Using(u) => held[u] \in Copies
  /\ \A u \in Users : phase[u] = "released" => held[u] \in Copies /\ load[held[u]] = "done"
  /\ \A u \in Users : phase[u] \in Counting => load[held[u]] = "done"
  /\ \A u \in Users : phase[u] = "loading" => load[held[u]] = "loading"
  /\ \A u \in Users : mine[u] # {} => phase[u] \in {"held", "hash", "compare"}
  /\ \A u \in Users : job[u] # "none" => phase[u] = "evict"
  /\ \A a \in Agents : job[a] \in {"upload", "lease", "rm"} => of[a] \in Copies
  /\ \A a \in Agents : job[a] \in {"lease", "rm"} => evicts[a]
  /\ \A a \in Agents : evicts[a] => job[a] # "none" /\ job[a] # "pass"

\* Whose leases and whose evictions there are.
CalmLeases ==
  /\ \A u \in Users : Using(u) => held[u] = known /\ \A a \in Agents : ~evicts[a]
  /\ \A c \in Copies : load[c] = "loading" => \E u \in Users : phase[u] = "loading" /\ held[u] = c
  /\ cut = {}
  /\ \A a \in Agents : evicts[a] => known \in {of[a], None}

\* What the directories show.
CalmFiles ==
  /\ \A u \in Users : mine[u] \subseteq local /\ (phase[u] = "compare" => mine[u] \subseteq snap[u])
  /\ \A c \in Copies : dirty[c] => c = known /\ load[c] = "done"
  /\ \A a \in Agents : job[a] \in {"lease", "rm"} => \A c \in Copies : ~dirty[c]
  /\ \A a \in Agents : job[a] = "upload" => saved \subseteq snap[a]
  /\ known # None /\ load[known] = "done" => saved \subseteq local
  /\ NothingLost

CopyInv ==
  /\ TypeOK /\ CountInv /\ FreshInv /\ ShapeInv
  /\ ~disturbed => CalmLeases /\ CalmFiles

-----------------------------------------------------------------------------
(* What the parts of a step do.                                              *)

LeaseTypes ==
  /\ phase \in [Users -> {"none", "loading", "publish", "held", "hash", "compare", "released", "evict"}]
  /\ held \in [Users -> Copies \cup {None}]
  /\ baseline \in [Users -> SUBSET Files]
  /\ mine \in [Users -> SUBSET Files]
WorkTypes ==
  /\ job \in [Agents -> {"none", "pass", "upload", "lease", "rm"}]
  /\ of \in [Agents -> Copies \cup {None}]
  /\ evicts \in [Agents -> BOOLEAN]

\* Dropping a lease keeps the types of the leases.
LEMMA DropTypes ==
  ASSUME TypeOK, NEW u \in Users, Drop(u)
  PROVE  LeaseTypes'
BY DEF TypeOK, LeaseTypes, Drop

\* The end of a job keeps the types of leases and jobs.
LEMMA EndTypes ==
  ASSUME TypeOK, NEW a \in Agents, EndJob(a)
  PROVE  LeaseTypes' /\ WorkTypes'
<1>1. WorkTypes'
  BY DEF TypeOK, WorkTypes, EndJob
<1>2. CASE a \in Users
  BY <1>1, <1>2, DropTypes DEF EndJob
<1>3. CASE a \notin Users
  BY <1>1, <1>3 DEF EndJob, TypeOK, LeaseTypes, lease
<1>4. QED
  BY <1>2, <1>3

\* The start of an eviction keeps the types of the jobs.
LEMMA EvictTypes ==
  ASSUME TypeOK, NEW a \in Agents, NEW c \in Copies, FlushAndEvict(a, c)
  PROVE  WorkTypes' /\ snap' \in [Agents -> SUBSET Files]
<1>1. CASE dirty[c]
  BY <1>1 DEF FlushAndEvict, TypeOK, WorkTypes
<1>2. CASE ~dirty[c]
  BY <1>2 DEF FlushAndEvict, TypeOK, WorkTypes
<1>3. QED
  BY <1>1, <1>2

\* The end of a release keeps the types, because a reference count of zero is
\* not counted down.
LEMMA SettleTypes ==
  ASSUME TypeOK, NEW u \in Users, held[u] \in Copies, Settle(u)
  PROVE  LeaseTypes' /\ refs' \in [Copies -> Nat] /\ saved' \in SUBSET Files
<1>1. PICK n \in Nat : refs' = [refs EXCEPT ![held[u]] = n]
  <2>1. CASE refs[held[u]] > 0
    <3>1. refs[held[u]] - 1 \in Nat
      BY <2>1 DEF TypeOK
    <3>2. refs' = [refs EXCEPT ![held[u]] = refs[held[u]] - 1]
      BY <2>1 DEF Settle
    <3>3. QED
      BY <3>1, <3>2
  <2>2. CASE ~(refs[held[u]] > 0)
    BY <2>2 DEF Settle, TypeOK
  <2>3. QED
    BY <2>1, <2>2
<1>2. refs' \in [Copies -> Nat]
  BY <1>1 DEF TypeOK
<1>3. LeaseTypes'
  BY DEF Settle, TypeOK, LeaseTypes
<1>4. saved' \in SUBSET Files
  BY DEF Settle, TypeOK
<1>5. QED
  BY <1>2, <1>3, <1>4

\* An overlap that happened stays on record.
LEMMA DisturbedStays ==
  ASSUME Next
  PROVE  disturbed => disturbed'
BY DEF Next, UserStep, JobStep, AcquireCopy, AcquireEntry, AcquireNew, Ask, Write, Published, Release,
   ReleaseDirty, Hash,
       Compare, Released, PublishFails, HashFails, ReleasedFails, Loaded, LoadFails, FlushCopies, EvictCopies, EvictAnyway,
       BeginDrain, DrainPass, Uploaded, Unleased, Evicted, UploadFails, UnleaseFails, RmFails

-----------------------------------------------------------------------------
(* The reference count.                                                      *)

\* A set of users has a count, and a part of it a smaller one.
LEMMA Smaller ==
  ASSUME NEW S, NEW T, S \subseteq T, T \subseteq Users
  PROVE  Cardinality(S) \in Nat /\ Cardinality(T) \in Nat /\ Cardinality(S) <= Cardinality(T)
<1>1. IsFiniteSet(T)
  BY CopyAssumption, FS_Subset
<1>2. QED
  BY <1>1, FS_Subset, FS_CardinalityType

\* An entry without references has no leases.
LEMMA NoLease ==
  ASSUME TypeOK, CountInv, NEW c \in Copies, refs[c] = 0
  PROVE  \A u \in Users : held[u] = c => phase[u] \notin Counting
<1>1. Counted(c) \subseteq Users
  BY DEF Counted
<1>2. IsFiniteSet(Counted(c)) /\ Cardinality(Counted(c)) \in Nat
  BY <1>1, CopyAssumption, FS_Subset, FS_CardinalityType
<1>3. Cardinality(Counted(c)) <= 0
  BY DEF CountInv
<1>4. Counted(c) = {}
  BY <1>2, <1>3, FS_EmptySet
<1>5. QED
  BY <1>4 DEF Counted

\* Leases end, and the count stays.
LEMMA CountShrinks ==
  ASSUME TypeOK, CountInv, refs' = refs, \A c \in Copies : Counted(c)' \subseteq Counted(c)
  PROVE  CountInv'
<1> SUFFICES ASSUME NEW c \in Copies PROVE Cardinality(Counted(c)') <= refs[c]
  BY DEF CountInv
<1>1. Counted(c) \subseteq Users /\ Counted(c)' \subseteq Counted(c)
  BY DEF Counted
<1>2. /\ Cardinality(Counted(c)') \in Nat /\ Cardinality(Counted(c)) \in Nat
      /\ Cardinality(Counted(c)') <= Cardinality(Counted(c))
  BY <1>1, Smaller
<1>3. refs[c] \in Nat /\ Cardinality(Counted(c)) <= refs[c]
  BY DEF TypeOK, CountInv
<1>4. QED
  BY <1>2, <1>3

\* A lease is released, and the count of its entry goes down by one.
LEMMA CountSettles ==
  ASSUME TypeOK, CountInv, NEW u \in Users, held[u] \in Copies, phase[u] \in {"held", "compare"}, Settle(u)
  PROVE  CountInv'
<1> SUFFICES ASSUME NEW c \in Copies PROVE Cardinality(Counted(c)') <= refs'[c]
  BY DEF CountInv
<1>1. Counted(c) \subseteq Users
  BY DEF Counted
<1>2. IsFiniteSet(Counted(c)) /\ Cardinality(Counted(c)) \in Nat
  BY <1>1, CopyAssumption, FS_Subset, FS_CardinalityType
<1>3. refs[c] \in Nat /\ Cardinality(Counted(c)) <= refs[c]
  BY DEF TypeOK, CountInv
<1>4. CASE c = held[u]
  <2>1. u \in Counted(c) /\ Counted(c)' = Counted(c) \ {u}
    BY <1>4 DEF Counted, Counting, Settle, TypeOK
  <2>2. Cardinality(Counted(c)') = Cardinality(Counted(c)) - 1
    BY <1>2, <2>1, FS_RemoveElement
  <2>3. Cardinality(Counted(c)) # 0
    BY <1>2, <2>1, FS_EmptySet
  <2>4. refs[c] > 0
    BY <1>2, <1>3, <2>3
  <2>5. refs'[c] = refs[c] - 1
    BY <1>4, <2>4 DEF Settle, TypeOK
  <2>6. QED
    BY <1>2, <1>3, <2>2, <2>5
<1>5. CASE c # held[u]
  <2>1. Counted(c)' = Counted(c)
    BY <1>5 DEF Counted, Settle, TypeOK
  <2>2. refs'[c] = refs[c]
    BY <1>5 DEF Settle, TypeOK
  <2>3. QED
    BY <1>3, <2>1, <2>2
<1>6. QED
  BY <1>4, <1>5

-----------------------------------------------------------------------------
(* Each part of the invariant is kept, by every step.                        *)

\* The types.
LEMMA TypesKept ==
  ASSUME TypeOK, ShapeInv, Next
  PROVE  TypeOK'
<1> USE CopyAssumption DEF Agents
<1>1. ASSUME NEW u \in Users, AcquireCopy(u) PROVE TypeOK'
  BY <1>1 DEF AcquireCopy, Ask, TypeOK, ShapeInv, Using, Counting, Files, entry, lease, work, bounds
<1>2. ASSUME NEW u \in Users, AcquireEntry(u) PROVE TypeOK'
  BY <1>2 DEF AcquireEntry, Ask, TypeOK, ShapeInv, Using, Counting, Files, entry, lease, work, bounds
<1>3. ASSUME NEW u \in Users, Write(u) PROVE TypeOK'
  BY <1>3 DEF Write, TypeOK, ShapeInv, Using, Counting, Files, entry, lease, work, bounds
<1>4. ASSUME NEW u \in Users, Published(u) PROVE TypeOK'
  BY <1>4 DEF Published, TypeOK, ShapeInv, Using, Counting, Files, entry, lease, work, bounds
<1>5. ASSUME NEW u \in Users, Release(u) PROVE TypeOK'
  <2>1. held[u] \in Copies /\ Settle(u)
    BY <1>5 DEF Release, ShapeInv, Using
  <2>2. LeaseTypes' /\ refs' \in [Copies -> Nat] /\ saved' \in SUBSET Files
    BY <2>1, SettleTypes
  <2>3. dirty' \in [Copies -> BOOLEAN] /\ disturbed' \in BOOLEAN /\ snap' \in [Agents -> SUBSET Files]
    BY <1>5, <2>1 DEF Release, TypeOK, Agents
  <2>4. QED
    BY <2>1, <2>2, <2>3 DEF Settle, work, bounds, TypeOK, LeaseTypes
<1>6. ASSUME NEW u \in Users, ReleaseDirty(u) PROVE TypeOK'
  BY <1>6 DEF ReleaseDirty, TypeOK, ShapeInv, Using, Counting, Files, entry, lease, work, bounds
<1>7. ASSUME NEW u \in Users, Hash(u) PROVE TypeOK'
  BY <1>7 DEF Hash, TypeOK, ShapeInv, Using, Counting, Files, entry, lease, work, bounds
<1>8. ASSUME NEW u \in Users, Compare(u) PROVE TypeOK'
  <2>1. held[u] \in Copies /\ Settle(u)
    BY <1>8 DEF Compare, ShapeInv, Using
  <2>2. LeaseTypes' /\ refs' \in [Copies -> Nat] /\ saved' \in SUBSET Files
    BY <2>1, SettleTypes
  <2>3. dirty' \in [Copies -> BOOLEAN] /\ disturbed' \in BOOLEAN /\ snap' \in [Agents -> SUBSET Files]
    BY <1>8, <2>1 DEF Compare, TypeOK, Agents
  <2>4. QED
    BY <2>1, <2>2, <2>3 DEF Settle, work, bounds, TypeOK, LeaseTypes
<1>9. ASSUME NEW u \in Users, Released(u) PROVE TypeOK'
  <2>1. CASE draining /\ refs[held[u]] = 0
    <3>1. held[u] \in Copies /\ u \in Agents
      BY <1>9 DEF Released, ShapeInv, Agents
    <3>2. WorkTypes' /\ snap' \in [Agents -> SUBSET Files]
      BY <1>9, <2>1, <3>1, EvictTypes DEF Released
    <3>3. QED
      BY <1>9, <2>1, <3>2 DEF Released, TypeOK, WorkTypes, entry, bounds
  <2>2. CASE ~(draining /\ refs[held[u]] = 0)
    <3>1. LeaseTypes'
      BY <1>9, <2>2, DropTypes DEF Released
    <3>2. QED
      BY <1>9, <2>2, <3>1 DEF Released, TypeOK, LeaseTypes, entry, work, bounds
  <2>3. QED
    BY <2>1, <2>2
<1>10. ASSUME NEW u \in Users, PublishFails(u) PROVE TypeOK'
  BY <1>10 DEF PublishFails, Failure, Drop, TypeOK, ShapeInv, Using, Counting, Files, entry, lease, work, bounds
<1>11. ASSUME NEW u \in Users, HashFails(u) PROVE TypeOK'
  BY <1>11 DEF HashFails, Failure, Drop, TypeOK, ShapeInv, Using, Counting, Files, entry, lease, work, bounds
<1>12. ASSUME NEW u \in Users, ReleasedFails(u) PROVE TypeOK'
  BY <1>12 DEF ReleasedFails, Failure, Drop, TypeOK, ShapeInv, Using, Counting, Files, entry, lease, work, bounds
<1>13. ASSUME NEW u \in Users, NEW c \in Copies, AcquireNew(u, c) PROVE TypeOK'
  BY <1>13 DEF AcquireNew, Ask, Fresh, Unused, TypeOK, ShapeInv, Using, Counting, Files, entry, lease, work, bounds
<1>14. ASSUME NEW c \in Copies, Loaded(c) PROVE TypeOK'
  <2>1. PICK files \in SUBSET store :
          /\ local' = files /\ synced' = [synced EXCEPT ![c] = files]
          /\ baseline' = [u \in Users |-> IF phase[u] = "loading" /\ held[u] = c THEN files ELSE baseline[u]]
    BY <1>14 DEF Loaded
  <2>2. local' \in SUBSET Files /\ synced' \in [Copies -> SUBSET Files] /\ baseline' \in [Users -> SUBSET Files]
    BY <2>1 DEF TypeOK
  <2>3. Cardinality({u \in Users : phase[u] = "loading" /\ held[u] = c}) \in Nat
    BY Smaller
  <2>4. refs' \in [Copies -> Nat]
    BY <1>14, <2>3 DEF Loaded, TypeOK
  <2>5. /\ load' \in [Copies -> {"none", "loading", "done"}] /\ cut' \in SUBSET Copies
        /\ phase' \in [Users -> {"none", "loading", "publish", "held", "hash", "compare", "released", "evict"}]
    BY <1>14 DEF Loaded, TypeOK
  <2>6. QED
    BY <1>14, <2>2, <2>4, <2>5 DEF Loaded, TypeOK, work, bounds
<1>15. ASSUME NEW c \in Copies, LoadFails(c) PROVE TypeOK'
  BY <1>15 DEF LoadFails, Failure, TypeOK, ShapeInv, Using, Counting, Files, entry, lease, work, bounds
<1>16. ASSUME NEW t \in Tasks, FlushCopies(t) PROVE TypeOK'
  BY <1>16 DEF FlushCopies, Flush, TypeOK, ShapeInv, Using, Counting, Files, entry, lease, work, bounds
<1>17. ASSUME NEW t \in Tasks, EvictCopies(t) PROVE TypeOK'
  BY <1>17 DEF EvictCopies, FlushAndEvict, TypeOK, ShapeInv, Using, Counting, Files, entry, lease, work, bounds
<1>18. ASSUME NEW t \in Tasks, EvictAnyway(t) PROVE TypeOK'
  BY <1>18 DEF EvictAnyway, FlushAndEvict, TypeOK, ShapeInv, Using, Counting, Files, entry, lease, work, bounds
<1>19. ASSUME NEW t \in Tasks, BeginDrain(t) PROVE TypeOK'
  BY <1>19 DEF BeginDrain, TypeOK, ShapeInv, Using, Counting, Files, entry, lease, work, bounds
<1>20. ASSUME NEW t \in Tasks, DrainPass(t) PROVE TypeOK'
  <2>1. CASE known # None /\ refs[known] = 0
    <3>1. WorkTypes' /\ snap' \in [Agents -> SUBSET Files]
      BY <1>20, <2>1, EvictTypes DEF DrainPass, TypeOK, Agents
    <3>2. QED
      BY <1>20, <2>1, <3>1 DEF DrainPass, TypeOK, WorkTypes, entry, lease, bounds
  <2>2. CASE ~(known # None /\ refs[known] = 0)
    BY <1>20, <2>2 DEF DrainPass, TypeOK, Agents, entry, lease, bounds
  <2>3. QED
    BY <2>1, <2>2
<1>21. ASSUME NEW a \in Agents, Uploaded(a) PROVE TypeOK'
  <2>1. of[a] \in Copies
    BY <1>21 DEF Uploaded, ShapeInv
  <2>2. /\ store' \in SUBSET Files /\ synced' \in [Copies -> SUBSET Files] /\ snap' \in [Agents -> SUBSET Files]
        /\ dirty' \in [Copies -> BOOLEAN]
    BY <1>21, <2>1 DEF Uploaded, TypeOK
  <2>3. LeaseTypes' /\ WorkTypes'
    <3>1. CASE evicts[a]
      BY <1>21, <3>1 DEF Uploaded, TypeOK, LeaseTypes, WorkTypes, lease
    <3>2. CASE ~evicts[a]
      BY <1>21, <3>2, EndTypes DEF Uploaded
    <3>3. QED
      BY <3>1, <3>2
  <2>4. QED
    BY <1>21, <2>2, <2>3 DEF Uploaded, TypeOK, LeaseTypes, WorkTypes, bounds
<1>22. ASSUME NEW a \in Agents, Unleased(a) PROVE TypeOK'
  BY <1>22 DEF Unleased, TypeOK, ShapeInv, Using, Counting, Files, entry, lease, work, bounds
<1>23. ASSUME NEW a \in Agents, Evicted(a) PROVE TypeOK'
  <2>1. LeaseTypes' /\ WorkTypes'
    BY <1>23, EndTypes DEF Evicted
  <2>2. QED
    BY <1>23, <2>1 DEF Evicted, TypeOK, LeaseTypes, WorkTypes, entry, bounds
<1>24. ASSUME NEW a \in Agents, UploadFails(a) PROVE TypeOK'
  <2>1. LeaseTypes' /\ WorkTypes'
    BY <1>24, EndTypes DEF UploadFails
  <2>2. QED
    BY <1>24, <2>1 DEF UploadFails, Failure, TypeOK, LeaseTypes, WorkTypes, entry, bounds
<1>25. ASSUME NEW a \in Agents, UnleaseFails(a) PROVE TypeOK'
  <2>1. LeaseTypes' /\ WorkTypes'
    BY <1>25, EndTypes DEF UnleaseFails
  <2>2. QED
    BY <1>25, <2>1 DEF UnleaseFails, Failure, TypeOK, LeaseTypes, WorkTypes, entry, bounds
<1>26. ASSUME NEW a \in Agents, RmFails(a) PROVE TypeOK'
  <2>1. LeaseTypes' /\ WorkTypes'
    BY <1>26, EndTypes DEF RmFails
  <2>2. QED
    BY <1>26, <2>1 DEF RmFails, Failure, TypeOK, LeaseTypes, WorkTypes, entry, bounds
<1>27. QED
  BY <1>1, <1>2, <1>3, <1>4, <1>5, <1>6, <1>7, <1>8, <1>9, <1>10, <1>11, <1>12, <1>13, <1>14, <1>15, <1>16,
     <1>17, <1>18, <1>19, <1>20, <1>21, <1>22, <1>23, <1>24, <1>25, <1>26 DEF Next, UserStep, JobStep

\* What phases and jobs imply.
LEMMA ShapeKept ==
  ASSUME TypeOK, ShapeInv, Next
  PROVE  ShapeInv'
<1> USE CopyAssumption DEF Agents
<1>1. ASSUME NEW u \in Users, AcquireCopy(u) PROVE ShapeInv'
  BY <1>1 DEF AcquireCopy, Ask, TypeOK, ShapeInv, Using, Counting, entry, lease, work
<1>2. ASSUME NEW u \in Users, AcquireEntry(u) PROVE ShapeInv'
  BY <1>2 DEF AcquireEntry, Ask, TypeOK, ShapeInv, Using, Counting, entry, lease, work
<1>3. ASSUME NEW u \in Users, Write(u) PROVE ShapeInv'
  BY <1>3 DEF Write, TypeOK, ShapeInv, Using, Counting, entry, lease, work
<1>4. ASSUME NEW u \in Users, Published(u) PROVE ShapeInv'
  BY <1>4 DEF Published, TypeOK, ShapeInv, Using, Counting, entry, lease, work
<1>5. ASSUME NEW u \in Users, Release(u) PROVE ShapeInv'
  BY <1>5 DEF Release, Settle, TypeOK, ShapeInv, Using, Counting, entry, lease, work
<1>6. ASSUME NEW u \in Users, ReleaseDirty(u) PROVE ShapeInv'
  BY <1>6 DEF ReleaseDirty, TypeOK, ShapeInv, Using, Counting, entry, lease, work
<1>7. ASSUME NEW u \in Users, Hash(u) PROVE ShapeInv'
  BY <1>7 DEF Hash, TypeOK, ShapeInv, Using, Counting, entry, lease, work
<1>8. ASSUME NEW u \in Users, Compare(u) PROVE ShapeInv'
  BY <1>8 DEF Compare, Settle, TypeOK, ShapeInv, Using, Counting, entry, lease, work
<1>9. ASSUME NEW u \in Users, Released(u) PROVE ShapeInv'
  BY <1>9 DEF Released, FlushAndEvict, Drop, TypeOK, ShapeInv, Using, Counting, entry, lease, work
<1>10. ASSUME NEW u \in Users, PublishFails(u) PROVE ShapeInv'
  BY <1>10 DEF PublishFails, Failure, Drop, TypeOK, ShapeInv, Using, Counting, entry, lease, work
<1>11. ASSUME NEW u \in Users, HashFails(u) PROVE ShapeInv'
  BY <1>11 DEF HashFails, Failure, Drop, TypeOK, ShapeInv, Using, Counting, entry, lease, work
<1>12. ASSUME NEW u \in Users, ReleasedFails(u) PROVE ShapeInv'
  BY <1>12 DEF ReleasedFails, Failure, Drop, TypeOK, ShapeInv, Using, Counting, entry, lease, work
<1>13. ASSUME NEW u \in Users, NEW c \in Copies, AcquireNew(u, c) PROVE ShapeInv'
  BY <1>13 DEF AcquireNew, Ask, Fresh, Unused, TypeOK, ShapeInv, Using, Counting, entry, lease, work
<1>14. ASSUME NEW c \in Copies, Loaded(c) PROVE ShapeInv'
  BY <1>14 DEF Loaded, TypeOK, ShapeInv, Using, Counting, entry, lease, work
<1>15. ASSUME NEW c \in Copies, LoadFails(c) PROVE ShapeInv'
  BY <1>15 DEF LoadFails, Failure, TypeOK, ShapeInv, Using, Counting, entry, lease, work
<1>16. ASSUME NEW t \in Tasks, FlushCopies(t) PROVE ShapeInv'
  BY <1>16 DEF FlushCopies, Flush, TypeOK, ShapeInv, Using, Counting, entry, lease, work
<1>17. ASSUME NEW t \in Tasks, EvictCopies(t) PROVE ShapeInv'
  BY <1>17 DEF EvictCopies, FlushAndEvict, TypeOK, ShapeInv, Using, Counting, entry, lease, work
<1>18. ASSUME NEW t \in Tasks, EvictAnyway(t) PROVE ShapeInv'
  BY <1>18 DEF EvictAnyway, FlushAndEvict, TypeOK, ShapeInv, Using, Counting, entry, lease, work
<1>19. ASSUME NEW t \in Tasks, BeginDrain(t) PROVE ShapeInv'
  BY <1>19 DEF BeginDrain, TypeOK, ShapeInv, Using, Counting, entry, lease, work
<1>20. ASSUME NEW t \in Tasks, DrainPass(t) PROVE ShapeInv'
  BY <1>20 DEF DrainPass, FlushAndEvict, TypeOK, ShapeInv, Using, Counting, entry, lease, work
<1>21. ASSUME NEW a \in Agents, Uploaded(a) PROVE ShapeInv'
  <2>1. UNCHANGED load
    BY <1>21 DEF Uploaded
  <2>2. CASE evicts[a]
    BY <1>21, <2>1, <2>2 DEF Uploaded, lease, TypeOK, ShapeInv, Using, Counting
  <2>3. CASE ~evicts[a]
    BY <1>21, <2>1, <2>3 DEF Uploaded, EndJob, Drop, lease, TypeOK, ShapeInv, Using, Counting
  <2>4. QED
    BY <2>2, <2>3
<1>22. ASSUME NEW a \in Agents, Unleased(a) PROVE ShapeInv'
  BY <1>22 DEF Unleased, TypeOK, ShapeInv, Using, Counting, entry, lease, work
<1>23. ASSUME NEW a \in Agents, Evicted(a) PROVE ShapeInv'
  BY <1>23 DEF Evicted, EndJob, Drop, TypeOK, ShapeInv, Using, Counting, entry, lease, work
<1>24. ASSUME NEW a \in Agents, UploadFails(a) PROVE ShapeInv'
  BY <1>24 DEF UploadFails, Failure, EndJob, Drop, TypeOK, ShapeInv, Using, Counting, entry, lease, work
<1>25. ASSUME NEW a \in Agents, UnleaseFails(a) PROVE ShapeInv'
  BY <1>25 DEF UnleaseFails, Failure, EndJob, Drop, TypeOK, ShapeInv, Using, Counting, entry, lease, work
<1>26. ASSUME NEW a \in Agents, RmFails(a) PROVE ShapeInv'
  BY <1>26 DEF RmFails, Failure, EndJob, Drop, TypeOK, ShapeInv, Using, Counting, entry, lease, work
<1>27. QED
  BY <1>1, <1>2, <1>3, <1>4, <1>5, <1>6, <1>7, <1>8, <1>9, <1>10, <1>11, <1>12, <1>13, <1>14, <1>15, <1>16,
     <1>17, <1>18, <1>19, <1>20, <1>21, <1>22, <1>23, <1>24, <1>25, <1>26 DEF Next, UserStep, JobStep

\* Every lease is counted.
LEMMA CountKept ==
  ASSUME TypeOK, ShapeInv, CountInv, Next
  PROVE  CountInv'
<1> USE CopyAssumption DEF Agents
<1>1. ASSUME NEW u \in Users, AcquireCopy(u) PROVE CountInv'
  <2>1. known \in Copies /\ phase[u] = "none"
    BY <1>1 DEF AcquireCopy, Ask, TypeOK
  <2> SUFFICES ASSUME NEW c \in Copies PROVE Cardinality(Counted(c)') <= refs'[c]
    BY DEF CountInv
  <2>2. Counted(c) \subseteq Users
    BY DEF Counted
  <2>3. IsFiniteSet(Counted(c)) /\ Cardinality(Counted(c)) \in Nat
    BY <2>2, CopyAssumption, FS_Subset, FS_CardinalityType
  <2>4. refs[c] \in Nat /\ Cardinality(Counted(c)) <= refs[c]
    BY DEF TypeOK, CountInv
  <2>5. CASE c = known
    <3>1. u \notin Counted(c) /\ Counted(c)' = Counted(c) \cup {u}
      BY <1>1, <2>1, <2>5 DEF AcquireCopy, Counted, Counting, TypeOK
    <3>2. Cardinality(Counted(c)') = Cardinality(Counted(c)) + 1
      BY <2>3, <3>1, FS_AddElement
    <3>3. refs'[c] = refs[c] + 1
      BY <1>1, <2>5 DEF AcquireCopy, TypeOK
    <3>4. QED
      BY <2>3, <2>4, <3>2, <3>3
  <2>6. CASE c # known
    <3>1. Counted(c)' = Counted(c) /\ refs'[c] = refs[c]
      BY <1>1, <2>1, <2>6 DEF AcquireCopy, Counted, Counting, TypeOK
    <3>2. QED
      BY <2>4, <3>1
  <2>7. QED
    BY <2>5, <2>6
<1>2. ASSUME NEW u \in Users, AcquireEntry(u) PROVE CountInv'
  <2>1. refs' = refs /\ \A d \in Copies : Counted(d)' \subseteq Counted(d)
    BY <1>2 DEF AcquireEntry, Ask, TypeOK, ShapeInv, Using, Counted, Counting, entry, lease
  <2>2. QED
    BY <2>1, CountShrinks
<1>3. ASSUME NEW u \in Users, Write(u) PROVE CountInv'
  <2>1. refs' = refs /\ \A d \in Copies : Counted(d)' \subseteq Counted(d)
    BY <1>3 DEF Write, TypeOK, ShapeInv, Using, Counted, Counting, entry, lease
  <2>2. QED
    BY <2>1, CountShrinks
<1>4. ASSUME NEW u \in Users, Published(u) PROVE CountInv'
  <2>1. refs' = refs /\ \A d \in Copies : Counted(d)' \subseteq Counted(d)
    BY <1>4 DEF Published, TypeOK, ShapeInv, Using, Counted, Counting, entry, lease
  <2>2. QED
    BY <2>1, CountShrinks
<1>5. ASSUME NEW u \in Users, Release(u) PROVE CountInv'
  <2>1. held[u] \in Copies /\ phase[u] \in {"held", "compare"} /\ Settle(u)
    BY <1>5 DEF Release, ShapeInv, Using
  <2>2. QED
    BY <2>1, CountSettles
<1>6. ASSUME NEW u \in Users, ReleaseDirty(u) PROVE CountInv'
  <2>1. refs' = refs /\ \A d \in Copies : Counted(d)' \subseteq Counted(d)
    BY <1>6 DEF ReleaseDirty, TypeOK, ShapeInv, Using, Counted, Counting, entry, lease
  <2>2. QED
    BY <2>1, CountShrinks
<1>7. ASSUME NEW u \in Users, Hash(u) PROVE CountInv'
  <2>1. refs' = refs /\ \A d \in Copies : Counted(d)' \subseteq Counted(d)
    BY <1>7 DEF Hash, TypeOK, ShapeInv, Using, Counted, Counting, entry, lease
  <2>2. QED
    BY <2>1, CountShrinks
<1>8. ASSUME NEW u \in Users, Compare(u) PROVE CountInv'
  <2>1. held[u] \in Copies /\ phase[u] \in {"held", "compare"} /\ Settle(u)
    BY <1>8 DEF Compare, ShapeInv, Using
  <2>2. QED
    BY <2>1, CountSettles
<1>9. ASSUME NEW u \in Users, Released(u) PROVE CountInv'
  <2>1. refs' = refs /\ \A d \in Copies : Counted(d)' \subseteq Counted(d)
    BY <1>9 DEF Released, FlushAndEvict, Drop, TypeOK, ShapeInv, Using, Counted, Counting, entry, lease
  <2>2. QED
    BY <2>1, CountShrinks
<1>10. ASSUME NEW u \in Users, PublishFails(u) PROVE CountInv'
  <2>1. refs' = refs /\ \A d \in Copies : Counted(d)' \subseteq Counted(d)
    BY <1>10 DEF PublishFails, Failure, Drop, TypeOK, ShapeInv, Using, Counted, Counting, entry, lease
  <2>2. QED
    BY <2>1, CountShrinks
<1>11. ASSUME NEW u \in Users, HashFails(u) PROVE CountInv'
  <2>1. refs' = refs /\ \A d \in Copies : Counted(d)' \subseteq Counted(d)
    BY <1>11 DEF HashFails, Failure, Drop, TypeOK, ShapeInv, Using, Counted, Counting, entry, lease
  <2>2. QED
    BY <2>1, CountShrinks
<1>12. ASSUME NEW u \in Users, ReleasedFails(u) PROVE CountInv'
  <2>1. refs' = refs /\ \A d \in Copies : Counted(d)' \subseteq Counted(d)
    BY <1>12 DEF ReleasedFails, Failure, Drop, TypeOK, ShapeInv, Using, Counted, Counting, entry, lease
  <2>2. QED
    BY <2>1, CountShrinks
<1>13. ASSUME NEW u \in Users, NEW c \in Copies, AcquireNew(u, c) PROVE CountInv'
  <2>1. phase[u] = "none" /\ \A v \in Users : held[v] # c
    BY <1>13 DEF AcquireNew, Ask, Fresh, Unused
  <2> SUFFICES ASSUME NEW d \in Copies PROVE Cardinality(Counted(d)') <= refs'[d]
    BY DEF CountInv
  <2>2. Counted(d)' = Counted(d)
    BY <1>13, <2>1 DEF AcquireNew, Counted, Counting, TypeOK
  <2>3. CASE d = c
    <3>1. Counted(d) = {}
      BY <2>1, <2>3 DEF Counted
    <3>2. refs'[d] = 0
      BY <1>13, <2>3 DEF AcquireNew, TypeOK
    <3>3. QED
      BY <2>2, <3>1, <3>2, FS_EmptySet
  <2>4. CASE d # c
    <3>1. refs'[d] = refs[d]
      BY <1>13, <2>4 DEF AcquireNew, TypeOK
    <3>2. QED
      BY <2>2, <3>1 DEF CountInv
  <2>5. QED
    BY <2>3, <2>4
<1>14. ASSUME NEW c \in Copies, Loaded(c) PROVE CountInv'
  <2> DEFINE W == {u \in Users : phase[u] = "loading" /\ held[u] = c}
  <2> SUFFICES ASSUME NEW d \in Copies PROVE Cardinality(Counted(d)') <= refs'[d]
    BY DEF CountInv
  <2>1. Counted(d) \subseteq Users /\ W \subseteq Users
    BY DEF Counted
  <2>2. /\ IsFiniteSet(Counted(d)) /\ Cardinality(Counted(d)) \in Nat
        /\ IsFiniteSet(W) /\ Cardinality(W) \in Nat
    BY <2>1, CopyAssumption, FS_Subset, FS_CardinalityType
  <2>3. refs[d] \in Nat /\ Cardinality(Counted(d)) <= refs[d]
    BY DEF TypeOK, CountInv
  <2>4. CASE d = c
    <3>1. Counted(d)' = Counted(d) \cup W /\ Counted(d) \cap W = {}
      BY <1>14, <2>4 DEF Loaded, Counted, Counting, TypeOK
    <3>2. Cardinality(Counted(d)') = Cardinality(Counted(d)) + Cardinality(W)
      <4>1. Cardinality(Counted(d) \cup W) =
              Cardinality(Counted(d)) + Cardinality(W) - Cardinality(Counted(d) \cap W)
        BY <2>2, FS_Union
      <4>2. Cardinality(Counted(d) \cap W) = 0
        BY <3>1, FS_EmptySet
      <4>3. QED
        BY <2>2, <3>1, <4>1, <4>2
    <3>3. refs'[d] = refs[d] + Cardinality(W)
      BY <1>14, <2>4 DEF Loaded, TypeOK
    <3>4. QED
      BY <2>2, <2>3, <3>2, <3>3
  <2>5. CASE d # c
    <3>1. Counted(d)' = Counted(d) /\ refs'[d] = refs[d]
      BY <1>14, <2>5 DEF Loaded, Counted, Counting, TypeOK
    <3>2. QED
      BY <2>3, <3>1
  <2>6. QED
    BY <2>4, <2>5
<1>15. ASSUME NEW c \in Copies, LoadFails(c) PROVE CountInv'
  <2>1. refs' = refs /\ \A d \in Copies : Counted(d)' \subseteq Counted(d)
    BY <1>15 DEF LoadFails, Failure, TypeOK, ShapeInv, Using, Counted, Counting, entry, lease
  <2>2. QED
    BY <2>1, CountShrinks
<1>16. ASSUME NEW t \in Tasks, FlushCopies(t) PROVE CountInv'
  <2>1. refs' = refs /\ \A d \in Copies : Counted(d)' \subseteq Counted(d)
    BY <1>16 DEF FlushCopies, Flush, TypeOK, ShapeInv, Using, Counted, Counting, entry, lease
  <2>2. QED
    BY <2>1, CountShrinks
<1>17. ASSUME NEW t \in Tasks, EvictCopies(t) PROVE CountInv'
  <2>1. refs' = refs /\ \A d \in Copies : Counted(d)' \subseteq Counted(d)
    BY <1>17 DEF EvictCopies, FlushAndEvict, TypeOK, ShapeInv, Using, Counted, Counting, entry, lease
  <2>2. QED
    BY <2>1, CountShrinks
<1>18. ASSUME NEW t \in Tasks, EvictAnyway(t) PROVE CountInv'
  <2>1. refs' = refs /\ \A d \in Copies : Counted(d)' \subseteq Counted(d)
    BY <1>18 DEF EvictAnyway, FlushAndEvict, TypeOK, ShapeInv, Using, Counted, Counting, entry, lease
  <2>2. QED
    BY <2>1, CountShrinks
<1>19. ASSUME NEW t \in Tasks, BeginDrain(t) PROVE CountInv'
  <2>1. refs' = refs /\ \A d \in Copies : Counted(d)' \subseteq Counted(d)
    BY <1>19 DEF BeginDrain, TypeOK, ShapeInv, Using, Counted, Counting, entry, lease
  <2>2. QED
    BY <2>1, CountShrinks
<1>20. ASSUME NEW t \in Tasks, DrainPass(t) PROVE CountInv'
  <2>1. refs' = refs /\ \A d \in Copies : Counted(d)' \subseteq Counted(d)
    BY <1>20 DEF DrainPass, FlushAndEvict, TypeOK, ShapeInv, Using, Counted, Counting, entry, lease
  <2>2. QED
    BY <2>1, CountShrinks
<1>21. ASSUME NEW a \in Agents, Uploaded(a) PROVE CountInv'
  <2>1. refs' = refs /\ \A d \in Copies : Counted(d)' \subseteq Counted(d)
    BY <1>21 DEF Uploaded, EndJob, Drop, TypeOK, ShapeInv, Using, Counted, Counting, entry, lease
  <2>2. QED
    BY <2>1, CountShrinks
<1>22. ASSUME NEW a \in Agents, Unleased(a) PROVE CountInv'
  <2>1. refs' = refs /\ \A d \in Copies : Counted(d)' \subseteq Counted(d)
    BY <1>22 DEF Unleased, TypeOK, ShapeInv, Using, Counted, Counting, entry, lease
  <2>2. QED
    BY <2>1, CountShrinks
<1>23. ASSUME NEW a \in Agents, Evicted(a) PROVE CountInv'
  <2>1. refs' = refs /\ \A d \in Copies : Counted(d)' \subseteq Counted(d)
    BY <1>23 DEF Evicted, EndJob, Drop, TypeOK, ShapeInv, Using, Counted, Counting, entry, lease
  <2>2. QED
    BY <2>1, CountShrinks
<1>24. ASSUME NEW a \in Agents, UploadFails(a) PROVE CountInv'
  <2>1. refs' = refs /\ \A d \in Copies : Counted(d)' \subseteq Counted(d)
    BY <1>24 DEF UploadFails, Failure, EndJob, Drop, TypeOK, ShapeInv, Using, Counted, Counting, entry, lease
  <2>2. QED
    BY <2>1, CountShrinks
<1>25. ASSUME NEW a \in Agents, UnleaseFails(a) PROVE CountInv'
  <2>1. refs' = refs /\ \A d \in Copies : Counted(d)' \subseteq Counted(d)
    BY <1>25 DEF UnleaseFails, Failure, EndJob, Drop, TypeOK, ShapeInv, Using, Counted, Counting, entry, lease
  <2>2. QED
    BY <2>1, CountShrinks
<1>26. ASSUME NEW a \in Agents, RmFails(a) PROVE CountInv'
  <2>1. refs' = refs /\ \A d \in Copies : Counted(d)' \subseteq Counted(d)
    BY <1>26 DEF RmFails, Failure, EndJob, Drop, TypeOK, ShapeInv, Using, Counted, Counting, entry, lease
  <2>2. QED
    BY <2>1, CountShrinks
<1>27. QED
  BY <1>1, <1>2, <1>3, <1>4, <1>5, <1>6, <1>7, <1>8, <1>9, <1>10, <1>11, <1>12, <1>13, <1>14, <1>15, <1>16,
     <1>17, <1>18, <1>19, <1>20, <1>21, <1>22, <1>23, <1>24, <1>25, <1>26 DEF Next, UserStep, JobStep

\* No directory shows a write that has not been made, no baseline one of its lease.
LEMMA FreshKept ==
  ASSUME TypeOK, ShapeInv, FreshInv, Next
  PROVE  FreshInv'
<1> USE CopyAssumption DEF Agents
<1>1. ASSUME NEW u \in Users, AcquireCopy(u) PROVE FreshInv'
  BY <1>1 DEF AcquireCopy, Ask, TypeOK, ShapeInv, FreshInv, Shown, entry, lease, bounds
<1>2. ASSUME NEW u \in Users, AcquireEntry(u) PROVE FreshInv'
  BY <1>2 DEF AcquireEntry, Ask, TypeOK, ShapeInv, FreshInv, Shown, entry, lease, bounds
<1>3. ASSUME NEW u \in Users, Write(u) PROVE FreshInv'
  BY <1>3 DEF Write, TypeOK, ShapeInv, FreshInv, Shown, entry, lease, bounds
<1>4. ASSUME NEW u \in Users, Published(u) PROVE FreshInv'
  BY <1>4 DEF Published, TypeOK, ShapeInv, FreshInv, Shown, entry, lease, bounds
<1>5. ASSUME NEW u \in Users, Release(u) PROVE FreshInv'
  BY <1>5 DEF Release, Settle, TypeOK, ShapeInv, FreshInv, Shown, entry, lease, bounds
<1>6. ASSUME NEW u \in Users, ReleaseDirty(u) PROVE FreshInv'
  BY <1>6 DEF ReleaseDirty, TypeOK, ShapeInv, FreshInv, Shown, entry, lease, bounds
<1>7. ASSUME NEW u \in Users, Hash(u) PROVE FreshInv'
  BY <1>7 DEF Hash, TypeOK, ShapeInv, FreshInv, Shown, entry, lease, bounds
<1>8. ASSUME NEW u \in Users, Compare(u) PROVE FreshInv'
  BY <1>8 DEF Compare, Settle, TypeOK, ShapeInv, FreshInv, Shown, entry, lease, bounds
<1>9. ASSUME NEW u \in Users, Released(u) PROVE FreshInv'
  <2>1. UNCHANGED <<local, store, synced, written>>
    BY <1>9 DEF Released, entry, bounds
  <2>2. CASE draining /\ refs[held[u]] = 0
    <3>1. UNCHANGED <<baseline, mine>>
      BY <1>9, <2>2 DEF Released
    <3>2. \A b \in Agents : snap'[b] \subseteq Shown
      BY <1>9, <2>2 DEF Released, FlushAndEvict, TypeOK, FreshInv
    <3>3. QED
      BY <2>1, <3>1, <3>2 DEF FreshInv, Shown
  <2>3. CASE ~(draining /\ refs[held[u]] = 0)
    <3>1. snap' = snap
      BY <1>9, <2>3 DEF Released
    <3>2. \A v \in Users : baseline'[v] \subseteq Shown /\ mine'[v] \cap baseline'[v] = {}
      BY <1>9, <2>3 DEF Released, Drop, TypeOK, FreshInv
    <3>3. QED
      BY <2>1, <3>1, <3>2 DEF FreshInv, Shown
  <2>4. QED
    BY <2>2, <2>3
<1>10. ASSUME NEW u \in Users, PublishFails(u) PROVE FreshInv'
  BY <1>10 DEF PublishFails, Failure, Drop, TypeOK, ShapeInv, FreshInv, Shown, entry, lease, bounds
<1>11. ASSUME NEW u \in Users, HashFails(u) PROVE FreshInv'
  BY <1>11 DEF HashFails, Failure, Drop, TypeOK, ShapeInv, FreshInv, Shown, entry, lease, bounds
<1>12. ASSUME NEW u \in Users, ReleasedFails(u) PROVE FreshInv'
  BY <1>12 DEF ReleasedFails, Failure, Drop, TypeOK, ShapeInv, FreshInv, Shown, entry, lease, bounds
<1>13. ASSUME NEW u \in Users, NEW c \in Copies, AcquireNew(u, c) PROVE FreshInv'
  BY <1>13 DEF AcquireNew, Ask, Fresh, Unused, TypeOK, ShapeInv, FreshInv, Shown, entry, lease, bounds
<1>14. ASSUME NEW c \in Copies, Loaded(c) PROVE FreshInv'
  <2>1. PICK files \in SUBSET store :
          /\ local' = files /\ synced' = [synced EXCEPT ![c] = files]
          /\ baseline' = [u \in Users |-> IF phase[u] = "loading" /\ held[u] = c THEN files ELSE baseline[u]]
    BY <1>14 DEF Loaded
  <2>2. UNCHANGED <<store, mine, snap, written>>
    BY <1>14 DEF Loaded, bounds
  <2>3. \A u \in Users : phase[u] = "loading" => mine[u] = {}
    BY DEF ShapeInv
  <2>4. files \subseteq Shown
    BY DEF FreshInv
  <2>5. QED
    BY <2>1, <2>2, <2>3, <2>4 DEF FreshInv, Shown, TypeOK
<1>15. ASSUME NEW c \in Copies, LoadFails(c) PROVE FreshInv'
  BY <1>15 DEF LoadFails, Failure, TypeOK, ShapeInv, FreshInv, Shown, entry, lease, bounds
<1>16. ASSUME NEW t \in Tasks, FlushCopies(t) PROVE FreshInv'
  BY <1>16 DEF FlushCopies, Flush, TypeOK, ShapeInv, FreshInv, Shown, entry, lease, bounds
<1>17. ASSUME NEW t \in Tasks, EvictCopies(t) PROVE FreshInv'
  BY <1>17 DEF EvictCopies, FlushAndEvict, TypeOK, ShapeInv, FreshInv, Shown, entry, lease, bounds
<1>18. ASSUME NEW t \in Tasks, EvictAnyway(t) PROVE FreshInv'
  BY <1>18 DEF EvictAnyway, FlushAndEvict, TypeOK, ShapeInv, FreshInv, Shown, entry, lease, bounds
<1>19. ASSUME NEW t \in Tasks, BeginDrain(t) PROVE FreshInv'
  BY <1>19 DEF BeginDrain, TypeOK, ShapeInv, FreshInv, Shown, entry, lease, bounds
<1>20. ASSUME NEW t \in Tasks, DrainPass(t) PROVE FreshInv'
  <2>1. UNCHANGED <<local, store, synced, baseline, mine, written>>
    BY <1>20 DEF DrainPass, entry, lease, bounds
  <2>2. \A b \in Agents : snap'[b] \subseteq Shown
    <3>1. CASE known # None /\ refs[known] = 0
      BY <1>20, <3>1 DEF DrainPass, FlushAndEvict, TypeOK, FreshInv
    <3>2. CASE ~(known # None /\ refs[known] = 0)
      BY <1>20, <3>2 DEF DrainPass, FreshInv
    <3>3. QED
      BY <3>1, <3>2
  <2>3. QED
    BY <2>1, <2>2 DEF FreshInv, Shown
<1>21. ASSUME NEW a \in Agents, Uploaded(a) PROVE FreshInv'
  BY <1>21 DEF Uploaded, EndJob, Drop, TypeOK, ShapeInv, FreshInv, Shown, entry, lease, bounds
<1>22. ASSUME NEW a \in Agents, Unleased(a) PROVE FreshInv'
  BY <1>22 DEF Unleased, TypeOK, ShapeInv, FreshInv, Shown, entry, lease, bounds
<1>23. ASSUME NEW a \in Agents, Evicted(a) PROVE FreshInv'
  BY <1>23 DEF Evicted, EndJob, Drop, TypeOK, ShapeInv, FreshInv, Shown, entry, lease, bounds
<1>24. ASSUME NEW a \in Agents, UploadFails(a) PROVE FreshInv'
  BY <1>24 DEF UploadFails, Failure, EndJob, Drop, TypeOK, ShapeInv, FreshInv, Shown, entry, lease, bounds
<1>25. ASSUME NEW a \in Agents, UnleaseFails(a) PROVE FreshInv'
  BY <1>25 DEF UnleaseFails, Failure, EndJob, Drop, TypeOK, ShapeInv, FreshInv, Shown, entry, lease, bounds
<1>26. ASSUME NEW a \in Agents, RmFails(a) PROVE FreshInv'
  BY <1>26 DEF RmFails, Failure, EndJob, Drop, TypeOK, ShapeInv, FreshInv, Shown, entry, lease, bounds
<1>27. QED
  BY <1>1, <1>2, <1>3, <1>4, <1>5, <1>6, <1>7, <1>8, <1>9, <1>10, <1>11, <1>12, <1>13, <1>14, <1>15, <1>16,
     <1>17, <1>18, <1>19, <1>20, <1>21, <1>22, <1>23, <1>24, <1>25, <1>26 DEF Next, UserStep, JobStep

\* Leases and evictions exclude each other.
LEMMA LeasesKept ==
  ASSUME TypeOK, CountInv, ShapeInv, CalmLeases, ~disturbed', Next
  PROVE  CalmLeases'
<1> USE CopyAssumption DEF Agents
<1>1. ASSUME NEW u \in Users, AcquireCopy(u) PROVE CalmLeases'
  BY <1>1 DEF AcquireCopy, Ask, TypeOK, ShapeInv, CalmLeases, Using, Counting, Evicting, entry, lease, work
<1>2. ASSUME NEW u \in Users, AcquireEntry(u) PROVE CalmLeases'
  BY <1>2 DEF AcquireEntry, Ask, TypeOK, ShapeInv, CalmLeases, Using, Counting, Evicting, entry, lease, work
<1>3. ASSUME NEW u \in Users, Write(u) PROVE CalmLeases'
  BY <1>3 DEF Write, TypeOK, ShapeInv, CalmLeases, Using, Counting, Evicting, entry, lease, work
<1>4. ASSUME NEW u \in Users, Published(u) PROVE CalmLeases'
  BY <1>4 DEF Published, TypeOK, ShapeInv, CalmLeases, Using, Counting, Evicting, entry, lease, work
<1>5. ASSUME NEW u \in Users, Release(u) PROVE CalmLeases'
  BY <1>5 DEF Release, Settle, TypeOK, ShapeInv, CalmLeases, Using, Counting, Evicting, entry, lease, work
<1>6. ASSUME NEW u \in Users, ReleaseDirty(u) PROVE CalmLeases'
  BY <1>6 DEF ReleaseDirty, TypeOK, ShapeInv, CalmLeases, Using, Counting, Evicting, entry, lease, work
<1>7. ASSUME NEW u \in Users, Hash(u) PROVE CalmLeases'
  BY <1>7 DEF Hash, TypeOK, ShapeInv, CalmLeases, Using, Counting, Evicting, entry, lease, work
<1>8. ASSUME NEW u \in Users, Compare(u) PROVE CalmLeases'
  BY <1>8 DEF Compare, Settle, TypeOK, ShapeInv, CalmLeases, Using, Counting, Evicting, entry, lease, work
<1>9. ASSUME NEW u \in Users, Released(u) PROVE CalmLeases'
  <2>1. UNCHANGED <<known, load, cut>> /\ phase[u] = "released"
    BY <1>9 DEF Released, entry
  <2>2. CASE draining /\ refs[held[u]] = 0
    <3>1. held[u] \in Copies /\ load[held[u]] = "done" /\ known \in {held[u], None}
      BY <1>9, <2>1, <2>2 DEF Released, ShapeInv
    <3>2. \A v \in Users : ~Using(v)
      BY <2>2, <3>1, NoLease DEF ShapeInv, CalmLeases, Using, Counting
    <3>3. QED
      BY <1>9, <2>1, <2>2, <3>1, <3>2 DEF Released, FlushAndEvict, TypeOK, CalmLeases, Using
  <2>3. CASE ~(draining /\ refs[held[u]] = 0)
    BY <1>9, <2>1, <2>3 DEF Released, Drop, work, TypeOK, CalmLeases, Using
  <2>4. QED
    BY <2>2, <2>3
<1>10. ASSUME NEW u \in Users, PublishFails(u) PROVE CalmLeases'
  BY <1>10 DEF PublishFails, Failure, Drop, TypeOK, ShapeInv, CalmLeases, Using, Counting, Evicting, entry,
     lease, work
<1>11. ASSUME NEW u \in Users, HashFails(u) PROVE CalmLeases'
  BY <1>11 DEF HashFails, Failure, Drop, TypeOK, ShapeInv, CalmLeases, Using, Counting, Evicting, entry, lease, work
<1>12. ASSUME NEW u \in Users, ReleasedFails(u) PROVE CalmLeases'
  BY <1>12 DEF ReleasedFails, Failure, Drop, TypeOK, ShapeInv, CalmLeases, Using, Counting, Evicting, entry,
     lease, work
<1>13. ASSUME NEW u \in Users, NEW c \in Copies, AcquireNew(u, c) PROVE CalmLeases'
  BY <1>13 DEF AcquireNew, Ask, Fresh, Unused, TypeOK, ShapeInv, CalmLeases, Using, Counting, Evicting, entry,
     lease, work
<1>14. ASSUME NEW c \in Copies, Loaded(c) PROVE CalmLeases'
  BY <1>14 DEF Loaded, TypeOK, ShapeInv, CalmLeases, Using, Counting, Evicting, entry, lease, work
<1>15. ASSUME NEW c \in Copies, LoadFails(c) PROVE CalmLeases'
  BY <1>15 DEF LoadFails, Failure, TypeOK, ShapeInv, CalmLeases, Using, Counting, Evicting, entry, lease, work
<1>16. ASSUME NEW t \in Tasks, FlushCopies(t) PROVE CalmLeases'
  BY <1>16 DEF FlushCopies, Flush, TypeOK, ShapeInv, CalmLeases, Using, Counting, Evicting, entry, lease, work
<1>17. ASSUME NEW t \in Tasks, EvictCopies(t) PROVE CalmLeases'
  <2>1. load[known] # "loading" /\ known \in Copies /\ refs[known] = 0
    BY <1>17 DEF EvictCopies, TypeOK
  <2>2. \A u \in Users : ~Using(u)
    BY <2>1, NoLease DEF ShapeInv, CalmLeases, Using, Counting
  <2>3. QED
    BY <1>17, <2>2 DEF EvictCopies, FlushAndEvict, entry, lease, TypeOK, CalmLeases, Using
<1>18. ASSUME NEW t \in Tasks, EvictAnyway(t) PROVE CalmLeases'
  BY <1>18 DEF EvictAnyway, FlushAndEvict, TypeOK, ShapeInv, CalmLeases, Using, Counting, Evicting, entry, lease, work
<1>19. ASSUME NEW t \in Tasks, BeginDrain(t) PROVE CalmLeases'
  BY <1>19 DEF BeginDrain, TypeOK, ShapeInv, CalmLeases, Using, Counting, Evicting, entry, lease, work
<1>20. ASSUME NEW t \in Tasks, DrainPass(t) PROVE CalmLeases'
  <2>1. CASE known # None /\ refs[known] = 0
    <3>1. load[known] # "loading" /\ known \in Copies /\ refs[known] = 0
      BY <1>20, <2>1 DEF DrainPass, TypeOK
    <3>2. \A u \in Users : ~Using(u)
      BY <3>1, NoLease DEF ShapeInv, CalmLeases, Using, Counting
    <3>3. QED
      BY <1>20, <2>1, <3>2 DEF DrainPass, FlushAndEvict, entry, lease, TypeOK, CalmLeases, Using
  <2>2. CASE ~(known # None /\ refs[known] = 0)
    BY <1>20, <2>2 DEF DrainPass, entry, lease, TypeOK, CalmLeases, Using
  <2>3. QED
    BY <2>1, <2>2
<1>21. ASSUME NEW a \in Agents, Uploaded(a) PROVE CalmLeases'
  BY <1>21 DEF Uploaded, EndJob, Drop, TypeOK, ShapeInv, CalmLeases, Using, Counting, Evicting, entry, lease, work
<1>22. ASSUME NEW a \in Agents, Unleased(a) PROVE CalmLeases'
  BY <1>22 DEF Unleased, TypeOK, ShapeInv, CalmLeases, Using, Counting, Evicting, entry, lease, work
<1>23. ASSUME NEW a \in Agents, Evicted(a) PROVE CalmLeases'
  BY <1>23 DEF Evicted, EndJob, Drop, TypeOK, ShapeInv, CalmLeases, Using, Counting, Evicting, entry, lease, work
<1>24. ASSUME NEW a \in Agents, UploadFails(a) PROVE CalmLeases'
  BY <1>24 DEF UploadFails, Failure, EndJob, Drop, TypeOK, ShapeInv, CalmLeases, Using, Counting, Evicting,
     entry, lease, work
<1>25. ASSUME NEW a \in Agents, UnleaseFails(a) PROVE CalmLeases'
  BY <1>25 DEF UnleaseFails, Failure, EndJob, Drop, TypeOK, ShapeInv, CalmLeases, Using, Counting, Evicting,
     entry, lease, work
<1>26. ASSUME NEW a \in Agents, RmFails(a) PROVE CalmLeases'
  BY <1>26 DEF RmFails, Failure, EndJob, Drop, TypeOK, ShapeInv, CalmLeases, Using, Counting, Evicting, entry,
     lease, work
<1>27. QED
  BY <1>1, <1>2, <1>3, <1>4, <1>5, <1>6, <1>7, <1>8, <1>9, <1>10, <1>11, <1>12, <1>13, <1>14, <1>15, <1>16,
     <1>17, <1>18, <1>19, <1>20, <1>21, <1>22, <1>23, <1>24, <1>25, <1>26 DEF Next, UserStep, JobStep

\* Every directory that may replace the store shows all that is saved.
LEMMA FilesKept ==
  ASSUME TypeOK, FreshInv, ShapeInv, CalmLeases, CalmFiles, ~disturbed', Next
  PROVE  CalmFiles'
<1> USE CopyAssumption DEF Agents
<1>1. ASSUME NEW u \in Users, AcquireCopy(u) PROVE CalmFiles'
  BY <1>1 DEF AcquireCopy, Ask, TypeOK, ShapeInv, FreshInv, CalmLeases, CalmFiles, Using, Counting, NothingLost,
     Kept, Uploading, entry, lease, work
<1>2. ASSUME NEW u \in Users, AcquireEntry(u) PROVE CalmFiles'
  BY <1>2 DEF AcquireEntry, Ask, TypeOK, ShapeInv, FreshInv, CalmLeases, CalmFiles, Using, Counting,
     NothingLost, Kept, Uploading, entry, lease, work
<1>3. ASSUME NEW u \in Users, Write(u) PROVE CalmFiles'
  BY <1>3 DEF Write, TypeOK, ShapeInv, FreshInv, CalmLeases, CalmFiles, Using, Counting, NothingLost, Kept,
     Uploading, entry, lease, work
<1>4. ASSUME NEW u \in Users, Published(u) PROVE CalmFiles'
  BY <1>4 DEF Published, TypeOK, ShapeInv, FreshInv, CalmLeases, CalmFiles, Using, Counting, NothingLost, Kept,
     Uploading, entry, lease, work
<1>5. ASSUME NEW u \in Users, Release(u) PROVE CalmFiles'
  BY <1>5 DEF Release, Settle, TypeOK, ShapeInv, FreshInv, CalmLeases, CalmFiles, Using, Counting, NothingLost,
     Kept, Uploading, entry, lease, work
<1>6. ASSUME NEW u \in Users, ReleaseDirty(u) PROVE CalmFiles'
  BY <1>6 DEF ReleaseDirty, TypeOK, ShapeInv, FreshInv, CalmLeases, CalmFiles, Using, Counting, NothingLost,
     Kept, Uploading, entry, lease, work
<1>7. ASSUME NEW u \in Users, Hash(u) PROVE CalmFiles'
  BY <1>7 DEF Hash, TypeOK, ShapeInv, FreshInv, CalmLeases, CalmFiles, Using, Counting, NothingLost, Kept,
     Uploading, entry, lease, work
<1>8. ASSUME NEW u \in Users, Compare(u) PROVE CalmFiles'
  <2>1. /\ Using(u) /\ held[u] = known /\ known \in Copies /\ load[known] = "done"
        /\ \A a \in Agents : job[a] \notin {"lease", "rm"}
    BY <1>8 DEF Compare, ShapeInv, CalmLeases, Using, Counting
  <2>2. /\ dirty' = [dirty EXCEPT ![known] = snap[u] # baseline[u]]
        /\ saved' = saved \cup mine[u] /\ mine' = [mine EXCEPT ![u] = {}]
        /\ phase' = [phase EXCEPT ![u] = "released"] /\ snap' = [snap EXCEPT ![u] = {}]
        /\ UNCHANGED <<known, load, local, store, job>>
    BY <1>8, <2>1 DEF Compare, Settle, work
  <2>3. mine[u] # {} => snap[u] # baseline[u] /\ \A a \in Agents : job[a] # "upload"
    BY <1>8 DEF Compare, FreshInv, CalmFiles, Uploading
  <2>4. dirty[known] => snap[u] # baseline[u]
    BY <1>8, <2>1 DEF Compare
  <2>5. mine[u] \subseteq local /\ saved \subseteq local
    BY <2>1 DEF CalmFiles
  <2>6. job[u] = "none"
    BY <1>8 DEF Compare, ShapeInv, TypeOK, Agents
  <2>7. NothingLost'
    <3>1. known \in Copies /\ known # None
      BY <2>1
    <3>2. CASE snap[u] # baseline[u]
      <4>1. dirty'[known] /\ saved' \subseteq local
        BY <2>1, <2>2, <2>5, <3>2 DEF TypeOK
      <4>2. QED
        BY <2>2, <3>1, <4>1 DEF NothingLost, Kept
    <3>3. CASE snap[u] = baseline[u]
      <4>1. saved' = saved /\ ~dirty[known]
        BY <2>2, <2>3, <2>4, <3>3
      <4>2. QED
        BY <2>2, <4>1 DEF CalmFiles, NothingLost, Kept
    <3>4. QED
      BY <3>2, <3>3
  <2>8. \A a \in Agents : job'[a] = "upload" => saved' \subseteq snap'[a]
    BY <2>2, <2>3, <2>6 DEF CalmFiles, TypeOK, Agents
  <2>9. \A v \in Users : mine'[v] \subseteq local' /\ (phase'[v] = "compare" => mine'[v] \subseteq snap'[v])
    BY <2>2 DEF CalmFiles, TypeOK, Agents
  <2>10. \A c \in Copies : dirty'[c] => c = known /\ load[c] = "done"
    BY <2>1, <2>2 DEF CalmFiles, TypeOK
  <2>11. QED
    BY <2>1, <2>2, <2>5, <2>7, <2>8, <2>9, <2>10 DEF CalmFiles
<1>9. ASSUME NEW u \in Users, Released(u) PROVE CalmFiles'
  BY <1>9 DEF Released, FlushAndEvict, Drop, TypeOK, ShapeInv, FreshInv, CalmLeases, CalmFiles, Using, Counting,
     NothingLost, Kept, Uploading, entry, lease, work
<1>10. ASSUME NEW u \in Users, PublishFails(u) PROVE CalmFiles'
  BY <1>10 DEF PublishFails, Failure, Drop, TypeOK, ShapeInv, FreshInv, CalmLeases, CalmFiles, Using, Counting,
     NothingLost, Kept, Uploading, entry, lease, work
<1>11. ASSUME NEW u \in Users, HashFails(u) PROVE CalmFiles'
  BY <1>11 DEF HashFails, Failure, Drop, TypeOK, ShapeInv, FreshInv, CalmLeases, CalmFiles, Using, Counting,
     NothingLost, Kept, Uploading, entry, lease, work
<1>12. ASSUME NEW u \in Users, ReleasedFails(u) PROVE CalmFiles'
  BY <1>12 DEF ReleasedFails, Failure, Drop, TypeOK, ShapeInv, FreshInv, CalmLeases, CalmFiles, Using, Counting,
     NothingLost, Kept, Uploading, entry, lease, work
<1>13. ASSUME NEW u \in Users, NEW c \in Copies, AcquireNew(u, c) PROVE CalmFiles'
  BY <1>13 DEF AcquireNew, Ask, Fresh, Unused, TypeOK, ShapeInv, FreshInv, CalmLeases, CalmFiles, Using,
     Counting, NothingLost, Kept, Uploading, entry, lease, work
<1>14. ASSUME NEW c \in Copies, Loaded(c) PROVE CalmFiles'
  BY <1>14 DEF Loaded, TypeOK, ShapeInv, FreshInv, CalmLeases, CalmFiles, Using, Counting, NothingLost, Kept,
     Uploading, entry, lease, work
<1>15. ASSUME NEW c \in Copies, LoadFails(c) PROVE CalmFiles'
  BY <1>15 DEF LoadFails, Failure, TypeOK, ShapeInv, FreshInv, CalmLeases, CalmFiles, Using, Counting,
     NothingLost, Kept, Uploading, entry, lease, work
<1>16. ASSUME NEW t \in Tasks, FlushCopies(t) PROVE CalmFiles'
  BY <1>16 DEF FlushCopies, Flush, TypeOK, ShapeInv, FreshInv, CalmLeases, CalmFiles, Using, Counting,
     NothingLost, Kept, Uploading, entry, lease, work
<1>17. ASSUME NEW t \in Tasks, EvictCopies(t) PROVE CalmFiles'
  BY <1>17 DEF EvictCopies, FlushAndEvict, TypeOK, ShapeInv, FreshInv, CalmLeases, CalmFiles, Using, Counting,
     NothingLost, Kept, Uploading, entry, lease, work
<1>18. ASSUME NEW t \in Tasks, EvictAnyway(t) PROVE CalmFiles'
  BY <1>18 DEF EvictAnyway, FlushAndEvict, TypeOK, ShapeInv, FreshInv, CalmLeases, CalmFiles, Using, Counting,
     NothingLost, Kept, Uploading, entry, lease, work
<1>19. ASSUME NEW t \in Tasks, BeginDrain(t) PROVE CalmFiles'
  BY <1>19 DEF BeginDrain, TypeOK, ShapeInv, FreshInv, CalmLeases, CalmFiles, Using, Counting, NothingLost,
     Kept, Uploading, entry, lease, work
<1>20. ASSUME NEW t \in Tasks, DrainPass(t) PROVE CalmFiles'
  BY <1>20 DEF DrainPass, FlushAndEvict, TypeOK, ShapeInv, FreshInv, CalmLeases, CalmFiles, Using, Counting,
     NothingLost, Kept, Uploading, entry, lease, work
<1>21. ASSUME NEW a \in Agents, Uploaded(a) PROVE CalmFiles'
  BY <1>21 DEF Uploaded, EndJob, Drop, TypeOK, ShapeInv, FreshInv, CalmLeases, CalmFiles, Using, Counting,
     NothingLost, Kept, Uploading, entry, lease, work
<1>22. ASSUME NEW a \in Agents, Unleased(a) PROVE CalmFiles'
  BY <1>22 DEF Unleased, TypeOK, ShapeInv, FreshInv, CalmLeases, CalmFiles, Using, Counting, NothingLost, Kept,
     Uploading, entry, lease, work
<1>23. ASSUME NEW a \in Agents, Evicted(a) PROVE CalmFiles'
  BY <1>23 DEF Evicted, EndJob, Drop, TypeOK, ShapeInv, FreshInv, CalmLeases, CalmFiles, Using, Counting,
     NothingLost, Kept, Uploading, entry, lease, work
<1>24. ASSUME NEW a \in Agents, UploadFails(a) PROVE CalmFiles'
  BY <1>24 DEF UploadFails, Failure, EndJob, Drop, TypeOK, ShapeInv, FreshInv, CalmLeases, CalmFiles, Using,
     Counting, NothingLost, Kept, Uploading, entry, lease, work
<1>25. ASSUME NEW a \in Agents, UnleaseFails(a) PROVE CalmFiles'
  BY <1>25 DEF UnleaseFails, Failure, EndJob, Drop, TypeOK, ShapeInv, FreshInv, CalmLeases, CalmFiles, Using,
     Counting, NothingLost, Kept, Uploading, entry, lease, work
<1>26. ASSUME NEW a \in Agents, RmFails(a) PROVE CalmFiles'
  BY <1>26 DEF RmFails, Failure, EndJob, Drop, TypeOK, ShapeInv, FreshInv, CalmLeases, CalmFiles, Using,
     Counting, NothingLost, Kept, Uploading, entry, lease, work
<1>27. QED
  BY <1>1, <1>2, <1>3, <1>4, <1>5, <1>6, <1>7, <1>8, <1>9, <1>10, <1>11, <1>12, <1>13, <1>14, <1>15, <1>16,
     <1>17, <1>18, <1>19, <1>20, <1>21, <1>22, <1>23, <1>24, <1>25, <1>26 DEF Next, UserStep, JobStep
-----------------------------------------------------------------------------
(* The theorems.                                                             *)

\* A process without copies satisfies the invariant.
LEMMA InitCopyInv == Init => CopyInv
<1> SUFFICES ASSUME Init PROVE CopyInv
  OBVIOUS
<1>1. TypeOK
  <2>1. Base \in Files /\ 0 \in 0 .. MaxWrites
    BY CopyAssumption DEF Base, Files
  <2>2. QED
    BY <2>1 DEF Init, TypeOK
<1>2. CountInv
  <2> SUFFICES ASSUME NEW c \in Copies PROVE Cardinality(Counted(c)) <= refs[c]
    BY DEF CountInv
  <2>1. Counted(c) = {}
    BY DEF Init, Counted, Counting
  <2>2. refs[c] = 0
    BY DEF Init
  <2>3. QED
    BY <2>1, <2>2, FS_EmptySet
<1>3. FreshInv
  BY DEF Init, FreshInv, Shown, Base
<1>4. ShapeInv
  BY DEF Init, ShapeInv, Using, Counting, Agents
<1>5. CalmLeases /\ CalmFiles
  BY DEF Init, CalmLeases, CalmFiles, Using, NothingLost, Kept
<1>6. QED
  BY <1>1, <1>2, <1>3, <1>4, <1>5 DEF CopyInv

\* Every step keeps the invariant.
LEMMA CopyInvStep == CopyInv /\ [Next]_vars => CopyInv'
<1>1. ASSUME CopyInv, Next PROVE CopyInv'
  <2>1. TypeOK /\ CountInv /\ FreshInv /\ ShapeInv /\ (~disturbed => CalmLeases /\ CalmFiles)
    BY <1>1 DEF CopyInv
  <2>2. TypeOK' /\ ShapeInv'
    BY <1>1, <2>1, TypesKept, ShapeKept
  <2>3. CountInv' /\ FreshInv'
    BY <1>1, <2>1, CountKept, FreshKept
  <2>4. ASSUME ~disturbed' PROVE CalmLeases' /\ CalmFiles'
    <3>1. CalmLeases /\ CalmFiles
      BY <1>1, <2>1, <2>4, DisturbedStays
    <3>2. QED
      BY <1>1, <2>1, <2>4, <3>1, LeasesKept, FilesKept
  <2>5. QED
    BY <2>2, <2>3, <2>4 DEF CopyInv
<1>2. ASSUME CopyInv, UNCHANGED vars PROVE CopyInv'
  <2>1. CountInv'
    BY <1>2 DEF CopyInv, CountInv, Counted, vars, entry, lease
  <2>2. TypeOK' /\ FreshInv' /\ ShapeInv'
    BY <1>2 DEF CopyInv, TypeOK, FreshInv, Shown, ShapeInv, Using, vars, entry, lease, work, bounds
  <2>3. ~disturbed' => CalmLeases' /\ CalmFiles'
    BY <1>2 DEF CopyInv, CalmLeases, CalmFiles, Using, NothingLost, Kept, vars, entry, lease, work
  <2>4. QED
    BY <2>1, <2>2, <2>3 DEF CopyInv
<1>3. QED
  BY <1>1, <1>2

\* Every state of every behaviour satisfies the inductive invariant.
THEOREM CopyInvariance == Spec => []CopyInv
<1>1. QED
  BY InitCopyInv, CopyInvStep, PTL DEF Spec

\* The manager's state keeps its types: in particular refCount never falls
\* below zero, and no job works on an entry that does not exist.
THEOREM CopyTypeCorrect == Spec => []TypeOK
<1>1. CopyInv => TypeOK
  BY DEF CopyInv
<1>2. QED
  BY <1>1, CopyInvariance, PTL

\* What was released as dirty stays in the store or in a copy that will be
\* uploaded, whatever fails and however leases, flushes, evictions and a drain
\* interleave (workspace-materialization.ts, release, #flushEntry,
\* #flushAndEvictEntry), unless one of the overlaps came before that set disturbed: the
\* list of those overlaps is complete.
THEOREM LostOnlyWhenDisturbed == Spec => []NothingLostOtherwise
<1>1. CopyInv => NothingLostOtherwise
  BY DEF CopyInv, CalmFiles, NothingLostOtherwise
<1>2. QED
  BY <1>1, CopyInvariance, PTL

\* The reference count covers the leases: an entry whose count is zero has no
\* user between the announcement and the release of its lease, so the checks of
\* refCount in evictIdleCopies, beginDrain and release see every one of them.
THEOREM LeasesAreCounted == Spec => [](\A c \in Copies : refs[c] = 0 => Counted(c) = {})
<1>1. ASSUME CopyInv PROVE \A c \in Copies : refs[c] = 0 => Counted(c) = {}
  BY <1>1, NoLease DEF CopyInv, Counted
<1>2. QED
  BY <1>1, CopyInvariance, PTL
=============================================================================
