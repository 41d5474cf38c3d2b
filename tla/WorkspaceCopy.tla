---------------------------- MODULE WorkspaceCopy ----------------------------
(***************************************************************************)
(* WorkspaceMaterializationManager                                         *)
(* (apps/server/src/bootstrap/workspace-materialization.ts): the local     *)
(* copy of one object-store workspace in one process.                      *)
(*                                                                         *)
(* Users (runs, file requests) take leases on the copy, which is           *)
(* downloaded for the first of them; tasks (the maintenance timer, drain,  *)
(* close and the flush and evict requests of operators) upload it and      *)
(* remove it.  Nothing locks the copy: a step is what happens between two  *)
(* awaits, and the manager's map, the counters and the directory may       *)
(* change at each of them.                                                 *)
(*                                                                         *)
(* A directory, local or in the store, is the set of the writes it shows;  *)
(* Base stands for what the workspace held at first.  Its fingerprint      *)
(* hashes sizes and times, so it is as good as the set.  An entry object   *)
(* outlives its place in the map while a lease or a task still has it.     *)
(***************************************************************************)
EXTENDS Integers, FiniteSets

CONSTANTS
  Users, Tasks,
  Copies,       \* entry objects
  None,
  MaxWrites,    \* bound: writes
  MaxLeases,    \* bound: leases that are asked for
  MaxFailures   \* bound: calls to the store, the registries or the disk that fail

ASSUME CopyAssumption ==
  /\ None \notin Copies
  /\ Users \cap Tasks = {}
  /\ IsFiniteSet(Users)
  /\ MaxWrites \in Nat /\ MaxLeases \in Nat /\ MaxFailures \in Nat

VARIABLES
  known,      \* #entries: the workspace's entry
  dirty,      \* entry.dirty
  refs,       \* entry.refCount
  synced,     \* entry.lastSyncedLocalFingerprint
  load,       \* entry.materializedAt and entry.inFlight
  cut,        \* entries whose download an rm of the directory crossed
  local, store,
  phase,      \* how far a user's lease is
  held,       \* the entry it is a lease on
  baseline,   \* baselineFingerprint
  mine,       \* the writes that were made under it
  job,        \* what a task (or a user in its release) waits for
  of,         \* the entry it works on
  evicts,     \* it removes the copy after the upload
  snap,       \* the directory as it was read for an upload or a fingerprint
  draining,   \* #draining
  saved,      \* history: writes whose lease was released as dirty
  disturbed,  \* history: an overlap that the manager does not guard against
  written, leases, failures

entry == <<known, dirty, refs, synced, load, cut>>
lease == <<phase, held, baseline, mine>>
work == <<job, of, evicts>>
bounds == <<written, leases, failures>>
vars == <<entry, local, store, lease, work, snap, draining, saved, disturbed, bounds>>

Agents == Users \cup Tasks
Base == 0
Files == 0 .. MaxWrites

TypeOK ==
  /\ known \in Copies \cup {None}
  /\ dirty \in [Copies -> BOOLEAN]
  /\ refs \in [Copies -> Nat]
  /\ synced \in [Copies -> SUBSET Files]
  /\ load \in [Copies -> {"none", "loading", "done"}]
  /\ cut \in SUBSET Copies
  /\ local \in SUBSET Files /\ store \in SUBSET Files
  /\ phase \in [Users -> {"none", "loading", "publish", "held", "hash", "compare", "released", "evict"}]
  /\ held \in [Users -> Copies \cup {None}]
  /\ baseline \in [Users -> SUBSET Files]
  /\ mine \in [Users -> SUBSET Files]
  /\ job \in [Agents -> {"none", "pass", "upload", "lease", "rm"}]
  /\ of \in [Agents -> Copies \cup {None}]
  /\ evicts \in [Agents -> BOOLEAN]
  /\ snap \in [Agents -> SUBSET Files]
  /\ draining \in BOOLEAN
  /\ saved \in SUBSET Files
  /\ disturbed \in BOOLEAN
  /\ written \in 0 .. MaxWrites /\ leases \in Nat /\ failures \in Nat

Init ==
  /\ known = None
  /\ dirty = [c \in Copies |-> FALSE]
  /\ refs = [c \in Copies |-> 0]
  /\ synced = [c \in Copies |-> {}]
  /\ load = [c \in Copies |-> "none"]
  /\ cut = {}
  /\ local = {} /\ store = {Base}
  /\ phase = [u \in Users |-> "none"]
  /\ held = [u \in Users |-> None]
  /\ baseline = [u \in Users |-> {}]
  /\ mine = [u \in Users |-> {}]
  /\ job = [a \in Agents |-> "none"]
  /\ of = [a \in Agents |-> None]
  /\ evicts = [a \in Agents |-> FALSE]
  /\ snap = [a \in Agents |-> {}]
  /\ draining = FALSE
  /\ saved = {Base}
  /\ disturbed = FALSE
  /\ written = 0 /\ leases = 0 /\ failures = 0

Failure ==
  /\ failures < MaxFailures
  /\ failures' = failures + 1
  /\ UNCHANGED <<written, leases>>

Uploading == \E a \in Agents : job[a] = "upload"
Evicting == \E a \in Agents : job[a] # "none" /\ evicts[a]

-----------------------------------------------------------------------------
(* acquireWorkspace.                                                         *)

\* An entry object that nobody has.
Unused(c) ==
  /\ c # known
  /\ load[c] # "loading"
  /\ \A u \in Users : held[u] # c
  /\ \A a \in Agents : of[a] # c

\* Which one of them does not matter.
Fresh == {c \in Copies : Unused(c) /\ c = CHOOSE d \in Copies : Unused(d)}

Ask(u) ==
  /\ phase[u] = "none"
  /\ leases < MaxLeases
  /\ leases' = leases + 1
  /\ disturbed' = (disturbed \/ Evicting)
  /\ UNCHANGED <<local, store, work, snap, draining, saved, written, failures>>

\* The copy is there.
AcquireCopy(u) ==
  /\ Ask(u)
  /\ known # None
  /\ load[known] = "done"
  /\ refs' = [refs EXCEPT ![known] = @ + 1]
  /\ phase' = [phase EXCEPT ![u] = "publish"]
  /\ held' = [held EXCEPT ![u] = known]
  /\ baseline' = [baseline EXCEPT ![u] = synced[known]]
  /\ UNCHANGED <<known, dirty, synced, load, cut, mine>>

\* There is an entry without a copy: its download is joined, or begun again if
\* it failed.
AcquireEntry(u) ==
  /\ Ask(u)
  /\ known # None
  /\ load[known] # "done"
  /\ load' = [load EXCEPT ![known] = "loading"]
  /\ phase' = [phase EXCEPT ![u] = "loading"]
  /\ held' = [held EXCEPT ![u] = known]
  /\ UNCHANGED <<known, dirty, refs, synced, cut, baseline, mine>>

\* There is no entry.  A draining process makes none.
AcquireNew(u, c) ==
  /\ Ask(u)
  /\ known = None /\ ~draining
  /\ c \in Fresh
  /\ known' = c
  /\ dirty' = [dirty EXCEPT ![c] = FALSE]
  /\ refs' = [refs EXCEPT ![c] = 0]
  /\ synced' = [synced EXCEPT ![c] = {}]
  /\ load' = [load EXCEPT ![c] = "loading"]
  /\ cut' = cut \ {c}
  /\ phase' = [phase EXCEPT ![u] = "loading"]
  /\ held' = [held EXCEPT ![u] = c]
  /\ UNCHANGED <<baseline, mine>>

\* The download is complete, but for what an rm of the directory took away.
\* Everyone who waited for it goes on.
Loaded(c) ==
  /\ load[c] = "loading"
  /\ \E files \in IF c \in cut THEN SUBSET store ELSE {store} :
       /\ local' = files
       /\ synced' = [synced EXCEPT ![c] = files]
       /\ baseline' = [u \in Users |-> IF phase[u] = "loading" /\ held[u] = c THEN files ELSE baseline[u]]
  /\ load' = [load EXCEPT ![c] = "done"]
  /\ cut' = cut \ {c}
  /\ refs' = [refs EXCEPT ![c] = @ + Cardinality({u \in Users : phase[u] = "loading" /\ held[u] = c})]
  /\ phase' = [u \in Users |-> IF phase[u] = "loading" /\ held[u] = c THEN "publish" ELSE phase[u]]
  /\ UNCHANGED <<known, dirty, store, held, mine, work, snap, draining, saved, disturbed, bounds>>

LoadFails(c) ==
  /\ load[c] = "loading"
  /\ Failure
  /\ local' \in SUBSET store
  /\ load' = [load EXCEPT ![c] = "none"]
  /\ cut' = cut \ {c}
  /\ phase' = [u \in Users |-> IF phase[u] = "loading" /\ held[u] = c THEN "none" ELSE phase[u]]
  /\ held' = [u \in Users |-> IF phase[u] = "loading" /\ held[u] = c THEN None ELSE held[u]]
  /\ UNCHANGED <<known, dirty, refs, synced, store, baseline, mine, work, snap, draining, saved, disturbed>>

\* The lease is announced and handed out.
Published(u) ==
  /\ phase[u] = "publish"
  /\ phase' = [phase EXCEPT ![u] = "held"]
  /\ UNCHANGED <<entry, local, store, held, baseline, mine, work, snap, draining, saved, disturbed, bounds>>

\* A user's lease is over.
Drop(u) ==
  /\ phase' = [phase EXCEPT ![u] = "none"]
  /\ held' = [held EXCEPT ![u] = None]
  /\ baseline' = [baseline EXCEPT ![u] = {}]
  /\ mine' = [mine EXCEPT ![u] = {}]

\* A registry fails: acquireWorkspace throws, and the count stays.
PublishFails(u) ==
  /\ phase[u] = "publish"
  /\ Failure
  /\ Drop(u)
  /\ UNCHANGED <<entry, local, store, work, snap, draining, saved, disturbed>>

Write(u) ==
  /\ phase[u] = "held"
  /\ written < MaxWrites
  /\ written' = written + 1
  /\ local' = local \cup {written + 1}
  /\ mine' = [mine EXCEPT ![u] = @ \cup {written + 1}]
  /\ UNCHANGED <<entry, store, phase, held, baseline, work, snap, draining, saved, disturbed, leases, failures>>

-----------------------------------------------------------------------------
(* release.                                                                  *)

\* Mutated form: a lease may be released twice, and the count has no floor.
SettleTwice(u) ==
  /\ refs' = [refs EXCEPT ![held[u]] = @ - 1]
  /\ saved' = saved \cup mine[u]
  /\ mine' = [mine EXCEPT ![u] = {}]
  /\ UNCHANGED <<known, synced, load, cut, local, store, phase, held, baseline, work, draining, bounds>>

\* The count goes down, and what was written is the manager's to keep.
Settle(u) ==
  /\ refs' = [refs EXCEPT ![held[u]] = IF @ > 0 THEN @ - 1 ELSE 0]
  /\ phase' = [phase EXCEPT ![u] = "released"]
  /\ saved' = saved \cup mine[u]
  /\ mine' = [mine EXCEPT ![u] = {}]
  /\ baseline' = [baseline EXCEPT ![u] = {}]
  /\ UNCHANGED <<known, synced, load, cut, local, store, held, work, draining, bounds>>

\* release() of a lease that nothing was written under, or of a copy that is
\* dirty already.
Release(u) ==
  /\ phase[u] = "held"
  /\ mine[u] = {} \/ dirty[held[u]]
  /\ Settle(u)
  /\ disturbed' = (disturbed \/ (mine[u] # {} /\ Uploading))
  /\ UNCHANGED <<dirty, snap>>

\* release({dirty: true}): the directory is hashed first.
ReleaseDirty(u) ==
  /\ phase[u] = "held"
  /\ ~dirty[held[u]]
  /\ phase' = [phase EXCEPT ![u] = "hash"]
  /\ UNCHANGED <<entry, local, store, held, baseline, mine, work, snap, draining, saved, disturbed, bounds>>

Hash(u) ==
  /\ phase[u] = "hash"
  /\ snap' = [snap EXCEPT ![u] = local]
  /\ phase' = [phase EXCEPT ![u] = "compare"]
  /\ UNCHANGED <<entry, local, store, held, baseline, mine, work, draining, saved, disturbed, bounds>>

\* entry.dirty ||= (await fingerprint) !== baseline: the old value was looked at
\* before the await, and is overwritten after it.
Compare(u) ==
  /\ phase[u] = "compare"
  /\ dirty' = [dirty EXCEPT ![held[u]] = snap[u] # baseline[u]]
  /\ disturbed' = (disturbed \/ (mine[u] # {} /\ Uploading) \/ (dirty[held[u]] /\ snap[u] = baseline[u]))
  /\ snap' = [snap EXCEPT ![u] = {}]
  /\ Settle(u)

\* The directory cannot be read: release() throws, and the count stays.
HashFails(u) ==
  /\ phase[u] = "hash"
  /\ Failure
  /\ Drop(u)
  /\ UNCHANGED <<entry, local, store, work, snap, draining, saved, disturbed>>

\* Agent a begins to flush entry c, or to flush it and to evict it.
Flush(a, c) ==
  /\ job' = [job EXCEPT ![a] = "upload"]
  /\ of' = [of EXCEPT ![a] = c]
  /\ evicts' = [evicts EXCEPT ![a] = FALSE]
  /\ snap' = [snap EXCEPT ![a] = local]

FlushAndEvict(a, c) ==
  /\ job' = [job EXCEPT ![a] = IF dirty[c] THEN "upload" ELSE "lease"]
  /\ of' = [of EXCEPT ![a] = c]
  /\ evicts' = [evicts EXCEPT ![a] = TRUE]
  /\ snap' = [snap EXCEPT ![a] = IF dirty[c] THEN local ELSE {}]

\* Mutated form: the last lease leaves the copy of a draining process behind.
ReleasedOnly(u) ==
  /\ phase[u] = "released"
  /\ Drop(u)
  /\ UNCHANGED <<entry, local, store, work, snap, draining, saved, disturbed, bounds>>

\* The release is announced; in a draining process the last lease removes the
\* copy.
Released(u) ==
  /\ phase[u] = "released"
  /\ IF draining /\ refs[held[u]] = 0
     THEN /\ FlushAndEvict(u, held[u])
          /\ disturbed' = (disturbed \/ known \notin {held[u], None})
          /\ phase' = [phase EXCEPT ![u] = "evict"]
          /\ UNCHANGED <<held, baseline, mine>>
     ELSE Drop(u) /\ UNCHANGED <<work, snap, disturbed>>
  /\ UNCHANGED <<entry, local, store, draining, saved, bounds>>

ReleasedFails(u) ==
  /\ phase[u] = "released"
  /\ Failure
  /\ Drop(u)
  /\ UNCHANGED <<entry, local, store, work, snap, draining, saved, disturbed>>

-----------------------------------------------------------------------------
(* The tasks.                                                                *)

\* flushIdleCopies and flushWorkspaceCopies.  The latter does not ask whether
\* the copy is in use.
FlushCopies(t) ==
  /\ job[t] = "none"
  /\ known # None
  /\ dirty[known]
  /\ Flush(t, known)
  /\ UNCHANGED <<entry, local, store, lease, draining, saved, disturbed, bounds>>

\* evictIdleCopies and evictWorkspaceCopies.  An entry whose copy is being
\* downloaded has no leases yet, and is as old as its creation: it may be idle.
EvictCopies(t) ==
  /\ job[t] = "none"
  /\ known # None
  /\ refs[known] = 0
  /\ FlushAndEvict(t, known)
  /\ disturbed' = (disturbed \/ load[known] = "loading")
  /\ UNCHANGED <<entry, local, store, lease, draining, saved, bounds>>

\* evictWorkspaceCopies with force, and close().
EvictAnyway(t) ==
  /\ job[t] = "none"
  /\ known # None
  /\ refs[known] > 0
  /\ FlushAndEvict(t, known)
  /\ disturbed' = TRUE
  /\ UNCHANGED <<entry, local, store, lease, draining, saved, bounds>>

\* beginDrain: the entries are announced again, then the idle ones are evicted.
BeginDrain(t) ==
  /\ job[t] = "none"
  /\ ~draining
  /\ draining' = TRUE
  /\ job' = [job EXCEPT ![t] = "pass"]
  /\ UNCHANGED <<entry, local, store, lease, of, evicts, snap, saved, disturbed, bounds>>

DrainPass(t) ==
  /\ job[t] = "pass"
  /\ IF known # None /\ refs[known] = 0
     THEN /\ FlushAndEvict(t, known)
          /\ disturbed' = (disturbed \/ load[known] = "loading")
     ELSE /\ job' = [job EXCEPT ![t] = "none"]
          /\ UNCHANGED <<of, evicts, snap, disturbed>>
  /\ UNCHANGED <<entry, local, store, lease, draining, saved, bounds>>

\* The end of a job; a user's lease ends with it.
EndJob(a) ==
  /\ job' = [job EXCEPT ![a] = "none"]
  /\ of' = [of EXCEPT ![a] = None]
  /\ evicts' = [evicts EXCEPT ![a] = FALSE]
  /\ IF a \in Users THEN Drop(a) ELSE UNCHANGED lease

\* The directory, as it was read, is the store's; the entry is clean.
Uploaded(a) ==
  /\ job[a] = "upload"
  /\ store' = snap[a]
  /\ synced' = [synced EXCEPT ![of[a]] = snap[a]]
  /\ dirty' = [dirty EXCEPT ![of[a]] = FALSE]
  /\ snap' = [snap EXCEPT ![a] = {}]
  /\ IF evicts[a] THEN job' = [job EXCEPT ![a] = "lease"] /\ UNCHANGED <<of, evicts, lease>>
     ELSE EndJob(a)
  /\ UNCHANGED <<known, refs, load, cut, local, draining, saved, disturbed, bounds>>

\* Mutated form: the eviction goes on without the upload.
UploadFailsAndGoesOn(a) ==
  /\ job[a] = "upload"
  /\ Failure
  /\ \E part \in SUBSET snap[a] : store' = store \cup part
  /\ snap' = [snap EXCEPT ![a] = {}]
  /\ IF evicts[a] THEN job' = [job EXCEPT ![a] = "lease"] /\ UNCHANGED <<of, evicts, lease>>
     ELSE EndJob(a)
  /\ UNCHANGED <<entry, local, draining, saved, disturbed>>

\* Some files are in the store; what is to be deleted there is deleted last.
UploadFails(a) ==
  /\ job[a] = "upload"
  /\ Failure
  /\ \E part \in SUBSET snap[a] : store' = store \cup part
  /\ snap' = [snap EXCEPT ![a] = {}]
  /\ EndJob(a)
  /\ UNCHANGED <<entry, local, draining, saved, disturbed>>

\* The lease is withdrawn from the registries.
Unleased(a) ==
  /\ job[a] = "lease"
  /\ job' = [job EXCEPT ![a] = "rm"]
  /\ UNCHANGED <<entry, local, store, lease, of, evicts, snap, draining, saved, disturbed, bounds>>

UnleaseFails(a) ==
  /\ job[a] = "lease"
  /\ Failure
  /\ EndJob(a)
  /\ UNCHANGED <<entry, local, store, snap, draining, saved, disturbed>>

\* The directory is gone, and the workspace's entry too, whichever it is now.
Evicted(a) ==
  /\ job[a] = "rm"
  /\ local' = {}
  /\ known' = None
  /\ cut' = cut \cup {c \in Copies : load[c] = "loading"}
  /\ EndJob(a)
  /\ UNCHANGED <<dirty, refs, synced, load, store, snap, draining, saved, disturbed, bounds>>

\* A part of the directory is gone; the entry stays.
RmFails(a) ==
  /\ job[a] = "rm"
  /\ Failure
  /\ local' \in SUBSET local
  /\ disturbed' = TRUE
  /\ cut' = cut \cup {c \in Copies : load[c] = "loading"}
  /\ EndJob(a)
  /\ UNCHANGED <<known, dirty, refs, synced, load, store, snap, draining, saved>>

-----------------------------------------------------------------------------
UserStep(u) ==
  \/ Published(u) \/ Release(u) \/ ReleaseDirty(u) \/ Hash(u) \/ Compare(u) \/ Released(u)
JobStep(a) == Uploaded(a) \/ Unleased(a) \/ Evicted(a)

Next ==
  \/ \E u \in Users : AcquireCopy(u) \/ AcquireEntry(u) \/ Write(u) \/ UserStep(u)
  \/ \E u \in Users : PublishFails(u) \/ HashFails(u) \/ ReleasedFails(u)
  \/ \E u \in Users, c \in Copies : AcquireNew(u, c)
  \/ \E c \in Copies : Loaded(c) \/ LoadFails(c)
  \/ \E t \in Tasks : FlushCopies(t) \/ EvictCopies(t) \/ EvictAnyway(t) \/ BeginDrain(t) \/ DrainPass(t)
  \/ \E a \in Agents : JobStep(a) \/ UploadFails(a) \/ UnleaseFails(a) \/ RmFails(a)

Spec == Init /\ [][Next]_vars

\* Transfers and registry calls return, and leases are released.
FairSpec ==
  /\ Spec
  /\ \A u \in Users : WF_vars(UserStep(u))
  /\ \A c \in Copies : WF_vars(Loaded(c))
  /\ \A t \in Tasks : WF_vars(DrainPass(t))
  /\ \A a \in Agents : WF_vars(JobStep(a))

-----------------------------------------------------------------------------
(* Properties.                                                               *)

Kept == store \cup (IF known # None /\ dirty[known] THEN local ELSE {})

\* What was written under a lease that was released as dirty, and what the
\* workspace held before, is in the store or in a copy that will be uploaded.
NothingLost == saved \subseteq Kept

\* Nothing is lost unless one of the overlaps that set disturbed came before: a
\* lease asked for during an eviction, a write released while an upload reads the
\* directory or whose mark a fingerprint overwrites, a copy evicted while it is
\* downloaded or used, an rm that failed half-way.  Otherwise, a call that fails
\* keeps the copy, the leases of others do not hide a write, and the last lease of
\* a draining process uploads before it removes.
NothingLostOtherwise == ~disturbed => NothingLost

\* A draining process gets rid of its copy: at once if nobody uses it, else
\* with the last lease, however the leases, the downloads and the evictions
\* overlap.
DrainConverges == draining ~> (known = None \/ failures > 0)
=============================================================================
