------------------------------ MODULE Tracker ------------------------------
(***************************************************************************)
(* internal/service: TrackerService.Commit and Restore over the revision   *)
(* store, with the cache of hot states.                                    *)
(*                                                                         *)
(* The first revision of an object is a full snapshot, later ones are      *)
(* change-sets against the revision before (PreviousID), with a snapshot   *)
(* in between every snapshotEvery revisions, an interval each session on   *)
(* the file is started with anew (--snapshot-interval).  Restore walks the *)
(* chain of patches back to a snapshot and applies them oldest first.      *)
(*                                                                         *)
(* The commit lock of an object and the store are taken at the level of    *)
(* their specifications: ObjectMutex (CommitLocks implements it) and       *)
(* RevisionLog (RevisionStore implements it) with the counter in memory    *)
(* that GetLatestRevision prefers to the store.  An action is what a call  *)
(* does between two accesses to state that others change: the cache, which *)
(* a janitor evicts from, and the store, one transaction at a time.        *)
(***************************************************************************)
EXTENDS Naturals, Sequences, FiniteSets, FiniteSetsExt, Functions

CONSTANTS
  Clients,                \* goroutines that call Commit or Restore
  Uids,                   \* object UIDs
  Objects,                \* the versions an object can take
  None,                   \* nil: no entry, no object, no counter
  DiffOf(_, _),           \* diffmap.Diff
  ApplyTo(_, _),          \* diffmap.Apply
  ResourceVersion(_),     \* util.ExtractResourceVersion; None when absent
  Intervals,              \* the snapshot intervals sessions are started with
  CacheCapacity,          \* maxTrackedEntries; 0 models withCache = false
  MaxRevisions,           \* bound: revisions of an object
  MaxCommits              \* bound: revisions of all objects together

ASSUME TrackerAssumption ==
  /\ None \notin Objects
  /\ None \notin Uids
  /\ None \notin Nat
  /\ None \notin [obj : Objects, rev : 0..MaxRevisions]
  /\ Intervals \subseteq Nat \ {0} /\ Intervals # {}
  /\ CacheCapacity \in Nat
  /\ MaxRevisions \in Nat
  /\ MaxCommits \in Nat

(* A change-set turns the version it was made from into the version it was   *)
(* made for.  DiffChain checks it for the algorithm of pkg/diffmap.          *)
ASSUME RoundTrip == \A a, b \in Objects : ApplyTo(a, DiffOf(a, b)) = b

VARIABLES
  latest,                 \* the store: revisions of each object
  record,                 \* the store: uid -> revision -> snapshot or patch
  nextRevisionCounter,    \* the store's counter in memory, or None
  cache,                  \* the hot state of each object, or None
  content,                \* the objects committed: uid -> revision -> object (history)
  recordedEvery,          \* the interval of the session that wrote each revision (history)
  snapshotEvery,          \* the interval of this session
  pc,                     \* what each client is doing
  uid,                    \* the object its call is about
  newObject,              \* the version it commits; None in a plain Restore
  ts,                     \* Commit's local trackerState
  target,                 \* Restore: the revision asked for
  currentRevision,        \* Restore: where the walk is
  patchChain,             \* Restore: the revisions whose patches it has collected
  state                   \* Restore: the object being rebuilt

fileVars  == <<latest, record, content, recordedEvery, snapshotEvery>>
storeVars == <<fileVars, nextRevisionCounter>>
callVars  == <<pc, uid, newObject, ts>>
walkVars  == <<target, currentRevision, patchChain, state>>
vars == <<latest, record, nextRevisionCounter, cache, content, recordedEvery, snapshotEvery,
          pc, uid, newObject, ts, target, currentRevision, patchChain, state>>

TrackerStates == [obj : Objects, rev : 0..MaxRevisions]

ChangeSets == {DiffOf(a, b) : a \in Objects, b \in Objects}

Snapshots == [kind : {"snapshot"}, previous : 0..MaxRevisions, obj : Objects]
Patches   == [kind : {"patch"}, previous : 0..MaxRevisions, patch : ChangeSets]
Records   == Snapshots \union Patches

Phases == {"idle", "cold", "first", "get", "apply", "write"}

(* newSnapshot and newPatch. *)
NewSnapshot(o, previous) == [kind |-> "snapshot", previous |-> previous, obj |-> o]
NewPatch(previous, chg)  == [kind |-> "patch", previous |-> previous, patch |-> chg]

(* The log of records in the store, that of the objects they stand for, and  *)
(* that of the intervals they were written under; the same transaction       *)
(* appends to all of them.                                                   *)
Store    == INSTANCE RevisionLog WITH length <- latest, record <- record, Records <- Records
Contents == INSTANCE RevisionLog WITH length <- latest, record <- content, Records <- Objects
Periods  == INSTANCE RevisionLog WITH length <- latest, record <- recordedEvery, Records <- Intervals

Init ==
  /\ Store!Init
  /\ Contents!Init
  /\ Periods!Init
  /\ snapshotEvery \in Intervals
  /\ nextRevisionCounter = [u \in Uids |-> None]
  /\ cache = [u \in Uids |-> None]
  /\ pc = [c \in Clients |-> "idle"]
  /\ uid = [c \in Clients |-> None]
  /\ newObject = [c \in Clients |-> None]
  /\ ts = [c \in Clients |-> None]
  /\ target = [c \in Clients |-> 0]
  /\ currentRevision = [c \in Clients |-> 0]
  /\ patchChain = [c \in Clients |-> <<>>]
  /\ state = [c \in Clients |-> None]

-----------------------------------------------------------------------------
(* The entries of the cache. *)
Cached == {u \in Uids : cache[u] # None}

(* stateCache.set: an entry that is there is replaced; a new one is dropped  *)
(* when the cache is full.                                                   *)
CacheSet(u, entry) ==
  LET full == Cardinality(Cached) >= CacheCapacity
  IN  IF cache[u] = None /\ full THEN cache ELSE [cache EXCEPT ![u] = entry]

(* A plausible bug: the state is stored again although it was evicted. *)
ReinsertEntry(u, entry) == [cache EXCEPT ![u] = entry]

(* The object's entry, if the janitor has not evicted it, is the very        *)
(* trackerState that Commit changes in place.                                *)
UpdateEntry(u, entry) == IF cache[u] = None THEN cache ELSE [cache EXCEPT ![u] = entry]

(* SetSnapshot or SetPatch commits record x, which stands for object o.  The *)
(* revision is claimed from the store, which resets the counter in memory.   *)
StoreRevision(u, x, o) ==
  /\ Store!Append(u, x)
  /\ Contents!Append(u, o)
  /\ Periods!Append(u, snapshotEvery)
  /\ snapshotEvery' = snapshotEvery
  /\ nextRevisionCounter' = [nextRevisionCounter EXCEPT ![u] = latest[u] + 1]

(* The commit lock of u is free. *)
Unlocked(u) == \A c \in Clients : uid[c] = u => newObject[c] = None

(* The call returns; a deferred Unlock releases the commit lock. *)
Return(c) ==
  /\ pc' = [pc EXCEPT ![c] = "idle"]
  /\ uid' = [uid EXCEPT ![c] = None]
  /\ newObject' = [newObject EXCEPT ![c] = None]
  /\ ts' = [ts EXCEPT ![c] = None]
  /\ target' = [target EXCEPT ![c] = 0]
  /\ currentRevision' = [currentRevision EXCEPT ![c] = 0]
  /\ patchChain' = [patchChain EXCEPT ![c] = <<>>]
  /\ state' = [state EXCEPT ![c] = None]

-----------------------------------------------------------------------------
(* Commit: the lock is taken and the cache looked up. *)
BeginCommit(c, u, o) ==
  /\ pc[c] = "idle"
  /\ Unlocked(u)
  /\ latest[u] < MaxRevisions /\ MapThenSumSet(LAMBDA v : latest[v], Uids) < MaxCommits
  /\ uid' = [uid EXCEPT ![c] = u]
  /\ newObject' = [newObject EXCEPT ![c] = o]
  /\ \/ /\ cache[u] # None
        /\ ts' = [ts EXCEPT ![c] = cache[u]]
        /\ pc' = [pc EXCEPT ![c] = "write"]
     \/ /\ cache[u] = None
        /\ ts' = ts
        /\ pc' = [pc EXCEPT ![c] = "cold"]
  /\ UNCHANGED <<storeVars, cache, walkVars>>

(* Restore of revision r starts. *)
StartRestore(c, r) ==
  /\ target' = [target EXCEPT ![c] = r]
  /\ currentRevision' = [currentRevision EXCEPT ![c] = r]
  /\ pc' = [pc EXCEPT ![c] = "get"]
  /\ UNCHANGED <<patchChain, state>>

(* Commit without a hot state: GetLatestRevision answers the counter in      *)
(* memory or else the store's, which it copies to memory; ErrNotFound means  *)
(* a first revision.                                                         *)
ColdStart(c) ==
  LET u    == uid[c]
      next == IF nextRevisionCounter[u] # None THEN nextRevisionCounter[u] ELSE latest[u]
  IN  /\ pc[c] = "cold"
      /\ \/ /\ next = 0
            /\ pc' = [pc EXCEPT ![c] = "first"]
            /\ UNCHANGED <<nextRevisionCounter, walkVars>>
         \/ /\ next # 0
            /\ nextRevisionCounter' = [nextRevisionCounter EXCEPT ![u] = next]
            /\ StartRestore(c, next - 1)
      /\ UNCHANGED <<fileVars, cache, uid, newObject, ts>>

(* Restore called by itself, without any lock. *)
CallRestore(c, u, r) ==
  /\ pc[c] = "idle"
  /\ uid' = [uid EXCEPT ![c] = u]
  /\ StartRestore(c, r)
  /\ UNCHANGED <<storeVars, cache, newObject, ts>>

(* Get finds revision r, and if it is a patch, it points back (the guard of  *)
(* Restore against corrupted chains).                                        *)
Usable(u, r) ==
  /\ r \in Store!Revisions(u)
  /\ record[u][r].kind = "patch" => record[u][r].previous < r

(* One round of Restore's first loop ends in an error, goes on along a       *)
(* patch, or has found the base snapshot.                                    *)
RestoreGet(c) ==
  LET u == uid[c]
      r == currentRevision[c]
  IN  /\ pc[c] = "get"
      /\ \/ /\ ~Usable(u, r)
            /\ Return(c)
         \/ /\ Usable(u, r)
            /\ record[u][r].kind = "patch"
            /\ patchChain' = [patchChain EXCEPT ![c] = Append(patchChain[c], r)]
            /\ currentRevision' = [currentRevision EXCEPT ![c] = record[u][r].previous]
            /\ UNCHANGED <<callVars, target, state>>
         \/ /\ Usable(u, r)
            /\ record[u][r].kind = "snapshot"
            /\ state' = [state EXCEPT ![c] = record[u][r].obj]
            /\ pc' = [pc EXCEPT ![c] = "apply"]
            /\ UNCHANGED <<uid, newObject, ts, target, currentRevision, patchChain>>
      /\ UNCHANGED <<storeVars, cache>>

(* A plausible bug: the patches are applied in the order they were collected. *)
RestoreAppliesNewestFirst(c) ==
  LET u == uid[c]
      r == Head(patchChain[c])
  IN  /\ pc[c] = "apply"
      /\ patchChain[c] # <<>>
      /\ state' = [state EXCEPT ![c] = ApplyTo(state[c], record[u][r].patch)]
      /\ currentRevision' = [currentRevision EXCEPT ![c] = r]
      /\ patchChain' = [patchChain EXCEPT ![c] = Tail(patchChain[c])]
      /\ UNCHANGED <<storeVars, cache, callVars, target>>

(* A plausible bug: the loop's index is not moved. *)
RestoreAppliesForever(c) ==
  /\ pc[c] = "apply"
  /\ patchChain[c] # <<>>
  /\ state' = [state EXCEPT ![c] =
       ApplyTo(state[c], record[uid[c]][patchChain[c][Len(patchChain[c])]].patch)]
  /\ UNCHANGED <<storeVars, cache, callVars, target, currentRevision, patchChain>>

(* One round of Restore's second loop, from the end of the chain, where the  *)
(* oldest patch is.                                                          *)
RestoreApply(c) ==
  LET u == uid[c]
      n == Len(patchChain[c])
      r == patchChain[c][n]
  IN  /\ pc[c] = "apply"
      /\ n > 0
      /\ state' = [state EXCEPT ![c] = ApplyTo(state[c], record[u][r].patch)]
      /\ currentRevision' = [currentRevision EXCEPT ![c] = r]
      /\ patchChain' = [patchChain EXCEPT ![c] = SubSeq(patchChain[c], 1, n - 1)]
      /\ UNCHANGED <<storeVars, cache, callVars, target>>

(* Restore returns the state: to its caller, or to Commit, which caches it.  *)
RestoreReturns(c) ==
  /\ pc[c] = "apply"
  /\ patchChain[c] = <<>>
  /\ \/ /\ newObject[c] = None
        /\ Return(c)
        /\ cache' = cache
     \/ /\ newObject[c] # None
        /\ LET entry == [obj |-> state[c], rev |-> target[c]]
           IN  /\ ts' = [ts EXCEPT ![c] = entry]
               /\ cache' = CacheSet(uid[c], entry)
        /\ pc' = [pc EXCEPT ![c] = "write"]
        /\ state' = [state EXCEPT ![c] = None]
        /\ UNCHANGED <<uid, newObject, target, currentRevision, patchChain>>
  /\ UNCHANGED storeVars

-----------------------------------------------------------------------------
(* The first revision of an object. *)
WriteFirst(c) ==
  /\ pc[c] = "first"
  /\ StoreRevision(uid[c], NewSnapshot(newObject[c], 0), newObject[c])
  /\ cache' = CacheSet(uid[c], [obj |-> newObject[c], rev |-> latest[uid[c]]])
  /\ Return(c)

(* Two versions carry the same resourceVersion. *)
SameVersion(a, b) == ResourceVersion(a) # None /\ ResourceVersion(a) = ResourceVersion(b)

(* A plausible bug: the check is skipped. *)
NeverDuplicate(t, o) == FALSE

(* The duplicate check of Commit: the hot state against the new version. *)
IsDuplicate(t, o) == SameVersion(t.obj, o)

(* Commit returns DuplicateResourceVersionError. *)
RefuseDuplicate(c) ==
  /\ pc[c] = "write"
  /\ IsDuplicate(ts[c], newObject[c])
  /\ Return(c)
  /\ UNCHANGED <<storeVars, cache>>

(* A plausible bug: the remainder is compared with the period itself. *)
NeverEndOfPeriod(rev) == rev % snapshotEvery = snapshotEvery

(* patchesSince == snapshotEvery-1 *)
EndOfPeriod(rev) == rev % snapshotEvery = snapshotEvery - 1

(* A plausible bug: newSnapshot(newObject, 0), as for a first revision. *)
SnapshotForgetsPrevious(c) ==
  /\ pc[c] = "write"
  /\ ~IsDuplicate(ts[c], newObject[c])
  /\ EndOfPeriod(ts[c].rev)
  /\ StoreRevision(uid[c], NewSnapshot(newObject[c], 0), newObject[c])
  /\ cache' = UpdateEntry(uid[c], [obj |-> newObject[c], rev |-> latest[uid[c]]])
  /\ Return(c)

(* Commit writes a snapshot. *)
WriteSnapshot(c) ==
  /\ pc[c] = "write"
  /\ ~IsDuplicate(ts[c], newObject[c])
  /\ EndOfPeriod(ts[c].rev)
  /\ StoreRevision(uid[c], NewSnapshot(newObject[c], ts[c].rev), newObject[c])
  /\ cache' = UpdateEntry(uid[c], [obj |-> newObject[c], rev |-> latest[uid[c]]])
  /\ Return(c)

(* A plausible bug: the patch is the new version, not what changed, so that  *)
(* what the new version no longer has stays.                                 *)
PatchHoldsTheObject(c) ==
  /\ pc[c] = "write"
  /\ ~IsDuplicate(ts[c], newObject[c])
  /\ ~EndOfPeriod(ts[c].rev)
  /\ StoreRevision(uid[c], NewPatch(ts[c].rev, newObject[c]), newObject[c])
  /\ cache' = UpdateEntry(uid[c], [obj |-> newObject[c], rev |-> latest[uid[c]]])
  /\ Return(c)

(* Commit writes the change-set and applies it to the hot state. *)
WritePatch(c) ==
  LET chg == DiffOf(ts[c].obj, newObject[c])
  IN  /\ pc[c] = "write"
      /\ ~IsDuplicate(ts[c], newObject[c])
      /\ ~EndOfPeriod(ts[c].rev)
      /\ StoreRevision(uid[c], NewPatch(ts[c].rev, chg), newObject[c])
      /\ cache' = UpdateEntry(uid[c], [obj |-> ApplyTo(ts[c].obj, chg), rev |-> latest[uid[c]]])
      /\ Return(c)

(* A plausible bug: the hot state is moved on before the error is looked at. *)
FailedWriteMovesTheHotState(c) ==
  /\ pc[c] \in {"first", "write"}
  /\ pc[c] = "write" => ~IsDuplicate(ts[c], newObject[c])
  /\ nextRevisionCounter' = [nextRevisionCounter EXCEPT ![uid[c]] = latest[uid[c]] + 1]
  /\ cache' = UpdateEntry(uid[c], [obj |-> newObject[c], rev |-> latest[uid[c]]])
  /\ Return(c)
  /\ UNCHANGED fileVars

(* SetSnapshot or SetPatch fails after the revision was claimed: the counter *)
(* in memory keeps the claim, the hot state is as before.  (A failure before *)
(* that, or of a read, only makes the call return: Abort.)                   *)
FailWrite(c) ==
  /\ pc[c] \in {"first", "write"}
  /\ pc[c] = "write" => ~IsDuplicate(ts[c], newObject[c])
  /\ nextRevisionCounter' = [nextRevisionCounter EXCEPT ![uid[c]] = latest[uid[c]] + 1]
  /\ Return(c)
  /\ UNCHANGED <<fileVars, cache>>

(* A transaction of the store cannot be opened or a record not be decoded.   *)
Abort(c) ==
  /\ pc[c] \in {"cold", "get", "first", "write"}
  /\ pc[c] = "write" => ~IsDuplicate(ts[c], newObject[c])
  /\ Return(c)
  /\ UNCHANGED <<storeVars, cache>>

-----------------------------------------------------------------------------
(* evictCold drops an entry that has not been read for its TTL. *)
Evict(u) ==
  /\ cache[u] # None
  /\ cache' = [cache EXCEPT ![u] = None]
  /\ UNCHANGED <<storeVars, callVars, walkVars>>

(* The process ends, in an orderly way or not, and a new one opens the file, *)
(* with a snapshot interval of its own: a suffix of each log may be lost,    *)
(* what was in memory is.  (A session started without a cache is one whose   *)
(* janitor evicts each entry at once.)                                       *)
Restart ==
  /\ \E cut \in Store!Cuts : Store!Truncate(cut) /\ Contents!Truncate(cut) /\ Periods!Truncate(cut)
  /\ snapshotEvery' \in Intervals
  /\ nextRevisionCounter' = [u \in Uids |-> None]
  /\ cache' = [u \in Uids |-> None]
  /\ pc' = [c \in Clients |-> "idle"]
  /\ uid' = [c \in Clients |-> None]
  /\ newObject' = [c \in Clients |-> None]
  /\ ts' = [c \in Clients |-> None]
  /\ target' = [c \in Clients |-> 0]
  /\ currentRevision' = [c \in Clients |-> 0]
  /\ patchChain' = [c \in Clients |-> <<>>]
  /\ state' = [c \in Clients |-> None]

CallStep(c) ==
  \/ ColdStart(c)
  \/ RestoreGet(c) \/ RestoreApply(c) \/ RestoreReturns(c)
  \/ WriteFirst(c) \/ RefuseDuplicate(c) \/ WriteSnapshot(c) \/ WritePatch(c)
  \/ FailWrite(c) \/ Abort(c)

Next ==
  \/ \E c \in Clients, u \in Uids, o \in Objects : BeginCommit(c, u, o)
  \/ \E c \in Clients, u \in Uids : \E r \in 0..latest[u] : CallRestore(c, u, r)
  \/ \E c \in Clients : CallStep(c)
  \/ \E u \in Uids : Evict(u)
  \/ Restart

Spec == Init /\ [][Next]_vars

(* A goroutine inside a call goes on: nothing in it waits for another one.   *)
Fairness == \A c \in Clients : WF_vars(CallStep(c))

FairSpec == Spec /\ Fairness

-----------------------------------------------------------------------------
(* The types of what the store and the calls hold. *)
DataTypeOK ==
  /\ latest \in [Uids -> 0..MaxRevisions]
  /\ record = [u \in Uids |-> record[u]]
  /\ content = [u \in Uids |-> content[u]]
  /\ \A u \in Uids :
       /\ record[u] \in [0..(latest[u] - 1) -> Records]
       /\ content[u] \in [0..(latest[u] - 1) -> Objects]
  /\ nextRevisionCounter \in [Uids -> Nat \union {None}]
  /\ cache \in [Uids -> TrackerStates \union {None}]
  /\ pc \in [Clients -> Phases]
  /\ uid \in [Clients -> Uids \union {None}]
  /\ newObject \in [Clients -> Objects \union {None}]
  /\ ts \in [Clients -> TrackerStates \union {None}]
  /\ target \in [Clients -> Nat]
  /\ currentRevision \in [Clients -> Nat]
  /\ patchChain \in [Clients -> Seq(Nat)]
  /\ state \in [Clients -> Objects \union {None}]

IntervalTypeOK ==
  /\ snapshotEvery \in Intervals
  /\ recordedEvery = [u \in Uids |-> recordedEvery[u]]
  /\ \A u \in Uids : recordedEvery[u] \in [0..(latest[u] - 1) -> Intervals]

(* The type of every variable; the logs of an object have its length. *)
TypeOK == DataTypeOK /\ IntervalTypeOK

(* The last committed state of u, as Commit keeps it. *)
LastState(u) == [obj |-> content[u][latest[u] - 1], rev |-> latest[u] - 1]

StartsFromLast(c) ==
  pc[c] = "write" => latest[uid[c]] > 0 /\ ts[c] = LastState(uid[c])

(* What a commit is computed from, whether it was found in the cache or      *)
(* rebuilt from the store, is the last committed version and its revision;   *)
(* so is every entry that is left in the cache, after failed writes,         *)
(* evictions in the middle of a commit and restarts too.                     *)
HotStateIsLastRevision ==
  /\ \A u \in Uids : cache[u] # None => latest[u] > 0 /\ cache[u] = LastState(u)
  /\ \A c \in Clients : StartsFromLast(c)

(* Every record in the store leads back to the version that was committed    *)
(* with it: a snapshot holds it, a patch makes it out of the version of an   *)
(* earlier revision.                                                         *)
EveryRecordIsSound ==
  \A u \in Uids : \A r \in Store!Revisions(u) :
    LET x == record[u][r]
    IN  \/ /\ x.kind = "snapshot"
           /\ x.obj = content[u][r]
        \/ /\ x.kind = "patch"
           /\ x.previous < r
           /\ ApplyTo(content[u][x.previous], x.patch) = content[u][r]

(* A Restore that gets to its end returns the version committed as the       *)
(* revision asked for, though commits for the same object go on meanwhile.   *)
RestoredIsCommitted ==
  \A c \in Clients :
    pc[c] = "apply" /\ patchChain[c] = <<>> =>
      /\ target[c] \in Store!Revisions(uid[c])
      /\ state[c] = content[uid[c]][target[c]]

(* PreviousID is the revision just before: who reads the revisions of an     *)
(* object in order (the history loader, the timeline) may apply each patch   *)
(* on top of the one before.                                                 *)
PreviousIsPredecessor ==
  \A u \in Uids : \A r \in Store!Revisions(u) :
    r > 0 => record[u][r].previous = r - 1

(* The same resourceVersion is never recorded twice in a row, through cache  *)
(* misses, evictions and restarts, when a watch delivers an object again.    *)
NoResourceVersionTwice ==
  \A u \in Uids : \A r \in Store!Revisions(u) :
    r > 0 => ~SameVersion(content[u][r - 1], content[u][r])

(* The patches Restore collects are fewer than every common multiple of the  *)
(* intervals they were written under: fewer than the interval if that was    *)
(* one, over restarts and lost suffixes too, and however long the history    *)
(* grows.  Sessions of different intervals that take turns on a file can     *)
(* exceed the largest of them: under 2 and 3, five patches in a row.         *)
RestoreIsBounded ==
  \A c \in Clients : \A n \in 1..Len(patchChain[c]) :
    \E r \in Range(patchChain[c]) : n % recordedEvery[uid[c]][r] # 0

(* The cache never holds more than maxTrackedEntries objects, whatever       *)
(* commits for different objects find it full, evicted or filled again.      *)
CacheIsBounded == Cardinality(Cached) <= CacheCapacity

(* The object a record stands for, by the records alone. *)
Rebuilt(u) ==
  LET obj[r \in Store!Revisions(u)] ==
        IF record[u][r].kind = "snapshot"
        THEN record[u][r].obj
        ELSE ApplyTo(obj[record[u][r].previous], record[u][r].patch)
  IN  obj

(* The tracker implements an append-only log of full objects: what the       *)
(* records rebuild for a revision never changes after its commit, and every  *)
(* commit adds one revision, made of the object it was given.                *)
History == INSTANCE RevisionLog
             WITH length <- latest, record <- [u \in Uids |-> Rebuilt(u)], Records <- Objects

ImplementsHistory == History!Spec

(* Every call of Commit and Restore returns. *)
CallsReturn == \A c \in Clients : pc[c] # "idle" ~> pc[c] = "idle"

-----------------------------------------------------------------------------
(* What the proofs of TrackerProofs show every step to preserve, in parts.   *)

(* At most one client commits to an object at a time. *)
OneCommitPerObject ==
  \A c, d \in Clients :
    newObject[c] # None /\ newObject[d] # None /\ uid[c] = uid[d] => c = d

(* The counter in memory, when there is one, is the store's or one ahead. *)
CounterIsClose ==
  \A u \in Uids :
    nextRevisionCounter[u] # None =>
      /\ nextRevisionCounter[u] \in {latest[u], latest[u] + 1}
      /\ nextRevisionCounter[u] > 0

(* The chain Restore has collected leads from the revision asked for down to *)
(* where the walk is, patch by patch; on the way back the state is what was  *)
(* committed there.                                                          *)
WalkIsOnChain(c) ==
  LET u     == uid[c]
      chain == patchChain[c]
      r     == currentRevision[c]
  IN  /\ \A k \in 1..Len(chain) :
           /\ chain[k] \in Store!Revisions(u)
           /\ record[u][chain[k]].kind = "patch"
           /\ record[u][chain[k]].previous = IF k = Len(chain) THEN r ELSE chain[k + 1]
      /\ target[c] = IF chain = <<>> THEN r ELSE chain[1]
      /\ newObject[c] # None => latest[u] \in {target[c], target[c] + 1}
      /\ pc[c] = "apply" => r \in Store!Revisions(u) /\ state[c] = content[u][r]

(* What a client knows in each phase. *)
CallIsConsistent(c) ==
  /\ pc[c] = "idle" <=> uid[c] = None
  /\ pc[c] = "idle" => newObject[c] = None
  /\ pc[c] \in {"cold", "first", "write"} => newObject[c] # None
  /\ newObject[c] # None => latest[uid[c]] < MaxRevisions
  /\ pc[c] = "first" => latest[uid[c]] = 0
  /\ StartsFromLast(c)
  /\ pc[c] \in {"get", "apply"} => WalkIsOnChain(c)
  /\ pc[c] \notin {"get", "apply"} => patchChain[c] = <<>>

LogInv == EveryRecordIsSound /\ PreviousIsPredecessor /\ NoResourceVersionTwice

TrackerInv ==
  /\ DataTypeOK
  /\ LogInv
  /\ HotStateIsLastRevision
  /\ CounterIsClose
  /\ OneCommitPerObject
  /\ \A c \in Clients : CallIsConsistent(c)

(* The number of a patch is no multiple of the interval it was written under. *)
PatchesAreWithinPeriods ==
  \A u \in Uids : \A r \in Store!Revisions(u) :
    record[u][r].kind = "patch" => r % recordedEvery[u][r] # 0

(* The chain Restore has collected leads down to where the walk is without a *)
(* gap.                                                                      *)
ChainIsConsecutive(c) ==
  \A k \in 1..Len(patchChain[c]) :
    patchChain[c][k] = currentRevision[c] + Len(patchChain[c]) + 1 - k

PeriodInv == IntervalTypeOK /\ PatchesAreWithinPeriods /\ \A c \in Clients : ChainIsConsecutive(c)
=============================================================================
