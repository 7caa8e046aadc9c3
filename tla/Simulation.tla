----------------------------- MODULE Simulation -----------------------------
(***************************************************************************)
(* internal/simulation/store.go: the store behind --simulate.  It is the    *)
(* record of LiveStore with nextID, the next revision's number, which is    *)
(* also the model's clock.  What it does differently: a kind is watched      *)
(* while a resource of it is stored, watching one invents its resources,     *)
(* and a *Data is changed where it is.                                       *)
(***************************************************************************)
EXTENDS LiveStore

CONSTANTS
  ClusterKinds,         \* clusterResourceTypes, all kinds there are
  Dummies               \* generateDummyResourcesForKind: a sequence of resources by kind

(* watchedKindsLocked and UnwatchedKinds, which are computed when asked for. *)
Rewatched(s) ==
  LET kinds == {s.data[u].res.kind : u \in DOMAIN s.data}
  IN  [s EXCEPT !.watched = kinds, !.unwatched = ClusterKinds \ kinds]

(* GenerateRevision: no resourceVersion; ADDED when it is the first. *)
GeneratedRevision(s, d) ==
  [id |-> s.nextID, rv |-> 0, time |-> s.nextID, obj |-> None,
   event |-> IF d.revs = <<>> THEN "added" ELSE "modified"]

SimAddRevision(s, uid) ==
  [AddRevision(s, uid, GeneratedRevision(s, s.data[uid])) EXCEPT !.nextID = @ + 1]

(* AddWatchKind: each invented resource replaces the one of its UID, and     *)
(* counts and is listed whether or not there was one.                         *)
SimAddWatchKind(s, kind) ==
  LET Invent(acc, res) ==
        LET rev == GeneratedRevision(acc, [revs |-> <<>>])
        IN  [acc EXCEPT !.data     = (res.uid :> [res |-> res, revs |-> <<rev>>]) @@ @,
                        !.timeline = Append(@, [res |-> res, rev |-> rev]),
                        !.total    = @ + 1,
                        !.nextID   = @ + 1]
  IN  Rewatched([FoldLeft(Invent, s, Dummies[kind]) EXCEPT
                   !.timeline = SortedBy(@, LAMBDA e, f : e.rev.time > f.rev.time)])

(* RemoveWatchKind: entries go by the UIDs that are removed. *)
SimRemoveWatchKind(s, kind) ==
  Rewatched([s EXCEPT !.total    = @ - RevisionCount(s, OfKind(s, kind)),
                      !.data     = [u \in DOMAIN @ \ OfKind(s, kind) |-> @[u]],
                      !.timeline = SelectSeq(@, LAMBDA e : e.res.uid \notin OfKind(s, kind))])

(* FilterTimeline: the timeline as it is, by the stars its entries carry. *)
SimFilterTimeline(s, starredOnly) == SelectSeq(s.timeline, LAMBDA e : starredOnly => e.res.starred)

(* ScheduleNextTick: one of the resources there are now, some seconds later; *)
(* without any there is no tick.                                             *)
NextTick(s, epoch) ==
  IF DOMAIN s.data = {} THEN <<>> ELSE <<[type |-> "simulationTick", arg |-> [uids |-> DOMAIN s.data, epoch |-> epoch]]>>

(* A *Data held elsewhere is the store's own: as long as it is what the store *)
(* had, it is what the store has now.  Revision numbers are never used twice, *)
(* so equal values are one *Data.                                             *)
SameData(d, old, new) ==
  IF /\ d # None /\ Stored(old, d.res.uid) /\ Stored(new, d.res.uid)
     /\ old.data[d.res.uid] = d /\ IsPrefix(d.revs, new.data[d.res.uid].revs)
  THEN new.data[d.res.uid] ELSE d
=============================================================================
