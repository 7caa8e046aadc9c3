----------------------------- MODULE LiveStore -----------------------------
(***************************************************************************)
(* internal/adapter: the store in memory behind the terminal UI, and the   *)
(* handler that turns a recorded revision into one the UI can show.         *)
(*                                                                         *)
(* Every method runs under the store's lock, so a method is an operator     *)
(* from the store to the store.  A *Data is never changed once it can be    *)
(* read (copy-on-write), so it is its value:                               *)
(*   Data    [res, revs]: a resource and its revisions, oldest first;       *)
(*   store   [data, timeline, groups, watched, unwatched, total], data a    *)
(*           function on the UIDs that are stored, timeline newest first.   *)
(***************************************************************************)
EXTENDS Timeline

EmptyStore ==                                                \* NewLiveStore
  [data |-> << >>, timeline |-> <<>>, groups |-> <<>>,
   watched |-> {}, unwatched |-> {}, total |-> 0]

Stored(s, uid) == uid \in DOMAIN s.data
GetResource(s, uid) == IF Stored(s, uid) THEN s.data[uid] ELSE None

(* buildRevision: a snapshot without predecessor is an addition; without a   *)
(* record the revision has neither time nor event.                           *)
BuildRevision(id, object, record) ==
  [id |-> id, obj |-> object.obj, rv |-> object.rv,
   time  |-> IF record.kind = "none" THEN 0 ELSE record.time,
   event |-> CASE record.kind = "none"     -> "none"
               [] record.kind = "snapshot" /\ record.prev = 0 -> "added"
               [] OTHER                    -> "modified"]

(* The map with this value of the key. *)
Put(map, key, value) == [k \in DOMAIN map \union {key} |-> IF k = key THEN value ELSE map[k]]

(* appendRevision, and the entry IngestRevision and AddRevision put in front. *)
WithRevision(s, d, rev) ==
  [s EXCEPT !.data     = Put(@, d.res.uid, [d EXCEPT !.revs = Append(@, rev)]),
            !.timeline = <<[res |-> d.res, rev |-> rev]>> \o @,
            !.total    = @ + 1]

(* IngestRevision: a resource seen for the first time is created and its     *)
(* kind is watched, whether or not the user removed that kind.                *)
IngestRevision(s, res, rev) ==
  IF Stored(s, res.uid) THEN WithRevision(s, s.data[res.uid], rev)
  ELSE WithRevision([s EXCEPT !.watched = @ \union {res.kind}], [res |-> res, revs |-> <<>>], rev)

AddRevision(s, uid, rev) == IF Stored(s, uid) THEN WithRevision(s, s.data[uid], rev) ELSE s

(* A plausible bug: the entries on the timeline keep the old flag. *)
ToggleStarOfData(s, uid) ==
  IF ~Stored(s, uid) THEN s ELSE [s EXCEPT !.data[uid].res.starred = ~@]

(* ToggleStar: the resource and every entry of it on the timeline. *)
ToggleStar(s, uid) ==
  IF ~Stored(s, uid) THEN s
  ELSE LET on == ~s.data[uid].res.starred
       IN  [s EXCEPT !.data[uid].res.starred = on,
                     !.timeline = [i \in DOMAIN @ |->
                        IF @[i].res.uid = uid THEN [@[i] EXCEPT !.res.starred = on] ELSE @[i]]]

AddWatchKind(s, kind) ==
  [s EXCEPT !.watched = @ \union {kind}, !.unwatched = @ \ {kind}]

(* Where the revisions of these resources are, and how many they are. *)
Places(s, uids) == UNION {{u} \X DOMAIN s.data[u].revs : u \in uids}
RevisionCount(s, uids) == Cardinality(Places(s, uids))

OfKind(s, kind) == {u \in DOMAIN s.data : s.data[u].res.kind = kind}

(* The elements that are kept, in their order. *)
Filtered(s, Keep(_)) ==
  LET at      == {i \in DOMAIN s : Keep(s[i])}
      rank(i) == Cardinality({j \in at : j <= i})
  IN  [k \in 1..Cardinality(at) |-> s[CHOOSE i \in at : rank(i) = k]]

(* RemoveWatchKind: its resources, their revisions and their entries go.     *)
(* The kind does not become an unwatched one.                                 *)
RemoveWatchKind(s, kind) ==
  [s EXCEPT !.watched  = @ \ {kind},
            !.total    = @ - RevisionCount(s, OfKind(s, kind)),
            !.data     = [u \in DOMAIN @ \ OfKind(s, kind) |-> @[u]],
            !.timeline = Filtered(@, LAMBDA e : e.res.kind # kind)]

SetUnwatchedKinds(s, kinds) == [s EXCEPT !.unwatched = kinds]

(* The orders in which a map iteration and SortByKindName can list what is   *)
(* stored: resources of one kind and name, in two namespaces, in either.     *)
AllResources(s) ==
  {SortedBy(all, ByKindName) : all \in {[i \in 1..Cardinality(DOMAIN s.data) |-> s.data[f[i]]] :
                                          f \in SetToSeqs(DOMAIN s.data)}}

RebuildKindGroups(s, all) == [s EXCEPT !.groups = BuildKindGroups(all)]

SortTimeline(s) == [s EXCEPT !.timeline = NewestFirst(@)]

(* FilterTimeline with the empty expression, the only one the UI asks for. *)
FilterTimeline(s, starredOnly) ==
  NewestFirst(SelectSeq(s.timeline,
    LAMBDA e : starredOnly => Stored(s, e.res.uid) /\ s.data[e.res.uid].res.starred))

StarredResources(s) == {u \in DOMAIN s.data : s.data[u].res.starred}

(* What the status bar is told after every change. *)
Counts(s) == <<Cardinality(DOMAIN s.data), s.total, Cardinality(StarredResources(s))>>

-----------------------------------------------------------------------------
(* The timeline is the stored revisions, each once and with the resource as  *)
(* it is stored, and the counter is their number.                             *)
StoreIsConsistent(s) ==
  /\ s.total = RevisionCount(s, DOMAIN s.data)
  /\ Len(s.timeline) = s.total
  /\ \A e \in Range(s.timeline) :
       Stored(s, e.res.uid) /\ e.res = s.data[e.res.uid].res /\ e.rev \in Range(s.data[e.res.uid].revs)
  /\ \A u \in DOMAIN s.data : \A r \in Range(s.data[u].revs) :
       [res |-> s.data[u].res, rev |-> r] \in Range(s.timeline)

(* The same, place by place: an entry stands for one revision of a resource   *)
(* that is stored, and every revision stored has one entry.  Equal revisions   *)
(* do not make the entries fewer, which StoreIsConsistent alone would allow.   *)
IsStore(s) ==
  /\ s = [data |-> s.data, timeline |-> s.timeline, groups |-> s.groups,
          watched |-> s.watched, unwatched |-> s.unwatched, total |-> s.total]
  /\ s.timeline \in Seq(Range(s.timeline)) /\ s.total = Len(s.timeline)
  /\ \A u \in DOMAIN s.data : /\ s.data[u] = [res |-> s.data[u].res, revs |-> s.data[u].revs]
                              /\ s.data[u].res.uid = u /\ "uid" \in DOMAIN s.data[u].res
                              /\ s.data[u].revs \in Seq(Range(s.data[u].revs))

ListedAt(s, place) ==
  \A i \in DOMAIN s.timeline :
    s.timeline[i] = [res |-> s.data[place[i][1]].res, rev |-> s.data[place[i][1]].revs[place[i][2]]]

StoreIsListed(s) ==
  IsStore(s) /\ \E place \in Bijection(DOMAIN s.timeline, Places(s, DOMAIN s.data)) : ListedAt(s, place)
=============================================================================
