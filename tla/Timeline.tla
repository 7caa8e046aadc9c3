------------------------------ MODULE Timeline ------------------------------
(***************************************************************************)
(* internal/resource: the order of the timeline, its bursts, the groups of *)
(* the resource tree, and the analysis of one resource's revisions.        *)
(*                                                                         *)
(* A revision is a record [id, rv, time, obj, ..]: rv is the Kubernetes     *)
(* resourceVersion, 0 when there is none; an object is a model value or a   *)
(* record, compared as a whole.  A timeline entry is [res, rev], a resource *)
(* [uid, kind, name, starred].  Kinds and names are numbers, in             *)
(* alphabetical order; None is a nil map.                                   *)
(***************************************************************************)
EXTENDS Integers, SequencesExt

CONSTANTS
  None,                 \* a nil object or part of one
  PreferredKinds        \* kindOrder: the kinds listed first, in that order

(* A plausible bug: the time decides even when both carry a version. *)
LaterThan(a, b) == a.time > b.time

(* CompareRevisionsNewestFirst(a, b) < 0 *)
NewerThan(a, b) ==
  IF a.rv # 0 /\ b.rv # 0 /\ a.rv # b.rv THEN a.rv > b.rv ELSE a.time > b.time

EntryNewer(e, f) == NewerThan(e.rev, f.rev)

(* sort.SliceStable and slices.SortStableFunc: up to twenty elements are     *)
(* sorted by insertion, each moving left past the elements it is less than   *)
(* as long as it meets no other (the order need not be transitive).          *)
SortedBy(s, Less(_, _)) ==
  LET Insert(sorted, e) ==
        LET stays == {i \in DOMAIN sorted : ~Less(e, sorted[i])}
        IN  InsertAt(sorted, IF stays = {} THEN 1 ELSE Max(stays) + 1, e)
      Sorted[n \in 0..Len(s)] == IF n = 0 THEN <<>> ELSE Insert(Sorted[n - 1], s[n])
  IN  Sorted[Len(s)]

(* SortTimelineNewestFirst *)
NewestFirst(timeline) == SortedBy(timeline, EntryNewer)

(* GroupTimelineByBurst: neighbours at most a window apart, either way, are  *)
(* one burst; a burst of one is shown as the entry itself.                   *)
GroupByBurst(entries, window) ==
  LET Join(groups, e) ==
        IF groups # <<>> /\ LET gap == Last(Last(groups)).rev.time - e.rev.time
                            IN  -window <= gap /\ gap <= window
        THEN [groups EXCEPT ![Len(groups)] = Append(@, e)]
        ELSE Append(groups, <<e>>)
  IN  FoldLeft(Join, <<>>, entries)

(* SortByKindName, of which ties keep the order of the map's iteration.      *)
ByKindName(d, e) ==
  d.res.kind < e.res.kind \/ (d.res.kind = e.res.kind /\ d.res.name < e.res.name)

(* BuildKindGroups: the listed kinds in their order, the others after them   *)
(* by name, and the resources of a kind by name.                             *)
KindBefore(k, l) ==
  LET rank(x) == IF Contains(PreferredKinds, x) THEN CHOOSE i \in DOMAIN PreferredKinds : PreferredKinds[i] = x
                                                ELSE Len(PreferredKinds) + 1
  IN  rank(k) < rank(l) \/ (rank(k) = rank(l) /\ k < l)

BuildKindGroups(all) ==
  LET kinds == SetToSortSeq({d.res.kind : d \in Range(all)}, KindBefore)
      of(k) == SelectSeq(all, LAMBDA d : d.res.kind = k)
  IN  [i \in DOMAIN kinds |->
         [kind |-> kinds[i], expanded |-> TRUE,
          res  |-> SortedBy(of(kinds[i]), LAMBDA d, e : d.res.name < e.res.name)]]

(* NextWindowMode and WindowHalfDuration: the half-spans, 0 for all.         *)
WindowHalf == <<0, 15, 30, 60, 300>>
NextWindowMode(mode) == IF mode = 4 THEN 0 ELSE mode + 1

-----------------------------------------------------------------------------
(* The analysis of an object's changes.  An object is a record of the parts *)
(* TagRevision looks at, each None when it is absent: spec, itself a record *)
(* [images, replicas, rest], status, labels, annotations and data; meta is  *)
(* FALSE when there is no metadata.  DeepEqual is equality of values        *)
(* (FastEqualityIsEquality of DiffChain is about diffmap's part of it).     *)

(* hasImageChange over [container name -> image], hasReplicasChange *)
ImageChanged(p, q)    == p.images # q.images
ReplicasChanged(p, q) == p.replicas # q.replicas

(* TagRevision *)
TagRevision(prev, curr) ==
  LET bothSpecs == prev.spec # None /\ curr.spec # None
      image     == bothSpecs /\ ImageChanged(prev.spec, curr.spec)
      replicas  == bothSpecs /\ ReplicasChanged(prev.spec, curr.spec)
      bothMeta  == prev.meta /\ curr.meta
      found     == {t \in {"image", "replicas", "spec", "status", "labels", "config"} :
                      CASE t = "image"    -> image
                        [] t = "replicas" -> replicas
                        [] t = "spec"     -> bothSpecs /\ ~image /\ ~replicas /\ prev.spec # curr.spec
                        [] t = "status"   -> prev.status # curr.status
                        [] t = "labels"   -> bothMeta /\ prev.labels # curr.labels
                        [] t = "config"   -> \/ bothMeta /\ prev.annotations # curr.annotations
                                             \/ prev.data # curr.data}
  IN  IF prev = None \/ curr = None \/ found = {} THEN {"unknown"} ELSE found

(* Where the last revisions are, at most size of them, that carry an object. *)
LoopWindow(revs, size) == {i \in DOMAIN revs : i > Len(revs) - size /\ revs[i].obj # None}

(* stateOccurrence: where the state of revision i is in the window. *)
Occurrences(revs, window, i) == {j \in window : revs[j].obj = revs[i].obj}

Looping(revs, window) == {i \in window : Cardinality(Occurrences(revs, window, i)) >= 2}

(* DetectLoop: some state appears twice in the window. *)
DetectLoop(revs, size) == Len(revs) >= 3 /\ Looping(revs, LoopWindow(revs, size)) # {}

NoLoop == [isLoop |-> FALSE, states |-> 0, cycles |-> 0, labels |-> << >>, sample |-> <<>>]

(* Position j of a set is the one before position i. *)
Precedes(j, i, places) == j < i /\ ~ \E k \in places : j < k /\ k < i

(* A plausible bug: a label that stays counts too. *)
EachIsATurn(labels) == {i \in DOMAIN labels : \E j \in DOMAIN labels : j < i}

(* Where the label is another than the one before. *)
Turns(labels) == {i \in DOMAIN labels : \E j \in DOMAIN labels : Precedes(j, i, DOMAIN labels) /\ labels[j] # labels[i]}

(* The pattern: of the last six labels, neighbours that are equal count once. *)
PatternSample(labels) ==
  LET last  == {i \in DOMAIN labels : Cardinality({j \in DOMAIN labels : j > i}) < 6}
      shown == {Min(last)} \union Turns([i \in last |-> labels[i]])
      at(n) == CHOOSE i \in shown : Cardinality({j \in shown : j <= i}) = n
  IN  [n \in 1..Cardinality(shown) |-> labels[at(n)]]

(* AnalyzeLoop: two states that appear at least twice each make a loop. A    *)
(* state's label is its place among those states in the order they first     *)
(* appear; cycles are pairs of changes of the label.  The average period is  *)
(* the mean distance of the state that appears most often, the first on a    *)
(* tie; its time unit is the model's.                                        *)
AnalyzeLoop(revs, size) ==
  LET window   == LoopWindow(revs, size)
      at(i)    == Occurrences(revs, window, i)
      firsts   == {i \in Looping(revs, window) : i = Min(at(i))}
      labels   == [i \in Looping(revs, window) |-> Cardinality({j \in firsts : j <= Min(at(i))})]
      most     == CHOOSE i \in firsts :
                    \A j \in firsts \ {i} : \/ Cardinality(at(i)) > Cardinality(at(j))
                                            \/ Cardinality(at(i)) = Cardinality(at(j)) /\ i < j
      first    == revs[Min(at(most))].time
  IN  IF Len(revs) < 4 \/ Cardinality(firsts) < 2 THEN NoLoop
      ELSE [isLoop |-> TRUE,
            states |-> Cardinality(firsts),
            cycles |-> Cardinality(Turns(labels)) \div 2,
            period |-> (revs[Max(at(most))].time - first) \div (Cardinality(at(most)) - 1),
            first  |-> first,
            labels |-> [id \in {revs[i].id : i \in DOMAIN labels} |->
                          labels[CHOOSE i \in DOMAIN labels : revs[i].id = id]],
            sample |-> PatternSample(labels)]

(* Analyze *)
Analyze(revs, size) ==
  [tags |-> [i \in DOMAIN revs |-> IF i = 1 THEN {"unknown"} ELSE TagRevision(revs[i-1].obj, revs[i].obj)],
   loop |-> AnalyzeLoop(revs, size)]

(* loopLabel: the digits of a column name, in base 26 without a zero. *)
LoopLabel[i \in Int] ==
  IF i < 0 THEN <<>> ELSE Append(LoopLabel[i \div 26 - 1], i % 26)
=============================================================================
