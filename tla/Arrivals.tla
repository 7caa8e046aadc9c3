------------------------------ MODULE Arrivals ------------------------------
(***************************************************************************)
(* The revisions of a resource as they arrive, live ones and those the     *)
(* history loader brings, and what SortTimelineNewestFirst of              *)
(* internal/resource makes of them.                                        *)
(***************************************************************************)
EXTENDS Timeline

CONSTANTS
  Arriving,               \* the revisions that can arrive
  MaxRevisions,           \* bound: revisions that arrive
  WindowSize              \* DefaultLoopConfig's WindowSize

ASSUME ArrivingAssumption ==
  /\ \A r \in Arriving : /\ r = [id |-> r.id, rv |-> r.rv, time |-> r.time, obj |-> r.obj]
                         /\ r.rv \in Nat /\ r.time \in Int
  /\ MaxRevisions \in Nat /\ WindowSize \in Int

VARIABLE revs             \* the revisions that have arrived, numbered

ArrivalsInit == revs = <<>>

(* A revision of the resource arrives. *)
NextRevision ==
  /\ Len(revs) < MaxRevisions
  /\ \E r \in Arriving : revs' = Append(revs, [r EXCEPT !.id = Len(revs)])

ArrivalsSpec == ArrivalsInit /\ [][NextRevision]_revs

-----------------------------------------------------------------------------
(* Entry e is listed before f: by resourceVersion, by time between those of  *)
(* one version, by arrival between those of one time.                         *)
ListedBefore(e, f) ==
  LET newer == e.rev
      older == f.rev
  IN  \/ newer.rv > older.rv
      \/ newer.rv = older.rv /\ newer.time > older.time
      \/ newer.rv = older.rv /\ newer.time = older.time /\ newer.id < older.id

(* The timeline of revisions that all carry a resourceVersion is in its      *)
(* order, whatever clock the revisions were recorded by; of those that carry *)
(* none it is in the order of time; revisions that compare equal stay in the *)
(* order they arrived in, and sorting a sorted timeline again leaves it as   *)
(* it is (internal/resource).                                                *)
TimelineIsNewestFirst ==
  LET sorted   == NewestFirst([i \in DOMAIN revs |-> [res |-> None, rev |-> revs[i]]])
      numbered == {r \in Range(revs) : r.rv # 0}
  IN  numbered = {} \/ numbered = Range(revs) =>
        /\ {sorted[i].rev : i \in DOMAIN sorted} = Range(revs) /\ Len(sorted) = Len(revs)
        /\ \A i, j \in DOMAIN sorted : i < j => ListedBefore(sorted[i], sorted[j])
        /\ NewestFirst(sorted) = sorted

(* What a loop report says of the revisions it labels: two of them carry one *)
(* label exactly when they are the same state, each labelled state did come  *)
(* back, and the cycles and the period are those of the returns.             *)
ReportIsSound(report) ==
  LET labelled   == {i \in DOMAIN revs : revs[i].id \in DOMAIN report.labels}
      label(i)   == report.labels[revs[i].id]
      starts     == {i \in labelled : ~ \E j \in labelled : Precedes(j, i, labelled) /\ revs[j].obj = revs[i].obj}
      returns(i) == {j \in labelled : j > i /\ label(j) = label(i)}
      gaps       == {revs[Min(returns(i))].time - revs[i].time : i \in {k \in labelled : returns(k) # {}}}
  IN  /\ \A i, j \in labelled : label(i) = label(j) <=> revs[i].obj = revs[j].obj
      /\ \A i \in labelled : returns(i) # {} \/ \E j \in labelled : j < i /\ label(j) = label(i)
      /\ report.states = 2 => report.cycles = Cardinality({i \in starts : label(i) = 1}) - 1
      /\ gaps # {} /\ Min(gaps) <= report.period /\ report.period <= Max(gaps)

(* What the loop report says of the revisions: it is given for a resource    *)
(* the list marks as looping, two revisions carry the same label exactly     *)
(* when they are the same state, each labelled state did come back, a loop   *)
(* between two states has as many cycles as it returned to the first ("for   *)
(* A->B->A->B->A, there are 2 full cycles", analysis.go:126), and its mean   *)
(* period lies between the shortest and the longest time it took to return.  *)
LoopReportIsSound ==
  \A report \in {AnalyzeLoop(revs, WindowSize)} :
    report.isLoop => DetectLoop(revs, WindowSize) /\ ReportIsSound(report)

(* What UserInterfaceProofs shows every step to preserve: the revisions are   *)
(* numbered in the order they arrived.                                        *)
ArrivalsAreNumbered ==
  /\ revs \in Seq([id : Nat, rv : Nat, time : Int, obj : {r.obj : r \in Arriving}])
  /\ \A i \in DOMAIN revs : revs[i].id = i - 1
=============================================================================
