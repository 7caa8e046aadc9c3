----------------------------- MODULE MCTracker -----------------------------
(* Small instances of Tracker for TLC, over the change-sets of DiffMap.      *)
EXTENDS Tracker, TLC

D == INSTANCE DiffMap WITH MaxDepth <- 2

(* util.ExtractResourceVersion: metadata.resourceVersion, when both exist    *)
(* and have the types they should have.                                      *)
MCResourceVersion(o) ==
  IF /\ "metadata" \in DOMAIN o
     /\ D!IsMap(o["metadata"])
     /\ "resourceVersion" \in DOMAIN o["metadata"].map
     /\ o["metadata"].map["resourceVersion"].kind = "scalar"
  THEN o["metadata"].map["resourceVersion"].scalar
  ELSE None

Metadata(v) == D!MapValue([k \in {"resourceVersion"} |-> D!ScalarValue(v)])

(* Three versions of an object: a spec of one entry, of another, and none. *)
Spec1 == D!MapValue([k \in {"x"} |-> D!ScalarValue("s1")])
Spec2 == D!MapValue([k \in {"y"} |-> D!ScalarValue("s2")])

Version1 == [k \in {"metadata", "spec"} |-> IF k = "spec" THEN Spec1 ELSE Metadata("rv1")]
Version2 == [k \in {"metadata", "spec"} |-> IF k = "spec" THEN Spec2 ELSE Metadata("rv2")]
Version3 == [k \in {"metadata"} |-> Metadata("rv3")]

(* Change-sets and what they make of a version, computed once. *)
Versions == {Version1, Version2, Version3}
Table(S, Op(_)) == FoldSet(LAMBDA x, f : f @@ (x :> Op(x)), <<>>, S)
Diffs   == Table(Versions \X Versions, LAMBDA p : D!Diff(p[1], p[2]))
Patched == Table(Versions \X Range(Diffs), LAMBDA p : D!Apply(p[1], p[2]))

MCDiff(a, b) == IF <<a, b>> \in DOMAIN Diffs THEN Diffs[<<a, b>>] ELSE D!Diff(a, b)
MCApply(dst, chg) == IF <<dst, chg>> \in DOMAIN Patched THEN Patched[<<dst, chg>>] ELSE D!Apply(dst, chg)

TwoVersions   == {Version1, Version2}
ThreeVersions == {Version1, Version2, Version3}

(* What is explored (CONSTRAINT): two clients and two objects up to four      *)
(* commits in sessions of interval 3, and a client that commits to one       *)
(* object, in sessions of any intervals, to the end.                         *)
InUse == {u \in Uids : latest[u] > 0 \/ \E c \in Clients : uid[c] = u}
Busy  == {c \in Clients : pc[c] # "idle"}
Crowded ==
  /\ MapThenSumSet(LAMBDA u : latest[u], Uids) <= 4
  /\ {snapshotEvery} \union UNION {Range(recordedEvery[u]) : u \in Uids} = {3}
Lonely ==
  /\ Cardinality(InUse) <= 1 /\ Cardinality(Busy) <= 1
  /\ \A c \in Busy : newObject[c] # None
Explored == Crowded \/ Lonely

SymmetryU == Permutations(Clients) \union Permutations(Uids)
=============================================================================
