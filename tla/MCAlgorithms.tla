---------------------------- MODULE MCAlgorithms ----------------------------
(* Small inputs of Algorithms for TLC.                                       *)
EXTENDS Algorithms

MapsOver(keys, values) == UNION {[ks -> values] : ks \in SUBSET keys}

AsValues(maps) == {MapValue(m) : m \in maps}

(* Objects to commit: nested maps two levels deep, lists, and values that    *)
(* change their dynamic type between versions.                               *)
Scalars == {ScalarValue("s1"), ScalarValue("s2")}

PlainLists ==
  {ListValue(<<>>), ListValue(<<ScalarValue("s1")>>), ListValue(<<ScalarValue("s1"), ScalarValue("s2")>>)}
Lists ==
  PlainLists \union {ListValue(<<ScalarValue("s1"), MapValue([k \in {"x"} |-> ScalarValue("s1")])>>)}

Nested == AsValues(MapsOver({"x", "y"}, Scalars \union AsValues(MapsOver({"x"}, Scalars))))

MCObjects == MapsOver({"spec"}, Scalars \union Lists \union Nested)
               \union MapsOver({"spec", "status"}, Scalars \union AsValues(MapsOver({"x"}, Scalars \union PlainLists)))

(* Objects to compare: lists of maps with names of their own, lists of       *)
(* scalars, and a value of another type in their place.                      *)
Named(n, f) == MapValue([k \in {"name", "image"} |-> ScalarValue(IF k = "name" THEN n ELSE f)])

Containers ==
  {ListValue(<<>>), ListValue(<<Named("n2", "s2")>>)}
    \union {ListValue(<<Named(n, f), Named(m, g)>>) :
              <<n, m>> \in {<<"n1", "n2">>, <<"n2", "n1">>}, f \in {"s1", "s2"}, g \in {"s1", "s2"}}

MCCompared ==
  MapsOver({"spec", "status"}, {ScalarValue("s1"), MapValue([k \in {"x"} |-> ScalarValue("s2")])})
    \union MapsOver({"spec"}, Lists \union Containers \union AsValues(MapsOver({"x"}, Containers)))
MCMatchKeys == <<"name">>

(* Three states of an object, with and without a resourceVersion, which need *)
(* not be in the order of the clock.                                         *)
MCArriving ==
  {[id |-> 0, rv |-> x[1], time |-> x[2], obj |-> x[3]] :
     x \in {<<1, 2, "A">>, <<1, 4, "B">>, <<2, 1, "A">>, <<0, 2, "B">>, <<0, 4, "A">>, <<0, 4, "C">>}}
MCPreferred == <<2, 1>>

-----------------------------------------------------------------------------
(* The functions that no action feeds, over all small inputs.                *)

(* No two states of a loop are printed with one label (loopLabel).           *)
ASSUME LoopLabelsDiffer ==
  /\ Cardinality({LoopLabel[i] : i \in 0..800}) = 801
  /\ LoopLabel[25] = <<25>> /\ LoopLabel[26] = <<0, 0>> /\ LoopLabel[702] = <<0, 0, 0>>

Sections == {None, 1}
Specs == {None} \union [images : 1..2, replicas : 1..2, rest : 1..2]
TaggedObjects == [spec : Specs, status : Sections, labels : Sections, annotations : Sections, data : Sections, meta : {TRUE}]

(* TagRevision leaves no change of an object that keeps its spec unnamed and *)
(* names none that was not made; a spec that comes or goes has no tag.        *)
ASSUME TagsNameTheChanges ==
  \A o, q \in TaggedObjects :
    LET kept == (o.spec = None) = (q.spec = None)
        tags == TagRevision(o, q)
    IN  /\ kept => (tags = {"unknown"} <=> o = q)
        /\ ~kept => tags \intersect {"image", "replicas", "spec"} = {}
        /\ "spec" \in tags => o.spec.images = q.spec.images /\ o.spec.replicas = q.spec.replicas
        /\ "unknown" \in tags => tags = {"unknown"}

(* A burst breaks where the gap to the next entry is wider than the window,   *)
(* and nowhere else; none of the entries is left out.                         *)
ASSUME BurstsAreMaximal ==
  \A times \in UNION {[1..n -> {0, 3, 5, 9}] : n \in 0..4} :
    LET entries == [i \in DOMAIN times |-> [rev |-> [time |-> times[i]]]]
        bursts  == GroupByBurst(entries, 3)
        gap(e, f) == e.rev.time - f.rev.time
        near(e, f) == -3 <= gap(e, f) /\ gap(e, f) <= 3
    IN  /\ FlattenSeq(bursts) = entries
        /\ \A i \in 1..(Len(bursts) - 1) : ~near(Last(bursts[i]), Head(bursts[i + 1]))
        /\ \A b \in Range(bursts) : \A i \in 1..(Len(b) - 1) : near(b[i], b[i + 1])
=============================================================================
