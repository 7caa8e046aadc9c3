------------------------------ MODULE DiffMap ------------------------------
(***************************************************************************)
(* pkg/diffmap: the change-set that turns one Kubernetes object into       *)
(* another, and its application.                                           *)
(*                                                                         *)
(* A DiffMap (map[string]any) is a function from a finite set of keys to   *)
(* values.  A value is a record tagged with its dynamic type:              *)
(*   NilValue           an untyped nil: JSON null in an object, a deletion  *)
(*                      in a change-set;                                   *)
(*   ScalarValue(s)     a string, number or bool, told apart by identity;  *)
(*   ListValue(seq)     a []any;                                           *)
(*   MapValue(f)        a nested map[string]any.                           *)
(* Diff returns a nil map when nothing changed; Apply treats a nil and an  *)
(* empty change-set alike, so both are EmptyMap here.                      *)
(*                                                                         *)
(* A function of the code that calls itself on the parts of a value is a    *)
(* function on the values inside the one it is first called with, and what  *)
(* one call does is an operator of that function.                           *)
(***************************************************************************)
EXTENDS Naturals, Sequences, FiniteSets

CONSTANT MaxDepth           \* bound: how deep values are nested

ASSUME DepthAssumption == MaxDepth \in Nat

NilValue == [kind |-> "nil"]
ScalarValue(s) == [kind |-> "scalar", scalar |-> s]
ListValue(seq) == [kind |-> "list", elems |-> seq]
MapValue(f) == [kind |-> "map", map |-> f]

IsMap(v) == v.kind = "map"

EmptyMap == [k \in {} |-> NilValue]

(* The values right inside a value, those so many levels inside it, and all. *)
Parts(v) ==
  CASE IsMap(v)        -> {v.map[k] : k \in DOMAIN v.map}
    [] v.kind = "list" -> {v.elems[i] : i \in DOMAIN v.elems}
    [] OTHER           -> {}

Level(v) ==
  LET level[n \in 0..MaxDepth] == IF n = 0 THEN {v} ELSE UNION {Parts(x) : x \in level[n - 1]}
  IN  level

Inside(v) == UNION {Level(v)[n] : n \in 0..MaxDepth}

MapsInside(m) == {v.map : v \in {x \in Inside(MapValue(m)) : IsMap(x)}}

-----------------------------------------------------------------------------
(* A plausible bug: the sizes are not compared. *)
EqualOnFirstKeys(equal, a, b) ==
  \A k \in DOMAIN a : k \in DOMAIN b /\ equal[<<a[k], b[k]>>]

(* diffMapsEqual: same size, and every key of a is in b with an equal value. *)
DiffMapsEqual(equal, a, b) ==
  /\ Cardinality(DOMAIN a) = Cardinality(DOMAIN b)
  /\ \A k \in DOMAIN a : k \in DOMAIN b /\ equal[<<a[k], b[k]>>]

(* A call of equalFast: a switch on the dynamic type of the first value. *)
EqualValues(equal, v, w) ==
  /\ v.kind = w.kind
  /\ \/ v.kind = "nil"
     \/ v.kind = "scalar" /\ v.scalar = w.scalar
     \/ /\ v.kind = "list"
        /\ Len(v.elems) = Len(w.elems)
        /\ \A i \in 1..Len(v.elems) : equal[<<v.elems[i], w.elems[i]>>]
     \/ IsMap(v) /\ DiffMapsEqual(equal, v.map, w.map)

EqualFast(v, w) ==
  LET equal[p \in Inside(v) \X Inside(w)] == EqualValues(equal, p[1], p[2])
  IN  equal[<<v, w>>]

-----------------------------------------------------------------------------
(* A plausible bug: keys that are gone are not recorded. *)
DiffForgetsDeletions(diff, a, b) ==
  LET both    == DOMAIN a \intersect DOMAIN b
      changed == {k \in both : ~EqualFast(a[k], b[k])}
      nested  == {k \in changed : IsMap(a[k]) /\ IsMap(b[k])}
  IN  [k \in (DOMAIN b \ DOMAIN a) \union changed |->
         IF k \in nested THEN MapValue(diff[<<a[k].map, b[k].map>>]) ELSE b[k]]

(* A plausible bug: the values of keys in both maps are not compared. *)
DiffRecordsUnchanged(diff, a, b) ==
  LET both == DOMAIN a \intersect DOMAIN b
  IN  [k \in DOMAIN a \union DOMAIN b |->
         CASE k \notin DOMAIN b -> NilValue
           [] k \in both /\ IsMap(a[k]) /\ IsMap(b[k])
                               -> MapValue(diff[<<a[k].map, b[k].map>>])
           [] OTHER            -> b[k]]

(* A call of diffRecursive: what is written to out for the maps a and b.    *)
(* Keys of a that b lacks are nil, keys that only b has carry b's value, and *)
(* of the keys of both the unequal ones are recorded: two maps by their      *)
(* nested change-set when it is not empty, anything else by b's value.       *)
DiffMaps(diff, a, b) ==
  LET both       == DOMAIN a \intersect DOMAIN b
      changed    == {k \in both : ~EqualFast(a[k], b[k])}
      nested     == {k \in changed : IsMap(a[k]) /\ IsMap(b[k])}
      sub(k)     == diff[<<a[k].map, b[k].map>>]
      recorded   == {k \in changed : k \in nested => sub(k) # EmptyMap}
  IN  [k \in (DOMAIN a \ DOMAIN b) \union (DOMAIN b \ DOMAIN a) \union recorded |->
         CASE k \notin DOMAIN b -> NilValue
           [] k \in nested      -> MapValue(sub(k))
           [] OTHER             -> b[k]]

Diff(a, b) ==
  LET diff[p \in MapsInside(a) \X MapsInside(b)] == DiffMaps(diff, p[1], p[2])
  IN  diff[<<a, b>>]

-----------------------------------------------------------------------------
(* A call of applyRecursive: a nil value deletes its key, a map value is     *)
(* applied to the nested map under its key (a fresh one when there is none), *)
(* and any other value replaces what was there.                              *)
NestedMap(dst, k) == IF k \in DOMAIN dst /\ IsMap(dst[k]) THEN dst[k].map ELSE EmptyMap

ApplyMaps(apply, dst, chg) ==
  LET deleted == {k \in DOMAIN chg : chg[k] = NilValue}
  IN  [k \in (DOMAIN dst \union DOMAIN chg) \ deleted |->
         IF k \notin DOMAIN chg THEN dst[k]
         ELSE IF IsMap(chg[k])  THEN MapValue(apply[<<NestedMap(dst, k), chg[k].map>>])
         ELSE chg[k]]

Apply(dst, chg) ==
  LET apply[p \in (MapsInside(dst) \union {EmptyMap}) \X MapsInside(chg)] == ApplyMaps(apply, p[1], p[2])
  IN  IF chg = EmptyMap THEN dst ELSE apply[<<dst, chg>>]
=============================================================================
