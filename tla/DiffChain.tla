----------------------------- MODULE DiffChain -----------------------------
(***************************************************************************)
(* The way TrackerService.Commit uses pkg/diffmap: the cached object is    *)
(* never replaced, every new version of the object is diffed against it    *)
(* and the change-set is applied to it in place, so that an error of one   *)
(* change-set would be carried into every later one.                       *)
(***************************************************************************)
EXTENDS DiffMap, Functions

CONSTANT Objects            \* the versions an object can take, as DiffMaps

(* A value of one of the four kinds; maps have finitely many keys. *)
IsValue(v) ==
  CASE v.kind = "nil"    -> v = NilValue
    [] v.kind = "scalar" -> v = ScalarValue(v.scalar)
    [] v.kind = "list"   -> v = ListValue(v.elems) /\ v.elems \in Seq(Range(v.elems))
    [] v.kind = "map"    -> v = MapValue([k \in DOMAIN v.map |-> v.map[k]]) /\ IsFiniteSet(DOMAIN v.map)
    [] OTHER             -> FALSE

(* An object ends within MaxDepth levels, and no key of it holds an explicit *)
(* null, which Apply could not tell from a deletion.                          *)
IsObject(o) ==
  /\ \A v \in Level(MapValue(o))[MaxDepth] : Parts(v) = {}
  /\ \A v \in Inside(MapValue(o)) : IsValue(v)
  /\ \A m \in MapsInside(o) : \A k \in DOMAIN m : m[k] # NilValue

ASSUME ObjectsAssumption == \A o \in Objects : IsObject(o)

VARIABLES
  obj,                      \* ts.obj, the cached state patched in place
  target                    \* the version committed last

vars == <<obj, target>>

Init ==
  \E o \in Objects : obj = o /\ target = o

(* Commit of version b: diff against the cached state, apply the diff to it. *)
CommitDiff(b) ==
  /\ target' = b
  /\ obj' = Apply(obj, Diff(obj, b))

Next == \E b \in Objects : CommitDiff(b)

Spec == Init /\ [][Next]_vars

(* The change-sets that say one entry less than chg, at any depth. *)
OneEntryLess(without, c) ==
  {[k \in DOMAIN c \ {d} |-> c[k]] : d \in DOMAIN c}
    \union
  UNION {{[c EXCEPT ![d] = MapValue(sub)] : sub \in without[c[d].map]} : d \in {k \in DOMAIN c : IsMap(c[k])}}

WithoutOneEntry(chg) ==
  LET without[c \in MapsInside(chg)] == OneEntryLess(without, c)
  IN  without[chg]

(* However many versions have been committed, the state patched in place is *)
(* the last version: the chain of change-sets never drifts from the object.  *)
(* (pkg/diffmap/apply.go: "after the call, dst equals the map that           *)
(* originally produced the given change-set".)                               *)
PatchedStateIsLastVersion == obj = target

(* The change-set Diff returns is minimal: leave any one of its entries out, *)
(* at any depth, and Apply no longer yields the new version; in particular   *)
(* it is empty between equal versions, which Commit stores as an empty patch. *)
ChangeSetIsMinimal ==
  \A b \in Objects : \A c \in WithoutOneEntry(Diff(obj, b)) : Apply(obj, c) # b

(* equalFast, which skips reflection for the common types, agrees with       *)
(* equality on every pair of versions: a false "equal" would silently drop a *)
(* change from the recorded history.                                         *)
FastEqualityIsEquality ==
  \A b \in Objects : EqualFast(MapValue(obj), MapValue(b)) <=> obj = b
=============================================================================
