---------------------------- MODULE DiffPreview ----------------------------
(***************************************************************************)
(* pkg/diffpreview: the annotated tree of two versions of an object that   *)
(* the detail and compare panels show, over the values of DiffMap.  A node *)
(* is a map, a list or a leaf, with what happened to it.                    *)
(***************************************************************************)
EXTENDS DiffMap, SequencesExt

CONSTANT MatchKeys      \* findMatchKey's candidates that the objects use, in order

Leaf(v, change)    == [kind |-> "leaf", change |-> change, value |-> v]
MapNode(f, change) == [kind |-> "map", change |-> change, children |-> f]
ListNode(s, change) == [kind |-> "list", change |-> change, items |-> s]

(* buildFullNode: the whole of a value, annotated alike. *)
RECURSIVE FullNode(_, _)
FullNode(v, change) ==
  CASE v.kind = "map"  -> MapNode([k \in DOMAIN v.map |-> FullNode(v.map[k], change)], change)
    [] v.kind = "list" -> ListNode([i \in DOMAIN v.elems |-> FullNode(v.elems[i], change)], change)
    [] OTHER           -> Leaf(v, change)

(* allMapsHaveKey: some element is a map, and every one that is has the key. *)
AllMapsHaveKey(list, key) ==
  LET maps == SelectSeq(list, IsMap)
  IN  maps # <<>> /\ \A i \in DOMAIN maps : key \in DOMAIN maps[i].map

(* findMatchKey: the first candidate both lists can be matched by, or "". *)
FindMatchKey(a, b) ==
  LET usable == SelectSeq(MatchKeys, LAMBDA key : AllMapsHaveKey(a, key) /\ AllMapsHaveKey(b, key))
  IN  IF usable = <<>> THEN "" ELSE Head(usable)

(* keyOf in diffListByKey: what is printed for the value under the key. *)
KeyOf(item, key) ==
  IF IsMap(item) /\ key \in DOMAIN item.map THEN item.map[key] ELSE NilValue

RECURSIVE DiffValues(_, _)

(* diffMaps: a key of one side is removed or added with all below it. *)
PreviewMaps(a, b) ==
  MapNode([k \in DOMAIN a \union DOMAIN b |->
             CASE k \notin DOMAIN b -> FullNode(a[k], "removed")
               [] k \notin DOMAIN a -> FullNode(b[k], "added")
               [] OTHER             -> DiffValues(a[k], b[k])], "unchanged")

(* A plausible bug: what only the new list has is not appended. *)
ByKeyForgetsAdditions(a, b, key) ==
  [i \in DOMAIN a |->
     LET partners == SelectSeq(b, LAMBDA e : KeyOf(e, key) = KeyOf(a[i], key))
     IN  IF KeyOf(a[i], key) = NilValue \/ partners = <<>>
         THEN FullNode(a[i], "removed") ELSE DiffValues(a[i], Last(partners))]

(* diffListByKey: an element of a is paired with the last element of b that *)
(* has its key; elements of b whose key no element of a has come after.      *)
ListByKey(a, b, key) ==
  LET keyed(s, k)  == SelectSeq(s, LAMBDA e : KeyOf(e, key) = k /\ k # NilValue)
      node(item)   == LET partners == keyed(b, KeyOf(item, key))
                      IN  IF partners = <<>> THEN FullNode(item, "removed")
                                             ELSE DiffValues(item, Last(partners))
      fresh        == SelectSeq(b, LAMBDA e : keyed(a, KeyOf(e, key)) = <<>>)
  IN  [i \in DOMAIN a |-> node(a[i])] \o [i \in DOMAIN fresh |-> FullNode(fresh[i], "added")]

(* diffListPositional *)
ListByPosition(a, b) ==
  [i \in DOMAIN a \union DOMAIN b |->
     CASE i > Len(a) -> FullNode(b[i], "added")
       [] i > Len(b) -> FullNode(a[i], "removed")
       [] OTHER      -> DiffValues(a[i], b[i])]

(* diffLists *)
PreviewLists(a, b) ==
  LET key == FindMatchKey(a, b)
  IN  ListNode(IF key # "" THEN ListByKey(a, b, key) ELSE ListByPosition(a, b), "unchanged")

(* diffValues *)
DiffValues(v, w) ==
  CASE IsMap(v) /\ IsMap(w)                    -> PreviewMaps(v.map, w.map)
    [] v.kind = "list" /\ w.kind = "list"      -> PreviewLists(v.elems, w.elems)
    [] v = w                                   -> FullNode(v, "unchanged")
    [] OTHER                                   -> Leaf(w, "modified")

Preview(a, b) == PreviewMaps(a, b)

(* hasChanges *)
RECURSIVE HasChanges(_)
HasChanges(node) ==
  \/ node.change # "unchanged"
  \/ node.kind = "map" /\ \E k \in DOMAIN node.children : HasChanges(node.children[k])
  \/ node.kind = "list" /\ \E i \in DOMAIN node.items : HasChanges(node.items[i])

(* RenderYAML, of which only what is printed matters: one line for a node,  *)
(* the value of a leaf or what it opens, at its path, with the background    *)
(* of its change, an element's own or its list's.                            *)
RECURSIVE Rendered(_, _, _, _)
Rendered(node, path, parent, changesOnly) ==
  LET change == IF node.change # "unchanged" THEN node.change ELSE parent
      below  == CASE node.kind = "map"  -> node.children
                  [] node.kind = "list" -> node.items
                  [] OTHER              -> <<>>
      shown  == {k \in DOMAIN below : changesOnly => HasChanges(below[k])}
  IN  {[path   |-> path,
        text   |-> IF node.kind = "leaf" THEN node.value ELSE node.kind,
        change |-> change]}
        \union
      UNION {Rendered(below[k], Append(path, ToString(k)),
                      IF node.kind = "list" THEN change ELSE "unchanged", changesOnly) : k \in shown}
=============================================================================
