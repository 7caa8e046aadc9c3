----------------------------- MODULE Algorithms -----------------------------
(***************************************************************************)
(* The pure algorithms of loog, each fed with an input that grows the way  *)
(* the program's does: the versions of an object that are committed and     *)
(* compared, the revisions of an object that arrive, and the list on the    *)
(* screen that is scrolled, resized and filled.                             *)
(***************************************************************************)
EXTENDS DiffChain, DiffPreview, Scrolling, Arrivals

CONSTANTS
  Compared                \* the versions compared

VARIABLES
  topic,                  \* what is fed: "commit", "compare", "revisions" or "list"
  left, right             \* the two versions compared

allVars == <<obj, target, topic, left, right, revs, list>>

AlgorithmsInit ==
  /\ topic \in {"commit", "compare", "revisions", "list"}
  /\ IF topic = "commit" THEN Init ELSE obj = EmptyMap /\ target = EmptyMap
  /\ left = EmptyMap /\ right = EmptyMap
  /\ ArrivalsInit
  /\ IF topic = "list" THEN ScrollInit ELSE list = EmptyList(0)

(* The next version is committed. *)
Commit ==
  /\ topic = "commit"
  /\ \E b \in Objects : CommitDiff(b)
  /\ UNCHANGED <<topic, left, right, revs, list>>

(* The version compared last is compared with another one. *)
Compare ==
  /\ topic = "compare"
  /\ \E b \in Compared : left' = right /\ right' = b
  /\ UNCHANGED <<topic, obj, target, revs, list>>

(* A revision of the resource arrives. *)
Arrive ==
  /\ topic = "revisions"
  /\ NextRevision
  /\ UNCHANGED <<obj, target, topic, left, right, list>>

(* The list on the screen is scrolled, resized or filled. *)
ScrollList ==
  /\ topic = "list"
  /\ Scroll
  /\ UNCHANGED <<obj, target, topic, left, right, revs>>

AlgorithmsNext == Commit \/ Compare \/ Arrive \/ ScrollList

AlgorithmsSpec == AlgorithmsInit /\ [][AlgorithmsNext]_allVars

-----------------------------------------------------------------------------
(* What the new version of a preview says: its lines that are not removed.   *)
RECURSIVE NewSide(_)
NewSide(node) ==
  LET stays(n) == n.change # "removed"
  IN  CASE node.kind = "map"  -> MapValue([k \in {j \in DOMAIN node.children : stays(node.children[j])} |->
                                             NewSide(node.children[k])])
        [] node.kind = "list" -> LET items == SelectSeq(node.items, stays)
                                 IN  ListValue([i \in DOMAIN items |-> NewSide(items[i])])
        [] OTHER              -> node.value

(* Two values that differ in nothing but the order of lists. *)
RECURSIVE SameButForOrder(_, _)
SameButForOrder(v, w) ==
  \/ v = w
  \/ /\ IsMap(v) /\ IsMap(w) /\ DOMAIN v.map = DOMAIN w.map
     /\ \A k \in DOMAIN v.map : SameButForOrder(v.map[k], w.map[k])
  \/ /\ v.kind = "list" /\ w.kind = "list" /\ Len(v.elems) = Len(w.elems)
     /\ \A i \in DOMAIN v.elems : \E j \in DOMAIN w.elems : SameButForOrder(v.elems[i], w.elems[j])

(* What the compare panel shows of two versions whose list elements have     *)
(* names of their own: the lines that are not marked removed are the new     *)
(* version, something is marked exactly when the versions differ in more     *)
(* than the order of such lists, and the view of the changes leaves no       *)
(* marked line out (pkg/diffpreview, diff.go and renderer.go).               *)
PreviewIsFaithful ==
  topic = "compare" =>
    LET tree == Preview(left, right)
        marked(changesOnly) ==
          {line \in Rendered(tree, <<>>, "unchanged", changesOnly) : line.change # "unchanged"}
    IN  /\ SameButForOrder(NewSide(tree), MapValue(right))
        /\ HasChanges(tree) <=> ~SameButForOrder(MapValue(left), MapValue(right))
        /\ marked(TRUE) = marked(FALSE)
=============================================================================
