----------------------------- MODULE Scrolling -----------------------------
(***************************************************************************)
(* A list on the screen (renderTree, renderTimeline and the others of       *)
(* internal/tui/components.go): keys move its cursor, the terminal is       *)
(* resized, the list is filled anew, and after each of them calcViewport    *)
(* chooses the rows that are drawn.                                         *)
(***************************************************************************)
EXTENDS Panels

CONSTANTS
  MaxRows,                \* bound: rows of a list
  Heights                 \* heights a list is given

(* In less than four rows the two lines that stand for the rows above and    *)
(* below leave no room for the cursor.                                       *)
ASSUME ScrollingAssumption ==
  /\ PageSize \in Nat \ {0}
  /\ MaxRows \in Nat
  /\ Heights \subseteq {h \in Nat : h >= 4}

VARIABLE list             \* [total, cursor, height, top]: rows, and the first one drawn

EmptyList(height) == [total |-> 0, cursor |-> 0, height |-> height, top |-> 0]

ScrollInit == list \in {EmptyList(h) : h \in Heights}

(* A list is drawn again, which keeps where it starts. *)
Redraw(l) == list' = [l EXCEPT !.top = Viewport(l.total, l.cursor, l.height, l.top).start]

(* A key moves the cursor, in an empty list as well (to -1, with pgdown). *)
MoveCursor ==
  \E key \in MoveKeys : Redraw([list EXCEPT !.cursor = Moved(key, list.cursor, list.total)])

Resize == \E h \in Heights : Redraw([list EXCEPT !.height = h])

(* The cursor of a list that is filled anew goes to the selected row, if that *)
(* is one of them, and else into the list; in an empty one it stays.           *)
Clamped(cursor, n) == IF n = 0 THEN cursor ELSE Max({0, Min({cursor, n - 1})})

Fill ==
  \E n \in 0..MaxRows : \E cursor \in 0..(n - 1) \union {Clamped(list.cursor, n)} :
    Redraw([list EXCEPT !.total = n, !.cursor = cursor])

Scroll == MoveCursor \/ Resize \/ Fill

ScrollSpec == ScrollInit /\ [][Scroll]_list

-----------------------------------------------------------------------------
(* The row of the cursor is on the screen, and not under the line that says  *)
(* how many rows there are above or below, after any moves, resizes and      *)
(* changes of the list (calcViewport, for heights of four rows and more).    *)
CursorIsDrawn ==
  LET drawn == Viewport(list.total, list.cursor, list.height, list.top)
      first == IF drawn.start > 0 THEN drawn.start + 1 ELSE 0
      last  == IF drawn.end < list.total THEN drawn.end - 2 ELSE drawn.end - 1
  IN  list.total > 0 => first <= list.cursor /\ list.cursor <= last

(* What UserInterfaceProofs shows every step to preserve: the cursor is on a *)
(* row, wherever the list starts.                                            *)
CursorIsOnARow ==
  /\ list \in [total : Nat, cursor : Int, height : Heights, top : Int]
  /\ list.total > 0 => list.cursor \in 0..(list.total - 1)
=============================================================================
