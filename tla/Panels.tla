------------------------------- MODULE Panels -------------------------------
(***************************************************************************)
(* internal/tui/components.go and views.go: the panels of the terminal UI, *)
(* each a record, each method an operator from the record to the record.   *)
(* Update of a key gives the panel after it and the messages its command    *)
(* will deliver (Step); what is drawn is left out, except which rows of a   *)
(* list are.  Cursors count from 0 as in the code; -1 is a real value of    *)
(* theirs, and reading a list there is Panic.  A filter's text is the name   *)
(* it matches, 0 for no text; the key "name3" makes it 3.                    *)
(***************************************************************************)
EXTENDS LiveStore

CONSTANTS
  PageSize,             \* max(height / 2, 1)
  MaxName               \* the largest name that can be typed, which bounds the keys

Msg(type, arg) == [type |-> type, arg |-> arg]
Panic          == Msg("panic", 0)
Step(panel, out) == [panel |-> panel, out |-> out]

(* The keys that move the cursor of a list of n rows. *)
MoveKeys == {"j", "k", "g", "G", "pgdown", "pgup"}
Moved(key, cursor, n) ==
  CASE key = "j"      -> IF cursor < n - 1 THEN cursor + 1 ELSE cursor
    [] key = "k"      -> IF cursor > 0 THEN cursor - 1 ELSE cursor
    [] key = "g"      -> 0
    [] key = "G"      -> IF n > 0 THEN n - 1 ELSE cursor
    [] key = "pgdown" -> Min({cursor + PageSize, n - 1})
    [] key = "pgup"   -> Max({cursor - PageSize, 0})

ScrollOff == 4

(* A plausible bug: the lines for the rows above and below take no room. *)
ViewportUnderTheLines(total, cursor, height, top) ==
  LET up    == Min({top, cursor})
      start == Min({Max({up, cursor - height + 1}), total - height})
  IN  CASE total = 0 \/ height <= 0 -> [start |-> 0, end |-> 0]
        [] total <= height          -> [start |-> 0, end |-> total]
        [] OTHER                    -> [start |-> start, end |-> start + height]

(* calcViewport: the rows drawn, [start, end).  The first is replaced by a    *)
(* line of its own when there are rows above, the last when there are below. *)
Viewport(total, cursor, height, top) ==
  LET off   == Max({Min({ScrollOff, height \div 2 - 1}), 0})
      up    == IF cursor < top + off THEN cursor - off ELSE top
      down  == IF cursor > up + height - off - 1 THEN cursor - height + off + 1 ELSE up
      start == Min({Max({down, 0}), total - height})
  IN  CASE total = 0 \/ height <= 0 -> [start |-> 0, end |-> 0]
        [] total <= height          -> [start |-> 0, end |-> total]
        [] OTHER                    -> [start |-> start, end |-> start + height]

-----------------------------------------------------------------------------
(* The inline filter of the tree and of the timeline list. *)
NoFilter == [text |-> 0, editing |-> FALSE, applied |-> FALSE]
Typed    == [key \in {"name" \o ToString(i) : i \in 0..MaxName} |->
               CHOOSE i \in 0..MaxName : key = "name" \o ToString(i)]
StartFilter(f) == [f EXCEPT !.editing = TRUE]
ApplyFilter(f) == IF f.text = 0 THEN NoFilter ELSE [f EXCEPT !.editing = FALSE, !.applied = TRUE]
Filtering(f)   == f.applied /\ ~f.editing /\ f.text # 0
Matches(f, res) == f.text = 0 \/ res.name = f.text

(* handleFilterMsg: enter applies, esc clears, a slash on an empty filter is *)
(* the quick jump; anything else edits the text, to any other.                *)
FilterKey(f, key) ==
  CASE key = "enter"             -> Step(ApplyFilter(f), <<>>)
    [] key = "esc"               -> Step(NoFilter, <<>>)
    [] key = "/" /\ f.text = 0   -> Step(NoFilter, <<Msg("showQuickJump", 0)>>)
    [] key \in DOMAIN Typed      -> Step([f EXCEPT !.text = Typed[key]], <<>>)
    [] OTHER                     -> Step(f, <<>>)

-----------------------------------------------------------------------------
(* ResourceTree: [groups, items, cursor, selected, expand, filter,           *)
(* starredOnly, byTime]; an item is a kind's header, its data None, or a     *)
(* resource under it; selected is a UID; expand the kinds whose state the     *)
(* user changed.                                                             *)
NewTree == [groups |-> <<>>, items |-> <<>>, cursor |-> 0, selected |-> None,
            expand |-> << >>, filter |-> NoFilter, starredOnly |-> FALSE, byTime |-> FALSE]

HasItem(list, cursor) == cursor + 1 \in DOMAIN list
UidOf(item) == IF item.data = None THEN None ELSE item.data.res.uid

(* Where the item is in the list, counted from 0, or -1. *)
PositionOf(list, Is(_)) ==
  LET at == {i \in DOMAIN list : Is(list[i])} IN IF at = {} THEN -1 ELSE Min(at) - 1

TreeItems(t) ==
  LET shown(d)    == (t.starredOnly => d.res.starred) /\ (Filtering(t.filter) => Matches(t.filter, d.res))
      newer(d, e) == d.res.created > e.res.created
      rows(g)     == IF ~g.expanded THEN <<>>
                     ELSE SelectSeq(IF t.byTime THEN SortedBy(g.res, newer) ELSE g.res, shown)
      item(g, d)  == [kind |-> g.kind, data |-> d]
      hidden(g)   == (Filtering(t.filter) \/ t.starredOnly) /\ SelectSeq(g.res, shown) = <<>>
      part(g)     == IF hidden(g) THEN <<>>
                     ELSE <<item(g, None)>> \o [i \in DOMAIN rows(g) |-> item(g, rows(g)[i])]
  IN  FlattenSeq([i \in DOMAIN t.groups |-> part(t.groups[i])])

Selected(t, item) == t.selected # None /\ UidOf(item) = t.selected

(* A plausible bug: the selected resource comes first. *)
CursorToSelected(t, items) ==
  LET again == PositionOf(items, LAMBDA x : Selected(t, x))
  IN  IF again >= 0 THEN again ELSE Max({0, Min({t.cursor, Len(items) - 1})})

(* Where the cursor goes among new items: it stays on the header or resource *)
(* it was on, else it goes to the selected resource, else it is clamped.      *)
CursorAmong(t, items) ==
  LET same  == IF ~HasItem(t.items, t.cursor) THEN -1
               ELSE LET at == t.items[t.cursor + 1]
                    IN  PositionOf(items, LAMBDA x : UidOf(x) = UidOf(at) /\ (at.data = None => x.kind = at.kind))
      again == PositionOf(items, LAMBDA x : Selected(t, x))
  IN  CASE same >= 0   -> same
        [] again >= 0  -> again
        [] items = <<>> -> Max({t.cursor, 0})
        [] OTHER       -> Max({0, Min({t.cursor, Len(items) - 1})})

(* buildItems *)
WithItems(t, items) == [t EXCEPT !.items = items, !.cursor = CursorAmong(t, items)]
BuildItems(t) == WithItems(t, TreeItems(t))

SetGroups(t, groups) ==
  BuildItems([t EXCEPT !.groups =
    [i \in DOMAIN groups |->
       IF groups[i].kind \in DOMAIN t.expand THEN [groups[i] EXCEPT !.expanded = t.expand[groups[i].kind]]
                                             ELSE groups[i]]])

SetExpanded(t, kind, on) ==
  BuildItems([t EXCEPT !.expand = (kind :> on) @@ @,
                       !.groups = [i \in DOMAIN @ |-> IF @[i].kind = kind THEN [@[i] EXCEPT !.expanded = on] ELSE @[i]]])

(* SelectByUID: the group that hides the resource is opened. *)
CursorOn(t, at) == IF at >= 0 THEN [t EXCEPT !.cursor = at] ELSE t
CursorOnUID(t, uid) == CursorOn(t, PositionOf(t.items, LAMBDA x : UidOf(x) = uid))
HidingKinds(t, uid) ==
  {g.kind : g \in {h \in Range(t.groups) : ~h.expanded /\ \E d \in Range(h.res) : d.res.uid = uid}}

SelectByUID(t, uid) ==
  LET picked == [t EXCEPT !.selected = uid]
      hidden == ~ \E x \in Range(t.items) : UidOf(x) = uid
  IN  CursorOnUID(IF hidden /\ HidingKinds(t, uid) # {}
                  THEN SetExpanded(picked, CHOOSE kind \in HidingKinds(t, uid) : TRUE, TRUE) ELSE picked, uid)

(* selectCurrent: an index below zero is not caught. *)
SelectInTree(t) ==
  CASE t.cursor >= Len(t.items)   -> Step(t, <<>>)
    [] t.cursor < 0               -> Step(t, <<Panic>>)
    [] UidOf(t.items[t.cursor + 1]) = None -> Step(t, <<>>)
    [] OTHER -> LET d == t.items[t.cursor + 1].data
                IN  Step([t EXCEPT !.selected = d.res.uid], <<Msg("resourceSelected", d)>>)

(* A key for the filter that is edited; the rows change when it ends. *)
EditTreeFilter(t, edit) ==
  LET shown == [t EXCEPT !.filter = edit.panel]
  IN  Step(IF edit.panel.editing THEN shown ELSE BuildItems(shown), edit.out)

(* ResourceTree.Update of a focused tree. *)
RowKey(t, at, key) ==
  CASE key = "enter" /\ at.data = None ->
         Step(SetExpanded(t, at.kind, \E g \in Range(t.groups) : g.kind = at.kind /\ ~g.expanded), <<>>)
    [] key = "enter" -> SelectInTree(t)
    [] key = "s" /\ at.data # None -> Step(t, <<Msg("toggleStar", at.data.res.uid)>>)
    [] key = "c" /\ at.data # None /\ at.data.revs # <<>> ->
         Step(t, <<Msg("compareMark", [data |-> at.data, index |-> Len(at.data.revs) - 1])>>)
    [] OTHER -> Step(t, <<>>)

TreeKey(t, key) ==
  CASE t.filter.editing -> EditTreeFilter(t, FilterKey(t.filter, key))
    [] key \in MoveKeys -> SelectInTree([t EXCEPT !.cursor = Moved(key, @, Len(t.items))])
    [] key = "S"         -> Step(t, <<Msg("toggleExplorerStarred", 0)>>)
    [] key = "O"         -> Step(BuildItems([t EXCEPT !.byTime = ~@]), <<>>)
    [] HasItem(t.items, t.cursor) -> RowKey(t, t.items[t.cursor + 1], key)
    [] OTHER             -> Step(t, <<>>)

ToggleStarredOnly(t) == BuildItems([t EXCEPT !.starredOnly = ~@])

(* The tree's StartFilter: an applied filter is lifted while it is edited. *)
StartTreeFilter(t) ==
  LET editing == [t EXCEPT !.filter = StartFilter(@)]
  IN  IF t.filter.applied THEN BuildItems(editing) ELSE editing

-----------------------------------------------------------------------------
(* RevisionList: [data, cursor, selectedID, auto]; data is None or a Data,   *)
(* the cursor an index into its revisions, drawn newest first.                *)
NewRevisionList == [data |-> None, cursor |-> 0, selectedID |-> 0, auto |-> FALSE]

HasRevisions(d) == d # None /\ d.revs # <<>>
AtRevision(rl, i) == [rl EXCEPT !.cursor = i, !.selectedID = rl.data.revs[i + 1].id]

(* SetResource: of the same resource the selected revision stays selected.   *)
SetListResource(rl, d) ==
  LET again == IF HasRevisions(d) /\ rl.selectedID # 0 /\ rl.data # None /\ rl.data.res.uid = d.res.uid
               THEN PositionOf(d.revs, LAMBDA r : r.id = rl.selectedID) ELSE -1
      bound == [rl EXCEPT !.data = d]
  IN  CASE ~HasRevisions(d) -> [bound EXCEPT !.cursor = 0, !.selectedID = 0]
        [] again >= 0       -> [bound EXCEPT !.cursor = again]
        [] OTHER            -> AtRevision(bound, Len(d.revs) - 1)

NewestRevision(rl) == IF HasRevisions(rl.data) THEN AtRevision(rl, Len(rl.data.revs) - 1) ELSE rl

SelectIndex(rl, index) ==
  IF HasRevisions(rl.data) THEN AtRevision(rl, Max({0, Min({index, Len(rl.data.revs) - 1})})) ELSE rl

PauseFollowing(auto) == IF auto THEN <<Msg("setAutoScroll", FALSE)>> ELSE <<>>

(* RevisionList.Update: the rows are drawn newest first, so a key moves the  *)
(* mirrored cursor.                                                          *)
RevisionKey(rl, key) ==
  LET last   == Len(rl.data.revs) - 1
      moved  == AtRevision(rl, last - Moved(key, last - rl.cursor, last + 1))
      pick(p) == Msg("revisionSelected", [data |-> p.data, index |-> p.cursor])
  IN  CASE ~HasRevisions(rl.data) -> Step(rl, <<>>)
        [] key \in MoveKeys -> Step(moved, <<pick(moved)>> \o PauseFollowing(rl.auto))
        [] key = "enter" /\ rl.cursor <= last -> Step(rl, <<pick(rl)>>)
        [] key = "s" -> Step(rl, <<Msg("toggleStar", rl.data.res.uid)>>)
        [] key = "c" -> Step(rl, <<Msg("compareMark", [data |-> rl.data, index |-> rl.cursor])>>)
        [] OTHER     -> Step(rl, <<>>)

-----------------------------------------------------------------------------
(* DetailView: [data, index, mode]; what it shows is a function of the three. *)
NewDetail == [data |-> None, index |-> 0, mode |-> "diff"]
SetRevision(dv, d, index) == [dv EXCEPT !.data = d, !.index = index]
ShowsRevision(dv) == dv.data # None /\ dv.index + 1 \in DOMAIN dv.data.revs
ModeKeys == [d |-> "diff", o |-> "object", p |-> "patch", J |-> "json", r |-> "raw"]

(* DetailView.Update: brackets walk the revisions. *)
DetailKey(dv, key) ==
  LET to(i)  == [dv EXCEPT !.index = i]
      walk(i) == Step(to(i), <<Msg("revisionSelected", [data |-> dv.data, index |-> i])>>)
  IN  CASE key \in DOMAIN ModeKeys ->
             Step([dv EXCEPT !.mode = ModeKeys[key]], <<Msg("viewModeChanged", ModeKeys[key])>>)
        [] key = "c" /\ dv.data # None -> Step(dv, <<Msg("compareMark", [data |-> dv.data, index |-> dv.index])>>)
        [] key = "t" /\ ShowsRevision(dv) ->
             Step(dv, <<Msg("jumpToTimeline", [res |-> dv.data.res, rev |-> dv.data.revs[dv.index + 1]])>>)
        [] key = "[" /\ dv.data # None /\ dv.index > 0 -> walk(dv.index - 1)
        [] key = "]" /\ dv.data # None /\ dv.index < Len(dv.data.revs) - 1 -> walk(dv.index + 1)
        [] OTHER -> Step(dv, <<>>)

-----------------------------------------------------------------------------
(* TimelineList: [entries, items, cursor, uid, rev, auto, window, anchor,    *)
(* reversed, filter]; uid and rev identify the entry selected last.  Bursts   *)
(* only bracket the rows.                                                     *)
NewTimelineList == [entries |-> <<>>, items |-> <<>>, cursor |-> 0, uid |-> None, rev |-> 0,
                    auto |-> FALSE, window |-> 0, anchor |-> 0, reversed |-> FALSE, filter |-> NoFilter]

(* rebuild's window and text filters, and the order of the rows. *)
TimelineRows(tl) ==
  LET half    == WindowHalf[tl.window + 1]
      kept(e) == /\ tl.window # 0 /\ tl.anchor # 0 =>
                      tl.anchor - half <= e.rev.time /\ e.rev.time <= tl.anchor + half
                 /\ Filtering(tl.filter) => Matches(tl.filter, e.res)
      rows    == SelectSeq(tl.entries, kept)
  IN  IF tl.reversed THEN Reverse(rows) ELSE rows

IsEntry(e, uid, rev) == e.res.uid = uid /\ e.rev.id = rev

(* rebuild: the cursor goes to the selected entry, else it is clamped. *)
WithRows(tl, rows) ==
  LET again == PositionOf(rows, LAMBDA e : IsEntry(e, tl.uid, tl.rev))
  IN  [tl EXCEPT !.items = rows,
                 !.cursor = CASE again >= 0   -> again
                              [] rows = <<>>  -> @
                              [] OTHER        -> Max({0, Min({@, Len(rows) - 1})})]
Rebuild(tl) == WithRows(tl, TimelineRows(tl))

SetEntries(tl, entries) == Rebuild([tl EXCEPT !.entries = entries])

SetWindowAnchor(tl, time) ==
  LET moved == [tl EXCEPT !.anchor = time] IN IF tl.window # 0 THEN Rebuild(moved) ELSE moved

EntryAt(tl) == IF HasItem(tl.items, tl.cursor) THEN tl.items[tl.cursor + 1] ELSE None

SelectAt(tl, cursor) ==
  LET at == tl.items[cursor + 1] IN [tl EXCEPT !.cursor = cursor, !.uid = at.res.uid, !.rev = at.rev.id]

NewestEntry(tl) ==
  IF tl.items = <<>> THEN tl ELSE SelectAt(tl, IF tl.reversed THEN Len(tl.items) - 1 ELSE 0)

(* ScrollToRevision: the first row with that revision ID, of any resource;   *)
(* the row is not selected.                                                   *)
ScrollToRevision(tl, id) ==
  LET at == PositionOf(tl.items, LAMBDA e : e.rev.id = id) IN IF at >= 0 THEN [tl EXCEPT !.cursor = at] ELSE tl

(* selectCurrent *)
SelectEntryAt(tl) ==
  IF EntryAt(tl) = None THEN Step(tl, <<>>)
  ELSE Step(SelectAt(tl, tl.cursor), <<Msg("timelineEntrySelected", EntryAt(tl))>>)

EditTimelineFilter(tl, edit) ==
  LET shown == [tl EXCEPT !.filter = edit.panel]
  IN  Step(IF edit.panel.editing THEN shown ELSE Rebuild(shown), edit.out)

Followed(step, out) == [step EXCEPT !.out = @ \o out]

(* TimelineList.Update of a focused list. *)
TimelineKey(tl, key) ==
  CASE tl.filter.editing -> EditTimelineFilter(tl, FilterKey(tl.filter, key))
    [] key \in MoveKeys  ->
         Followed(SelectEntryAt([tl EXCEPT !.cursor = Moved(key, @, Len(tl.items))]), PauseFollowing(tl.auto))
    [] key = "enter"     -> SelectEntryAt(tl)
    [] key = "s" /\ tl.cursor < Len(tl.items) ->
         Step(tl, IF tl.cursor < 0 THEN <<Panic>> ELSE <<Msg("toggleStar", EntryAt(tl).res.uid)>>)
    [] key = "S"         -> Step(tl, <<Msg("toggleTimelineStarred", 0)>>)
    [] key = "R"         -> Step(Rebuild([tl EXCEPT !.reversed = ~@]), <<>>)
    [] OTHER             -> Step(tl, <<>>)

StartTimelineFilter(tl) ==
  LET editing == [tl EXCEPT !.filter = StartFilter(@)] IN IF tl.filter.applied THEN Rebuild(editing) ELSE editing

-----------------------------------------------------------------------------
(* The views: the explorer [tree, revs, detail, focus], the timeline [list,  *)
(* detail, focus] and the two sides of the comparison.                        *)
NewExplorer == [tree |-> NewTree, revs |-> NewRevisionList, detail |-> NewDetail, focus |-> "left"]
NewTimeline == [list |-> NewTimelineList, detail |-> NewDetail, focus |-> "left"]
NoMarks     == [left |-> None, right |-> None]

NextPanel == [left |-> "middle", middle |-> "right", right |-> "left"]
PrevPanel == [left |-> "right", middle |-> "left", right |-> "middle"]

(* ExplorerViewComponent.SetResource; of nil, which empties the list of       *)
(* revisions, and neither the tree's selection nor the detail panel.          *)
SetResource(ev, d) ==
  [ev EXCEPT !.revs   = SetListResource(@, d),
             !.tree   = SelectByUID(@, d.res.uid),
             !.detail = IF d.revs = <<>> THEN @ ELSE SetRevision(@, d, Len(d.revs) - 1)]
SetNoResource(ev) == [ev EXCEPT !.revs = SetListResource(@, None)]

ShowRevision(ev, d, index) ==
  [ev EXCEPT !.revs = SelectIndex(@, index), !.detail = SetRevision(@, d, index)]

TreeStep(ev, step)     == Step([ev EXCEPT !.tree = step.panel], step.out)
RevisionStep(ev, step) == Step([ev EXCEPT !.revs = step.panel], step.out)
DetailStep(view, step) == Step([view EXCEPT !.detail = step.panel], step.out)
ListStep(tv, step)     == Step([tv EXCEPT !.list = step.panel], step.out)

(* ExplorerViewComponent.Update *)
ExplorerKey(ev, key) ==
  CASE ev.focus = "left"   -> TreeStep(ev, TreeKey(ev.tree, key))
    [] ev.focus = "middle" -> RevisionStep(ev, RevisionKey(ev.revs, key))
    [] OTHER               -> DetailStep(ev, DetailKey(ev.detail, key))

(* SelectEntry: the entry's revision in what the store has of its resource.  *)
SelectEntry(tv, s, e) ==
  LET d  == GetResource(s, e.res.uid)
      at == IF d = None THEN -1 ELSE PositionOf(d.revs, LAMBDA r : r.id = e.rev.id)
  IN  IF at >= 0 THEN [tv EXCEPT !.detail = SetRevision(@, d, at)] ELSE tv

SelectCurrentEntry(tv, s) == IF EntryAt(tv.list) = None THEN tv ELSE SelectEntry(tv, s, EntryAt(tv.list))
ScrollToEntry(tv, s, e) == SelectCurrentEntry([tv EXCEPT !.list = ScrollToRevision(@, e.rev.id)], s)
FollowNewest(tv, s) == SelectCurrentEntry([tv EXCEPT !.list = NewestEntry(@)], s)

(* The mark that "c" makes of a row. *)
MarkOf(s, e) ==
  LET d  == IF e = None THEN None ELSE GetResource(s, e.res.uid)
      at == IF d = None THEN -1 ELSE PositionOf(d.revs, LAMBDA r : r.id = e.rev.id)
  IN  IF at >= 0 THEN <<Msg("compareMark", [data |-> d, index |-> at])>> ELSE <<>>

(* TimelineViewComponent.Update *)
TimelineViewKey(tv, s, key) ==
  CASE tv.focus # "left" -> DetailStep(tv, DetailKey(tv.detail, key))
    [] key = "c" /\ ~tv.list.filter.editing -> Step(tv, MarkOf(s, EntryAt(tv.list)))
    [] OTHER -> ListStep(tv, TimelineKey(tv.list, key))

(* CompareViewComponent.AddItem: the third mark moves the second to the left. *)
AddItem(marks, item) ==
  CASE marks.left = None  -> [marks EXCEPT !.left = item]
    [] marks.right = None -> [marks EXCEPT !.right = item]
    [] OTHER              -> [left |-> marks.right, right |-> item]
=============================================================================
