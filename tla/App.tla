-------------------------------- MODULE App --------------------------------
(***************************************************************************)
(* internal/tui/app.go: the program behind the terminal UI.  One event loop *)
(* takes keys, the messages its own commands deliver in any order, and the   *)
(* messages of other goroutines: the collector, which records live           *)
(* revisions, the loader, which reads a file's history, and the discovery    *)
(* of the cluster's kinds.  Those change the store at any time, and each     *)
(* waits for the loop to take its last message before it goes on             *)
(* (Program.Send).                                                           *)
(*                                                                         *)
(* A run starts in one of Scenarios, a record of the mode of the session     *)
(* ("record", "replay" or "simulate"), the store it begins with, the work    *)
(* of the goroutines, the keys that may be pressed, and how many (presses    *)
(* is the bound of the model).                                               *)
(***************************************************************************)
EXTENDS Overlays, Simulation, Bags

CONSTANTS
  Scenarios,
  MaxRevision           \* the simulation's ticks end with this revision: a bound of the model

VARIABLES
  scenario,     \* the one this run is in
  store,        \* the store, shared with the senders
  app,          \* the App: the views and what it remembers itself
  pending,      \* a bag of the messages its commands have yet to deliver
  feed,         \* for each sender, the steps it has left
  sending,      \* for each sender, the message it waits to hand over, or None
  pressed,      \* how many keys have been pressed
  phase         \* "running", then "quit" or "crashed"

vars == <<scenario, store, app, pending, feed, sending, pressed, phase>>

Senders    == {"collector", "loader", "discovery"}
Simulating == scenario.mode = "simulate"

(* A session other than the simulation's begins with a store its own methods  *)
(* have filled, and the revisions that reach it are of resources with a UID.   *)
ASSUME SessionsAssumption ==
  \A sc \in Scenarios : sc.mode # "simulate" =>
    /\ StoreIsListed(sc.store)
    /\ DOMAIN sc.feed = Senders
    /\ \A sender \in Senders :
         /\ sc.feed[sender] \in Seq(Range(sc.feed[sender]))
         /\ \A job \in Range(sc.feed[sender]) : job.do = "ingest" => "uid" \in DOMAIN job.res

-----------------------------------------------------------------------------
(* The methods of the App, from its record (and the store) to its record.   *)

SetAutoScroll(a, on) == [a EXCEPT !.auto = on, !.ex.revs.auto = on, !.tv.list.auto = on]

Entries(s, starredOnly) == IF Simulating THEN SimFilterTimeline(s, starredOnly) ELSE FilterTimeline(s, starredOnly)

(* refreshExplorerGroups and refreshTimeline *)
RefreshGroups(a, s)   == [a EXCEPT !.ex.tree = SetGroups(@, s.groups)]
RefreshTimeline(a, s) == [a EXCEPT !.tv.list = SetEntries(@, Entries(s, a.starredOnly))]
Refresh(a, s)         == RefreshTimeline(RefreshGroups(a, s), s)

(* focusPanel: the timeline has no middle panel. *)
FocusPanel(a, p) ==
  CASE a.view = "explorer" -> [a EXCEPT !.ex.focus = p]
    [] a.view = "timeline" -> [a EXCEPT !.tv.focus = IF p = "left" THEN "left" ELSE "right"]
    [] OTHER               -> a

CyclePanel(a, next) ==
  CASE a.view = "explorer" -> [a EXCEPT !.ex.focus = next[@]]
    [] a.view = "timeline" -> [a EXCEPT !.tv.focus = IF @ = "left" THEN "right" ELSE "left"]
    [] OTHER               -> a

SwitchView(a, v) == FocusPanel([a EXCEPT !.view = v], "left")

(* jumpToNewest *)
JumpToNewest(a, s) ==
  LET d        == GetResource(s, a.ex.tree.selected)
      followed == [a EXCEPT !.ex.revs = NewestRevision(@), !.tv = FollowNewest(@, s)]
  IN  IF HasRevisions(d) THEN [followed EXCEPT !.ex.detail = SetRevision(@, d, Len(d.revs) - 1)] ELSE followed

ToggleAutoScroll(a, s) ==
  IF a.auto THEN SetAutoScroll(a, FALSE) ELSE JumpToNewest(SetAutoScroll(a, TRUE), s)

CycleWindow(a) ==
  LET mode == NextWindowMode(a.window)
  IN  [a EXCEPT !.window  = mode,
                !.tv.list = Rebuild([SetWindowAnchor(@, a.anchor) EXCEPT !.window = mode])]

(* What a selection does to the window's anchor. *)
Anchor(a, time) ==
  LET anchored == [a EXCEPT !.anchor = time]
  IN  IF a.window = 0 THEN anchored ELSE [anchored EXCEPT !.tv.list = SetWindowAnchor(@, time)]

(* refreshViewsAfterNewRevision: all rows, the revisions and the detail of   *)
(* the selected resource when the revision is one of its own, and with        *)
(* auto-scroll the newest entry.                                              *)
ShowList(a, d, revs) == [a EXCEPT !.ex.revs = revs, !.ex.detail = SetRevision(@, d, revs.cursor)]
Rebound(a, d, list)  == ShowList(a, d, IF a.auto THEN NewestRevision(list) ELSE list)
Rebind(a, d, uid) ==
  IF a.ex.tree.selected # uid \/ ~HasRevisions(d) THEN a ELSE Rebound(a, d, SetListResource(a.ex.revs, d))
Follow(a, s) == IF a.auto THEN [a EXCEPT !.tv = FollowNewest(@, s)] ELSE a

AfterRevision(a, s, uid) == Follow(Rebind(Refresh(a, s), GetResource(s, uid), uid), s)

(* A live revision is buffered while the view is frozen. *)
OnRevision(a, s, uid) ==
  IF a.frozen THEN [a EXCEPT !.buffer = Append(@, uid)] ELSE AfterRevision(a, s, uid)

(* A plausible bug: the flush clears the buffer and refreshes nothing. *)
FlushForgetsViews(a, s) == [a EXCEPT !.buffer = <<>>]

(* flushPendingBuffer: one refresh, for the last revision that was buffered. *)
FlushBuffer(a, s) ==
  IF a.buffer = <<>> THEN a ELSE AfterRevision([a EXCEPT !.buffer = <<>>], s, Last(a.buffer))

(* A plausible bug: the old tick counts in the new epoch. *)
TogglePauseKeepsEpoch(a) == [a EXCEPT !.simulating = ~@]

(* TogglePauseMsg, which makes the tick that is still to come an old one. *)
TogglePause(a) == [a EXCEPT !.simulating = ~@, !.epoch = @ + 1]

(* The detail panel of the view that is shown. *)
SetViewMode(a, mode) ==
  CASE a.view = "explorer" -> [a EXCEPT !.ex.detail.mode = mode]
    [] a.view = "timeline" -> [a EXCEPT !.tv.detail.mode = mode]
    [] OTHER               -> a

(* What a hidden selection does: the list of revisions is emptied. *)
DeselectIf(hidden, a) == IF hidden THEN [a EXCEPT !.ex = SetNoResource(@)] ELSE a

RefreshManager(a, s) ==
  IF "watch" \in a.ov.shown THEN [a EXCEPT !.ov.watch = RefreshWatchManager(@, s)] ELSE a

FilterEditing(a) ==
  \/ a.view = "explorer" /\ a.ex.focus = "left" /\ a.ex.tree.filter.editing
  \/ a.view = "timeline" /\ a.tv.focus = "left" /\ a.tv.list.filter.editing

StartPanelFilter(a) ==
  CASE a.view = "explorer" /\ a.ex.focus = "left" -> [a EXCEPT !.ex.tree = StartTreeFilter(@)]
    [] a.view = "timeline" /\ a.tv.focus = "left" -> [a EXCEPT !.tv.list = StartTimelineFilter(@)]
    [] OTHER -> a

(* updateActiveView *)
ExplorerStep(a, step) == Step([a EXCEPT !.ex = step.panel], step.out)
TimelineStep(a, step) == Step([a EXCEPT !.tv = step.panel], step.out)
ViewKey(a, s, key) ==
  CASE a.view = "explorer" -> ExplorerStep(a, ExplorerKey(a.ex, key))
    [] a.view = "timeline" -> TimelineStep(a, TimelineViewKey(a.tv, s, key))
    [] OTHER               -> Step(a, IF key = "X" THEN <<Msg("compareClear", 0)>> ELSE <<>>)

(* The simulation changes a *Data where it is, so whatever holds it sees it. *)
Shared(a, old, new) ==
  LET same(d) == SameData(d, old, new)
  IN  [a EXCEPT !.ex.tree.groups = [i \in DOMAIN @ |-> [@[i] EXCEPT !.res = [j \in DOMAIN @ |-> same(@[j])]]],
                !.ex.tree.items  = [i \in DOMAIN @ |-> [@[i] EXCEPT !.data = same(@)]],
                !.ex.revs.data   = same(@),
                !.ex.detail.data = same(@),
                !.tv.detail.data = same(@),
                !.ov.jumpTo      = [i \in DOMAIN @ |-> same(@[i])]]

NewApp(s, mode) ==
  SetAutoScroll(
    [view |-> "explorer", ex |-> [NewExplorer EXCEPT !.tree = SetGroups(@, s.groups)],
     tv |-> [NewTimeline EXCEPT !.list = SetEntries(@, s.timeline)], marks |-> NoMarks, ov |-> NoOverlays,
     fullscreen |-> FALSE, starredOnly |-> FALSE, auto |-> FALSE, window |-> 0, anchor |-> 0,
     simulating |-> mode # "replay", epoch |-> 0, frozen |-> FALSE, buffer |-> <<>>, analysis |-> << >>], TRUE)

-----------------------------------------------------------------------------
(* One turn of the event loop: the store and the App after it, the messages  *)
(* its command will deliver, and the queue without what was taken.            *)
SharedMessage(m, old, new) ==
  CASE m.type = "resourceSelected" -> [m EXCEPT !.arg = SameData(@, old, new)]
    [] m.type \in {"revisionSelected", "compareMark"} -> [m EXCEPT !.arg.data = SameData(@, old, new)]
    [] OTHER -> m

(* The queue after the store has changed from old to new: of each message as  *)
(* it now is as many copies as there were of those that became it.            *)
SharedQueue(queue, old, new) ==
  LET copies == UNION {{m} \X (1..queue[m]) : m \in DOMAIN queue}
  IN  [m \in {SharedMessage(n, old, new) : n \in DOMAIN queue} |->
         Cardinality({c \in copies : SharedMessage(c[1], old, new) = m})]

MessagesIn(out) == [m \in Range(out) \ {Panic} |-> Cardinality({i \in DOMAIN out : out[i] = m})]

Becomes(s, a, out, left) ==
  LET queue == left (+) MessagesIn(out)
  IN  /\ store'   = s
      /\ app'     = IF Simulating THEN Shared(a, store, s) ELSE a
      /\ pending' = IF Simulating THEN SharedQueue(queue, store, s) ELSE queue
      /\ phase'   = IF Contains(out, Panic) THEN "crashed" ELSE phase
      /\ UNCHANGED <<scenario, feed>>

(* The messages of the loop's own commands, taken in any order. *)
Take(type, m) == phase = "running" /\ m.type = type /\ UNCHANGED <<sending, pressed>>
Handled(m, s, a, out) == Becomes(s, a, out, pending (-) SetToBag({m}))

(* RebuildKindGroups with each order of the map's iteration. *)
Regrouped(s) == {RebuildKindGroups(s, all) : all \in AllResources(s)}
RegroupedUnlessFrozen(s) == IF app.frozen THEN {s} ELSE Regrouped(s)

ResourceSelected(m) ==
  /\ Take("resourceSelected", m)
  /\ Handled(m, store, [app EXCEPT !.ex = SetResource(@, m.arg)],
             <<Msg("analysisComplete", [uid |-> m.arg.res.uid, revs |-> Len(m.arg.revs)])>>)

RevisionSelected(m) ==
  LET shown == [app EXCEPT !.ex = ShowRevision(@, m.arg.data, m.arg.index)]
      revs  == m.arg.data.revs
  IN  /\ Take("revisionSelected", m)
      /\ Handled(m, store, IF m.arg.index + 1 \in DOMAIN revs THEN Anchor(shown, revs[m.arg.index + 1].time)
                           ELSE shown, <<>>)

TimelineEntrySelected(m) ==
  /\ Take("timelineEntrySelected", m)
  /\ Handled(m, store, Anchor([app EXCEPT !.tv = SelectEntry(@, store, m.arg)], m.arg.rev.time), <<>>)

(* toggleStar: of a resource that is gone nothing is refreshed. *)
ToggleStarred(m) ==
  /\ Take("toggleStar", m)
  /\ IF ~Stored(store, m.arg) THEN Handled(m, store, app, <<>>)
     ELSE \E s \in Regrouped(ToggleStar(store, m.arg)) :
            Handled(m, s, DeselectIf(~s.data[m.arg].res.starred /\ app.ex.tree.starredOnly /\ app.ex.tree.selected = m.arg,
                                     Refresh(app, s)), <<>>)

ViewModeChanged(m) ==
  Take("viewModeChanged", m) /\ Handled(m, store, SetViewMode(app, m.arg), <<>>)

CompareMark(m) ==
  LET d == m.arg.data
  IN  /\ Take("compareMark", m)
      /\ Handled(m, store,
           IF m.arg.index + 1 \in DOMAIN d.revs
           THEN [app EXCEPT !.marks = AddItem(@, [res |-> d.res, rev |-> d.revs[m.arg.index + 1]])] ELSE app, <<>>)

CompareClear(m) ==
  Take("compareClear", m) /\ Handled(m, store, [app EXCEPT !.marks = NoMarks], <<>>)

JumpToTimeline(m) ==
  /\ Take("jumpToTimeline", m)
  /\ Handled(m, store, [SwitchView(app, "timeline") EXCEPT !.tv = ScrollToEntry(@, store, m.arg)], <<>>)

(* AddWatchKindMsg and RemoveWatchKindMsg.  In a recording session they start *)
(* Mux.Add in a goroutine of its own, and do nothing to the watch.             *)
AddKind(m) ==
  /\ Take("addWatchKind", m)
  /\ \E s \in Regrouped(IF Simulating THEN SimAddWatchKind(store, m.arg) ELSE AddWatchKind(store, m.arg)) :
       Handled(m, s, RefreshManager(Refresh(app, s), s), <<>>)

RemoveKind(m) ==
  LET selected == GetResource(store, app.ex.tree.selected)
      ofKind   == selected # None /\ selected.res.kind = m.arg
  IN  /\ Take("removeWatchKind", m)
      /\ \E s \in Regrouped(IF Simulating THEN SimRemoveWatchKind(store, m.arg) ELSE RemoveWatchKind(store, m.arg)) :
           Handled(m, s, RefreshManager(DeselectIf(ofKind, Refresh(app, s)), s), <<>>)

ToggleTimelineStarred(m) ==
  /\ Take("toggleTimelineStarred", m)
  /\ Handled(m, store, RefreshTimeline([app EXCEPT !.starredOnly = ~@], store), <<>>)

ToggleExplorerStarred(m) ==
  LET d      == GetResource(store, app.ex.tree.selected)
      hidden == ~app.ex.tree.starredOnly /\ d # None /\ ~d.res.starred
  IN  /\ Take("toggleExplorerStarred", m)
      /\ Handled(m, store, DeselectIf(hidden, [app EXCEPT !.ex.tree = ToggleStarredOnly(@)]), <<>>)

SetAutoScrollOff(m) ==
  Take("setAutoScroll", m) /\ Handled(m, store, SetAutoScroll(app, m.arg), <<>>)

AnalysisComplete(m) ==
  /\ Take("analysisComplete", m)
  /\ Handled(m, store, [app EXCEPT !.analysis = (m.arg.uid :> m.arg.revs) @@ @], <<>>)

(* Only a simulation schedules a tick when the pause ends. *)
Pause(m) ==
  LET a == TogglePause(app)
  IN  /\ Take("togglePause", m)
      /\ Handled(m, store, a, IF Simulating /\ a.simulating THEN NextTick(store, a.epoch) ELSE <<>>)

Freeze(m) ==
  /\ Take("toggleFreeze", m)
  /\ IF ~app.frozen \/ app.buffer = <<>> THEN Handled(m, store, [app EXCEPT !.frozen = ~@], <<>>)
     ELSE \E s \in Regrouped(store) :
            Handled(m, s, FlushBuffer([app EXCEPT !.frozen = FALSE], s), <<>>)

(* SimulationTickMsg and handleSimulationTick; the next tick is drawn from    *)
(* what is stored after it.  Without a simulator a tick does nothing.          *)
SimulationTick(m) ==
  LET more(s) == IF app.simulating /\ Simulating THEN NextTick(s, app.epoch) ELSE <<>>
  IN  /\ Take("simulationTick", m) /\ (Simulating => store.nextID <= MaxRevision)
      /\ \E uid \in m.arg.uids :
           IF m.arg.epoch # app.epoch THEN Handled(m, store, app, <<>>)
           ELSE IF ~Simulating \/ ~Stored(store, uid) THEN Handled(m, store, app, more(store))
           ELSE \E s \in RegroupedUnlessFrozen(SimAddRevision(store, uid)) :
                  Handled(m, s, OnRevision(Shared(app, store, s), s, uid), more(s))

(* The messages that only the palette, the overlays or a filter send. *)
Plainly(m, type, a) == Take(type, m) /\ Handled(m, store, a, <<>>)

PaletteCommand(m) ==
  \/ Plainly(m, "switchView", SwitchView(app, m.arg))
  \/ Plainly(m, "focusPanel", FocusPanel(app, m.arg))
  \/ Plainly(m, "nextPanel", CyclePanel(app, NextPanel))
  \/ Plainly(m, "toggleFullscreen", [app EXCEPT !.fullscreen = ~@])
  \/ Plainly(m, "toggleAutoScroll", ToggleAutoScroll(app, store))
  \/ Plainly(m, "toggleWindowMode", CycleWindow(app))
  \/ Plainly(m, "showWatchManager", [app EXCEPT !.ov = ShowWatchManager(@, store)])
  \/ Plainly(m, "showHelp", [app EXCEPT !.ov = ShowPlain(@, "help")])
  \/ Plainly(m, "showDebugLog", [app EXCEPT !.ov = ShowPlain(@, "log")])
  \/ Plainly(m, "showDevConsole", [app EXCEPT !.ov = ShowConsole(@)])

ShowJump(m) ==
  \E all \in AllResources(store) : Plainly(m, "showQuickJump", [app EXCEPT !.ov = ShowQuickJump(@, all)])

Quit(m) ==
  /\ phase = "running" /\ m.type = "quit"
  /\ phase' = "quit" /\ pending' = pending (-) SetToBag({m})
  /\ UNCHANGED <<scenario, store, app, feed, sending, pressed>>

-----------------------------------------------------------------------------
(* Keys.  An overlay that is shown takes all of them, then a filter that is   *)
(* edited, then the keys that work everywhere, then the view that is shown.   *)
Press(key) ==
  /\ phase = "running" /\ key \in scenario.keys /\ pressed < scenario.presses
  /\ pressed' = pressed + 1
  /\ UNCHANGED sending

Pressed(step) == Becomes(store, step.panel, step.out, pending)

Global == app.ov.shown = {} /\ ~FilterEditing(app)

OverlayStep(step) == Step([app EXCEPT !.ov = step.panel], step.out)
KeyToOverlay(key) ==
  app.ov.shown # {} /\ Pressed(OverlayStep(OverlayKey(app.ov, key)))

KeyToFilter(key) ==
  /\ app.ov.shown = {} /\ FilterEditing(app)
  /\ Pressed(IF key = "ctrl+c" THEN Step(app, <<Msg("quit", 0)>>) ELSE ViewKey(app, store, key))

(* What the keys that work everywhere do, but for the messages they send. *)
GlobalKeys ==
  {"q", "ctrl+k", "?", "/", "f1", "f2", "f3", "tab", "shift+tab", "1", "2", "3", "f", "a", "w", "P", "f5",
   "W", "f6", ":"}
GlobalEffect(a, s, key) ==
  CASE key = "ctrl+k"    -> [a EXCEPT !.ov = ShowPalette(@)]
    [] key = "?"         -> [a EXCEPT !.ov = ShowPlain(@, "help")]
    [] key = "/"         -> StartPanelFilter(a)
    [] key = "f1"        -> SwitchView(a, "explorer")
    [] key = "f2"        -> SwitchView(a, "timeline")
    [] key = "f3"        -> SwitchView(a, "compare")
    [] key = "tab"       -> CyclePanel(a, NextPanel)
    [] key = "shift+tab" -> CyclePanel(a, PrevPanel)
    [] key = "1"         -> FocusPanel(a, "left")
    [] key = "2"         -> FocusPanel(a, "middle")
    [] key = "3"         -> FocusPanel(a, "right")
    [] key = "f"         -> [a EXCEPT !.fullscreen = ~@]
    [] key = "a"         -> ToggleAutoScroll(a, s)
    [] key = "w"         -> CycleWindow(a)
    [] key = "W"         -> [a EXCEPT !.ov = ShowWatchManager(@, s)]
    [] key = "f6"        -> [a EXCEPT !.ov = ShowPlain(@, "log")]
    [] key = ":"         -> [a EXCEPT !.ov = ShowConsole(@)]
    [] OTHER             -> a
GlobalMessage(key) ==
  CASE key = "q" -> <<Msg("quit", 0)>>
    [] key = "P" -> <<Msg("togglePause", 0)>>
    [] key = "f5" -> <<Msg("toggleFreeze", 0)>>
    [] OTHER -> <<>>

KeyToApp(key) ==
  /\ Global /\ key \in GlobalKeys
  /\ Pressed(Step(GlobalEffect(app, store, key), GlobalMessage(key)))

KeyToView(key) ==
  Global /\ key \notin GlobalKeys /\ Pressed(ViewKey(app, store, key))

-----------------------------------------------------------------------------
(* The other goroutines.  HandleRevision ingests and then sends; the loader   *)
(* ends with SortTimeline and a message for no resource; the discovery only   *)
(* sets the kinds that may be watched.  Send blocks until the loop takes the   *)
(* message or the program has ended.                                          *)
Work(sender, job) ==
  /\ sending[sender] = None /\ feed[sender] # <<>> /\ job = Head(feed[sender])
  /\ feed' = [feed EXCEPT ![sender] = Tail(@)]
  /\ UNCHANGED <<scenario, app, pending, pressed, phase>>

Sends(sender, uid) ==
  sending' = [sending EXCEPT ![sender] = IF phase = "running" THEN Msg("liveRevision", uid) ELSE None]

HandleRevision(sender) ==
  \E job \in Range(feed[sender]) :
    /\ Work(sender, job) /\ job.do = "ingest"
    /\ store' = IngestRevision(store, job.res, job.rev)
    /\ Sends(sender, job.res.uid)

SortHistory(sender) ==
  \E job \in Range(feed[sender]) :
    Work(sender, job) /\ job.do = "sort" /\ store' = SortTimeline(store) /\ Sends(sender, None)

DiscoverKinds(sender) ==
  \E job \in Range(feed[sender]) :
    Work(sender, job) /\ job.do = "discover" /\ store' = SetUnwatchedKinds(store, job.kinds) /\ UNCHANGED sending

(* LiveRevisionMsg and handleLiveRevision *)
LiveRevision(sender) ==
  /\ phase = "running" /\ sending[sender] # None
  /\ sending' = [sending EXCEPT ![sender] = None]
  /\ UNCHANGED pressed
  /\ \E s \in RegroupedUnlessFrozen(store) :
       Becomes(s, OnRevision(app, s, sending[sender].arg), <<>>, pending)

(* A Send that still waits when the program ends returns. *)
SendReturns(sender) ==
  /\ phase # "running" /\ sending[sender] # None
  /\ sending' = [sending EXCEPT ![sender] = None]
  /\ UNCHANGED <<scenario, store, app, pending, feed, pressed, phase>>

-----------------------------------------------------------------------------
Init ==
  /\ scenario \in Scenarios
  /\ store = scenario.store
  /\ app = NewApp(scenario.store, scenario.mode)
  /\ pending = MessagesIn(IF Simulating THEN NextTick(scenario.store, 0) ELSE <<>>)
  /\ feed = scenario.feed
  /\ sending = [s \in Senders |-> None]
  /\ pressed = 0
  /\ phase = "running"

Message ==
  \E m \in BagToSet(pending) :
    \/ ResourceSelected(m) \/ RevisionSelected(m) \/ TimelineEntrySelected(m)
    \/ ToggleStarred(m) \/ ToggleTimelineStarred(m) \/ ToggleExplorerStarred(m)
    \/ ViewModeChanged(m) \/ CompareMark(m) \/ CompareClear(m) \/ JumpToTimeline(m)
    \/ AddKind(m) \/ RemoveKind(m) \/ SetAutoScrollOff(m) \/ AnalysisComplete(m)
    \/ Pause(m) \/ Freeze(m) \/ SimulationTick(m)
    \/ PaletteCommand(m) \/ ShowJump(m) \/ Quit(m)

Key ==
  \E key \in scenario.keys :
    Press(key) /\ (KeyToOverlay(key) \/ KeyToFilter(key) \/ KeyToApp(key) \/ KeyToView(key))

Goroutine ==
  \E sender \in Senders :
    \/ HandleRevision(sender) \/ SortHistory(sender) \/ DiscoverKinds(sender)
    \/ LiveRevision(sender) \/ SendReturns(sender)

Next == Message \/ Key \/ Goroutine
Spec == Init /\ [][Next]_vars

-----------------------------------------------------------------------------
(* The store of a session: the timeline is what is stored, entry by entry,    *)
(* whatever the user stars, watches and removes while revisions arrive        *)
(* (livestore.go).  The simulation's store does without: a kind added twice    *)
(* leaves entries of resources that were replaced.                            *)
StoreStaysConsistent == ~Simulating => StoreIsConsistent(store)

(* Once every goroutine's message has been taken and the view is not frozen,  *)
(* the tree and the timeline show what is stored: no revision is missed by    *)
(* the views, in whatever order messages, freezing and stars met (app.go).    *)
Quiet == phase = "running" /\ ~app.frozen /\ \A s \in Senders : sending[s] = None
ShownGroups == {<<g.kind, Range(g.res)>> : g \in Range(app.ex.tree.groups)}
ViewsCatchUp ==
  Quiet => /\ ShownGroups = {<<store.data[u].res.kind, {store.data[v] : v \in OfKind(store, store.data[u].res.kind)}>> :
                                u \in DOMAIN store.data}
           /\ app.tv.list.entries = Entries(store, app.starredOnly)

(* With auto-scroll off a live revision moves neither cursor: the tree's stays *)
(* on its resource and the timeline's on the entry the user selected           *)
(* (components.go, buildItems and rebuild).                                    *)
TreeUnderCursor(t) ==
  IF HasItem(t.items, t.cursor) THEN <<t.items[t.cursor + 1].kind, UidOf(t.items[t.cursor + 1])>> ELSE <<>>
OnSelected(tl) == EntryAt(tl) # None /\ IsEntry(EntryAt(tl), tl.uid, tl.rev)
LiveStep == \E s \in Senders : sending[s] # None /\ sending'[s] = None /\ phase' = "running"
CursorSticks ==
  [][LiveStep /\ ~app.auto =>
       /\ TreeUnderCursor(app.ex.tree) # <<>> => TreeUnderCursor(app'.ex.tree) = TreeUnderCursor(app.ex.tree)
       /\ OnSelected(app.tv.list) => OnSelected(app'.tv.list)]_vars

(* Pausing and resuming never leaves two chains of simulation ticks running:  *)
(* at most one tick of the current epoch is on its way, whatever ticks of      *)
(* older chains still sleep (app.go, simEpoch).                                *)
OneTickChain ==
  \A m \in BagToSet(pending) :
    m.type = "simulationTick" /\ m.arg.epoch = app.epoch =>
      /\ pending[m] = 1
      /\ \A n \in BagToSet(pending) : n.type = "simulationTick" /\ n.arg.epoch = app.epoch => n = m

(* What UserInterfaceProofs shows every step to preserve: no tick that is on   *)
(* its way is of an epoch that has yet to begin.                               *)
TicksAreAccounted ==
  /\ "epoch" \in DOMAIN app /\ app.epoch \in Nat
  /\ \A m \in BagToSet(pending) :
       "type" \in DOMAIN m /\ (m.type = "simulationTick" => m.arg.epoch \in 0..app.epoch)
  /\ OneTickChain
=============================================================================
