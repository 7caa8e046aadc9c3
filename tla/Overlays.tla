------------------------------ MODULE Overlays ------------------------------
(***************************************************************************)
(* internal/tui/command_palette.go, commands.go, debug.go and help.go: the *)
(* modal overlays, which take every key while they are shown, and the log   *)
(* the program keeps of itself.                                             *)
(*                                                                         *)
(* The record of all overlays is [shown, palette, jump, jumpTo, watch,      *)
(* console]; shown is the set of those visible, of which a message that     *)
(* arrives late can make it several.                                        *)
(***************************************************************************)
EXTENDS Panels

(* A searchable list [query, names, cursor]: the query is a name, 0 for none. *)
Search(names) == [query |-> 0, names |-> names, cursor |-> 0]

(* fuzzyMatchAll: the places of the names that match. *)
Found(s) == SelectSeq([i \in DOMAIN s.names |-> i], LAMBDA i : s.query \in {0, s.names[i]})
Matched(s) == IF s.cursor >= Len(Found(s)) THEN [s EXCEPT !.cursor = 0] ELSE s

(* The place under the cursor, 0 for none. *)
Chosen(s) == IF HasItem(Found(s), s.cursor) THEN Found(s)[s.cursor + 1] ELSE 0

SearchKey(s, key) ==
  CASE key = "up"   -> [s EXCEPT !.cursor = Moved("k", @, Len(Found(s)))]
    [] key = "down" -> [s EXCEPT !.cursor = Moved("j", @, Len(Found(s)))]
    [] key \in DOMAIN Typed -> Matched([s EXCEPT !.query = Typed[key]])
    [] OTHER        -> s

(* NewCommandRegistry, in its order. *)
Commands ==
  <<Msg("switchView", "explorer"), Msg("switchView", "timeline"), Msg("switchView", "compare"),
    Msg("focusPanel", "left"), Msg("focusPanel", "middle"), Msg("focusPanel", "right"), Msg("nextPanel", 0),
    Msg("viewModeChanged", "diff"), Msg("viewModeChanged", "object"), Msg("viewModeChanged", "patch"),
    Msg("viewModeChanged", "json"), Msg("viewModeChanged", "raw"), Msg("showQuickJump", 0),
    Msg("toggleFullscreen", 0), Msg("toggleAutoScroll", 0), Msg("toggleWindowMode", 0), Msg("togglePause", 0),
    Msg("toggleFreeze", 0), Msg("showWatchManager", 0), Msg("showHelp", 0), Msg("quit", 0),
    Msg("toggleTimelineStarred", 0), Msg("compareClear", 0), Msg("showDebugLog", 0), Msg("showDevConsole", 0)>>

(* The watch manager [tab, watched, available], two searchable lists. *)
Ascending(kinds) == SetToSortSeq(kinds, <)
NewWatchManager(s) ==
  [tab |-> "watching", watched |-> Search(Ascending(s.watched)), available |-> Search(Ascending(s.unwatched))]

(* Refresh: new names, the old tab and queries; the cursors are clamped. *)
RefreshWatchManager(wm, s) ==
  [wm EXCEPT !.watched   = Matched([@ EXCEPT !.names = Ascending(s.watched)]),
             !.available = Matched([@ EXCEPT !.names = Ascending(s.unwatched)])]

(* The console [text, history, at]: at is the recalled line, 0 for none. *)
NewConsole == [text |-> "", history |-> <<>>, at |-> 0]

NoOverlays == [shown |-> {}, palette |-> Search(<<>>), jump |-> Search(<<>>), jumpTo |-> <<>>,
               watch |-> [tab |-> "watching", watched |-> Search(<<>>), available |-> Search(<<>>)],
               console |-> NewConsole]

(* Show of each; the quick jump keeps the resources as they are now. *)
ShowPalette(ov) ==
  [ov EXCEPT !.shown = @ \union {"palette"}, !.palette = Search([i \in DOMAIN Commands |-> i])]
ShowQuickJump(ov, all) ==
  [ov EXCEPT !.shown = @ \union {"jump"}, !.jumpTo = all,
             !.jump  = Search([i \in DOMAIN all |-> all[i].res.name])]
ShowWatchManager(ov, s) == [ov EXCEPT !.shown = @ \union {"watch"}, !.watch = NewWatchManager(s)]
ShowConsole(ov) == [ov EXCEPT !.shown = @ \union {"console"}, !.console.text = "", !.console.at = 0]
ShowPlain(ov, name) == [ov EXCEPT !.shown = @ \union {name}]         \* help and debug log
HideOverlay(ov, name) == [ov EXCEPT !.shown = @ \ {name}]

(* CommandPalette.Update and QuickJump.Update: both end with enter. *)
PaletteKey(ov, key) ==
  LET choice == Chosen(ov.palette)
  IN  CASE key \in {"esc", "ctrl+k"} -> Step(HideOverlay(ov, "palette"), <<>>)
        [] key = "enter" -> Step(HideOverlay(ov, "palette"), IF choice \in DOMAIN Commands THEN <<Commands[choice]>> ELSE <<>>)
        [] OTHER         -> Step([ov EXCEPT !.palette = SearchKey(@, key)], <<>>)

QuickJumpKey(ov, key) ==
  LET choice == Chosen(ov.jump)
  IN  CASE key \in {"esc", "/"} -> Step(HideOverlay(ov, "jump"), <<>>)
        [] key = "enter" -> Step(HideOverlay(ov, "jump"),
                                 IF choice = 0 THEN <<>> ELSE <<Msg("resourceSelected", ov.jumpTo[choice])>>)
        [] OTHER         -> Step([ov EXCEPT !.jump = SearchKey(@, key)], <<>>)

(* WatchManager.Update, updateWatching and updateAdd: the manager stays open, *)
(* and a key pressed before the App has refreshed it acts on the old lists.   *)
WatchManagerKey(ov, key) ==
  LET wm     == ov.watch
      list   == IF wm.tab = "watching" THEN wm.watched ELSE wm.available
      choice == Chosen(list)
      act    == IF wm.tab = "watching" THEN "removeWatchKind" ELSE "addWatchKind"
      moved  == SearchKey(list, key)
  IN  CASE key = "esc" -> Step(HideOverlay(ov, "watch"), <<>>)
        [] key = "tab" -> Step([ov EXCEPT !.watch.tab = IF @ = "watching" THEN "add" ELSE "watching"], <<>>)
        [] key = "enter" \/ (key = "delete" /\ wm.tab = "watching") ->
             Step(ov, IF choice = 0 THEN <<>> ELSE <<Msg(act, list.names[choice])>>)
        [] OTHER -> Step(IF wm.tab = "watching" THEN [ov EXCEPT !.watch.watched = moved]
                                                ELSE [ov EXCEPT !.watch.available = moved], <<>>)

(* DevConsole.execute, of which only sim reaches the App: start and stop      *)
(* both toggle.                                                               *)
Execute(line) == IF line \in {"sim start", "sim stop"} THEN <<Msg("togglePause", 0)>> ELSE <<>>

(* DevConsole.Update: up and down walk the history. *)
ConsoleKey(ov, key) ==
  LET c     == ov.console
      at    == IF c.at = 0 THEN Len(c.history) ELSE Max({c.at - 1, 1})
      recall(i) == [ov EXCEPT !.console.at = i, !.console.text = IF i = 0 THEN "" ELSE c.history[i]]
      typed == [ov EXCEPT !.console = [text    |-> "",
                                       history |-> IF c.text = "" THEN @.history ELSE Append(@.history, c.text),
                                       at      |-> IF c.text = "" THEN @.at ELSE 0]]
  IN  CASE key = "esc"   -> Step(HideOverlay(ov, "console"), <<>>)
        [] key = "enter" -> Step(typed, Execute(c.text))
        [] key = "up"    -> Step(IF c.history = <<>> THEN ov ELSE recall(at), <<>>)
        [] key = "down"  -> Step(IF c.at = 0 THEN ov ELSE recall(IF c.at = Len(c.history) THEN 0 ELSE c.at + 1), <<>>)
        [] OTHER         -> Step([ov EXCEPT !.console.text = key], <<>>)

(* HelpOverlay.Update and DebugLogViewer.Update only scroll and filter. *)
PlainKey(ov, name, key) ==
  Step(IF key = "esc" \/ (name = "help" /\ key \in {"?", "q"}) \/ (name = "log" /\ key = "f6")
       THEN HideOverlay(ov, name) ELSE ov, <<>>)

(* Update's order: the first of these that is visible has the key. *)
OverlayOrder == <<"palette", "help", "jump", "watch", "log", "console">>
OverlayKey(ov, key) ==
  LET first == Head(SelectSeq(OverlayOrder, LAMBDA name : name \in ov.shown))
  IN  CASE first = "palette" -> PaletteKey(ov, key)
        [] first = "jump"    -> QuickJumpKey(ov, key)
        [] first = "watch"   -> WatchManagerKey(ov, key)
        [] first = "console" -> ConsoleKey(ov, key)
        [] OTHER             -> PlainKey(ov, first, key)

-----------------------------------------------------------------------------
(* DebugLog, the ring [entries, head, count]; size is len(entries).          *)
NewLog(size) == [entries |-> [i \in 0..(size - 1) |-> None], head |-> 0, count |-> 0]
LogAppend(log, e) ==
  LET size == Cardinality(DOMAIN log.entries)
      full == log.count = size
  IN  [entries |-> [log.entries EXCEPT ![(log.head + log.count) % size] = e],
       head    |-> IF full THEN (log.head + 1) % size ELSE log.head,
       count   |-> IF full THEN log.count ELSE log.count + 1]
LogEntries(log) ==
  [i \in 1..log.count |-> log.entries[(log.head + i - 1) % Cardinality(DOMAIN log.entries)]]
LogClear(log) == [log EXCEPT !.head = 0, !.count = 0]
=============================================================================
