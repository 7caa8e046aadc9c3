------------------------------- MODULE MCApp -------------------------------
(* The sessions of the App that TLC walks through: each a small store, a few *)
(* goroutine steps and the keys of one part of the UI.                        *)
EXTENDS App

(* Two kinds; a and b share theirs, c is alone. *)
a == [uid |-> 1, kind |-> 1, name |-> 1, starred |-> FALSE, created |-> 1]
b == [uid |-> 2, kind |-> 1, name |-> 2, starred |-> FALSE, created |-> 2]
c == [uid |-> 3, kind |-> 2, name |-> 1, starred |-> FALSE, created |-> 3]

Rev(id, n)         == [id |-> id, rv |-> n, time |-> 10 * n, obj |-> None, event |-> "modified"]
Ingest(res, id, n) == [do |-> "ingest", res |-> res, rev |-> Rev(id, n)]
Feeds(collected, loaded, discovered) ==
  [collector |-> collected, loader |-> loaded, discovery |-> discovered]
Idle == Feeds(<<>>, <<>>, <<>>)

(* A store that has been filled by the loader before the UI starts. *)
Filled(jobs) ==
  LET s == SortTimeline(FoldLeft(LAMBDA acc, job : IngestRevision(acc, job.res, job.rev), EmptyStore, jobs))
  IN  RebuildKindGroups(s, CHOOSE all \in AllResources(s) : TRUE)

Session(mode, s, work, keys, presses) ==
  [mode |-> mode, store |-> s, feed |-> work, keys |-> keys, presses |-> presses]

(* The capture that is browsed; revision numbers are an object's own. *)
Recorded == <<Ingest(a, 1, 2), Ingest(a, 2, 3), Ingest(b, 1, 1), Ingest(c, 1, 4)>>

Typing(names) == {"name" \o ToString(i) : i \in names}

(* Recording: live revisions while the cursor moves, with and without        *)
(* auto-scroll, stars and a frozen view.                                      *)
Following == Session("record", EmptyStore, Feeds(<<Ingest(a, 1, 1), Ingest(b, 1, 3), Ingest(a, 2, 4)>>, <<>>, <<>>),
                     {"a", "j", "k", "pgdown", "q"}, 3)
Freezing  == Session("record", EmptyStore, Feeds(<<Ingest(a, 1, 1), Ingest(b, 1, 2)>>, <<>>, <<>>),
                     {"f5", "j", "s", "S"}, 4)
(* The loader's history of a file that is appended to, and live revisions. *)
Appending == Session("record", EmptyStore,
                     Feeds(<<Ingest(a, 2, 3)>>, <<Ingest(a, 1, 1), Ingest(b, 1, 2), [do |-> "sort"]>>, <<>>),
                     {"f2", "enter", "a", "j"}, 3)
(* Kinds that are watched, removed and discovered. *)
Kinds     == Session("record", EmptyStore,
                     Feeds(<<Ingest(a, 1, 1), Ingest(c, 1, 2)>>, <<>>, <<[do |-> "discover", kinds |-> {1, 2}]>>),
                     {"W", "tab", "enter", "esc"}, 4)
Removing  == Session("record", EmptyStore, Feeds(<<Ingest(a, 1, 1), Ingest(c, 1, 2)>>, <<>>, <<>>),
                     {"W", "enter", "j", "s"}, 4)
(* Browsing a capture: the panels of the explorer, then the timeline. *)
Browsing  == Session("replay", Filled(Recorded), Idle, {"tab", "j", "enter", "c", "[", "t", "o"}, 5)
Reading   == Session("replay", Filled(Recorded), Idle, {"j", "enter", "w", "R", "f2", "S", "G"}, 5)
Finding   == Session("replay", Filled(Recorded), Idle, {"/", "enter", "esc", "f2", "j"} \union Typing({0, 2}), 5)
Comparing == Session("replay", Filled(Recorded), Idle, {"f3", "f2", "c", "X", "pgup", "P", "O"}, 4)
(* Overlays: every command of the palette, the console, help and the log. *)
Commanding == Session("replay", Filled(<<Ingest(a, 1, 1)>>), Idle,
                      {"ctrl+k", "enter"} \union Typing(1..Len(Commands)), 3)
Talking   == Session("record", EmptyStore, Feeds(<<Ingest(a, 1, 1)>>, <<>>, <<>>),
                     {":", "sim stop", "enter", "up", "down", "esc"}, 5)
Helping   == Session("replay", Filled(<<Ingest(a, 1, 1)>>), Idle,
                     {"?", "f6", "q", "f", "f1", "1", "2", "3", "shift+tab", "esc"}, 3)
(* The simulation: ticks, pauses, a frozen view, kinds added and removed. *)
Simulated(keys, presses) ==
  LET s == Rewatched(WithRevision(EmptyStore, [res |-> a, revs |-> <<>>], Rev(1, 0)) @@ [nextID |-> 2])
  IN  Session("simulate", RebuildKindGroups(s, <<s.data[1]>>), Idle, keys, presses)
Pausing  == Simulated({"P", "f5", "j"}, 4)
Changing == Simulated({"W", "tab", "enter"}, 4)

MCScenarios == {Following, Freezing, Appending, Kinds, Removing, Browsing, Reading, Finding, Comparing,
                Commanding, Talking, Helping, Pausing, Changing}
MCDummies   == << <<b>>, <<c>> >>
MCPreferred == <<1>>

(* The ring of DebugLog holds what was logged last, oldest first, however     *)
(* often it has wrapped and wherever it was cleared.                          *)
ASSUME LogKeepsTheNewest ==
  \A n \in 0..8, cleared \in 0..4, size \in 1..3 :
    LET after(log, m) == FoldLeft(LogAppend, log, [i \in 1..m |-> i])
        log == after(LogClear(after(NewLog(size), cleared)), n)
    IN  LogEntries(log) = [i \in 1..Min({n, size}) |-> Max({0, n - size}) + i]
=============================================================================
