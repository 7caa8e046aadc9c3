-------------------------- MODULE MCHistoryLoader --------------------------
(* Small instances of HistoryLoader for TLC.                                 *)
EXTENDS HistoryLoader, MCTracker

(* The filter lets versions with a spec pass. *)
WithSpec == {o \in ThreeVersions : "spec" \in DOMAIN o}

(* A capture is recorded headless and replayed, or recorded with the TUI. *)
MCUses == {{"headless", "replay"}, {"interactive"}}
=============================================================================
