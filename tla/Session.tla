------------------------------ MODULE Session ------------------------------
(***************************************************************************)
(* cmd/root.go and the opening and closing of the store: the process from   *)
(* the check of its flags to its exit, again and again over the same files. *)
(* The main goroutine sets up the parts of a session one by one, remembering *)
(* how to undo each (cleanups), runs the UI or waits for a signal, waits for *)
(* the goroutines it counts, and undoes the set-up from the last part to     *)
(* the first.  Next to it run the collector, the loader of the history and    *)
(* the store's background sync.                                               *)
(*                                                                         *)
(* A commit and a walk are single steps here: what happens inside them, and  *)
(* that a walk can wait for a commit and a commit for the walk, is in         *)
(* HistoryLoader.  The goroutines that add a watch or discover kinds touch    *)
(* neither store nor tracker and end with the process.                        *)
(***************************************************************************)
EXTENDS Naturals, Sequences

CONSTANTS
  Files,                  \* the names a capture can have
  None,
  MaxHistory,             \* the revisions a loader hands over, at most: a bound of the model
  S2MayRead               \* an s2 block can begin like an empty msgpack value

(* A record as it is stored: compressed or not, and whether its bytes as     *)
(* they are unmarshal.                                                       *)
Records == [s2 : BOOLEAN, reads : BOOLEAN]

ASSUME SessionAssumption ==
  /\ None \notin Files /\ \A records \in SUBSET Records : records # None
  /\ MaxHistory \in Nat
  /\ S2MayRead \in BOOLEAN

VARIABLES
  files,                  \* each file's set of record encodings, or None: it does not exist
  p                       \* the process

vars == <<files, p>>

(* No process; the values a field of p can take are                         *)
(*   main       "idle", "setup", "run", "wait", "cleanup"                    *)
(*   todo       what is left of the set-up; cleanups what is to be undone     *)
(*   store, tracker, mux  "none", "open", "closed"; compress the store's way  *)
(*   syncer     syncLoop: "off", "waiting", "syncing", "done"; stopSync its   *)
(*              channel is closed                                          *)
(*   ui         the tea.Program: "off", "running", "ended"                    *)
(*   collector  "off", "select", "commit", "get", "send", "done"              *)
(*   loader     "off", "ready", "walk", "send", "last", "done", with the      *)
(*              revisions it has still to walk (history)                      *)
NoProcess ==
  [flags |-> None, file |-> None, main |-> "idle", todo |-> <<>>, cleanups |-> <<>>,
   store |-> "none", tracker |-> "none", mux |-> "none", compress |-> FALSE, syncer |-> "off",
   stopSync |-> FALSE, cancelled |-> FALSE, ui |-> "off", collector |-> "off", loader |-> "off", history |-> 0]

(* How a record is stored.  An s2 block begins with the length of what it     *)
(* holds, whose first byte can be that of a msgpack nil, empty map or empty array:    *)
(* the decoder, external, takes each for a record without fields.             *)
Encodings(s2) ==
  {[s2 |-> s2, reads |-> r] : r \in IF ~s2 THEN {TRUE} ELSE IF S2MayRead THEN BOOLEAN ELSE {FALSE}}

(* A plausible bug: the option is believed. *)
BelieveTheOption(records, option) == {option}

(* detectCompression: what the first record, by key, says; any can be first. *)
Detected(records, option) ==
  IF records = {} THEN {option} ELSE {e.s2 /\ ~e.reads : e \in records}

(* parsePatchOrSnapshot *)
Parses(e, s2) == e.s2 = s2

-----------------------------------------------------------------------------
(* The command line, of which validateArgsAndFlags lets through: a capture to *)
(* replay that exists; an output file that does not, unless it is appended to. *)
Flags ==
  [mode : {"headless", "interactive", "replay"}, output : Files \union {None},
   append : BOOLEAN, compress : BOOLEAN, durable : BOOLEAN]

Valid(f) ==
  IF f.mode = "replay" THEN f.output # None /\ files[f.output] # None /\ ~f.append
  ELSE f.output # None /\ ~f.append => files[f.output] = None

SetupOf(f) ==
  IF f.mode = "replay" THEN <<"open", "filter", "load">>
  ELSE (IF f.output = None THEN <<"temp">> ELSE <<>>) \o <<"filter", "open", "kube", "watch">>

Start(f) ==
  /\ p.main = "idle" /\ Valid(f)
  /\ p' = [NoProcess EXCEPT !.flags = f, !.file = f.output, !.main = "setup", !.todo = SetupOf(f)]
  /\ UNCHANGED files

(* One step of runReplayMode and setupProduction.  The first error ends the   *)
(* set-up, and what is done so far is undone.                                 *)
SetsUp(step) == p.main = "setup" /\ p.todo # <<>> /\ Head(p.todo) = step
Done(q)      == [q EXCEPT !.todo = Tail(@)]
Undo(q, what) == [q EXCEPT !.cleanups = Append(@, what)]

(* os.CreateTemp; only an interactive session removes the file again. *)
CreateTemp ==
  \E f \in Files :
    /\ SetsUp("temp") /\ files[f] = None
    /\ files' = [files EXCEPT ![f] = {}]
    /\ p' = LET q == Done([p EXCEPT !.file = f]) IN IF p.flags.mode = "headless" THEN q ELSE Undo(q, "remove")

(* NewWithOptions and NewTrackerService. *)
OpenStore ==
  LET records == IF files[p.file] = None THEN {} ELSE files[p.file]
      replay  == p.flags.mode = "replay"
      opened(s2) == [p EXCEPT !.store = "open", !.tracker = "open", !.compress = s2,
                              !.syncer = IF p.flags.durable /\ ~replay THEN "waiting" ELSE "off"]
  IN  /\ SetsUp("open")
      /\ files' = [files EXCEPT ![p.file] = records]
      /\ \E s2 \in Detected(records, p.flags.compress /\ ~replay) :
           p' = Done(Undo(Undo(opened(s2), "store"), "tracker"))

StartMux == SetsUp("kube") /\ p' = Done(Undo([p EXCEPT !.mux = "open"], "mux")) /\ UNCHANGED files

(* The filter is compiled, the first watches added, the capture loaded. *)
PlainStep ==
  /\ \E step \in {"filter", "watch", "load"} : SetsUp(step)
  /\ p' = Done(p)
  /\ UNCHANGED files

SetupFails ==
  /\ p.main = "setup" /\ p.todo # <<>>
  /\ p' = [p EXCEPT !.main = "cleanup"]
  /\ UNCHANGED files

(* runHeadless and runInteractive start their goroutines. *)
Launch ==
  /\ p.main = "setup" /\ p.todo = <<>>
  /\ \E n \in 0..MaxHistory :
       LET tui  == p.flags.mode # "headless"
           live == p.flags.mode = "interactive"
       IN  p' = [p EXCEPT !.main      = "run",
                          !.ui        = IF tui THEN "running" ELSE "off",
                          !.collector = IF p.flags.mode = "replay" THEN "off" ELSE "select",
                          !.loader    = IF live THEN "ready" ELSE "off",
                          !.history   = IF live THEN n ELSE 0]
  /\ UNCHANGED files

(* The user quits the UI, or interrupts a session without one; the context   *)
(* is cancelled.  A replay has nothing to wait for.                           *)
Quit ==
  /\ p.main = "run"
  /\ p' = [p EXCEPT !.ui = IF @ = "running" THEN "ended" ELSE @,
                    !.cancelled = TRUE,
                    !.main = IF p.flags.mode = "replay" THEN "cleanup" ELSE "wait"]
  /\ UNCHANGED files

(* A plausible bug: the loader is not among the goroutines waited for. *)
WaitForCollector ==
  /\ p.main = "wait" /\ p.collector = "done"
  /\ p' = [p EXCEPT !.main = "cleanup"]
  /\ UNCHANGED files

(* wg.Wait *)
Wait ==
  /\ p.main = "wait" /\ p.collector = "done" /\ p.loader \in {"off", "done"}
  /\ p' = [p EXCEPT !.main = "cleanup"]
  /\ UNCHANGED files

-----------------------------------------------------------------------------
(* The deferred clean-up, from the last part to the first. *)
CleansUp(what) == p.main = "cleanup" /\ p.cleanups # <<>> /\ p.cleanups[Len(p.cleanups)] = what
Undone(q) == [q EXCEPT !.cleanups = SubSeq(@, 1, Len(@) - 1)]

StopMux      == CleansUp("mux") /\ p' = Undone([p EXCEPT !.mux = "closed"]) /\ UNCHANGED files
CloseTracker == CleansUp("tracker") /\ p' = Undone([p EXCEPT !.tracker = "closed"]) /\ UNCHANGED files

(* Store.Close stops the background sync and waits for it before it closes.  *)
StopSync ==
  /\ CleansUp("store") /\ p.syncer # "off" /\ ~p.stopSync
  /\ p' = [p EXCEPT !.stopSync = TRUE]
  /\ UNCHANGED files
CloseStore ==
  /\ CleansUp("store") /\ p.syncer \in {"off", "done"}
  /\ p' = Undone([p EXCEPT !.store = "closed"])
  /\ UNCHANGED files
RemoveTemp == CleansUp("remove") /\ p' = Undone(p) /\ files' = [files EXCEPT ![p.file] = None]

Exit == p.main = "cleanup" /\ p.cleanups = <<>> /\ p' = NoProcess /\ UNCHANGED files

(* The process is killed, or the machine fails, when what was not synced of   *)
(* the file may be lost.                                                      *)
Killed ==
  /\ p.main # "idle"
  /\ p' = NoProcess
  /\ \/ UNCHANGED files
     \/ /\ p.store = "open" /\ p.flags.mode # "replay"
        /\ \E left \in SUBSET files[p.file] : files' = [files EXCEPT ![p.file] = left]

-----------------------------------------------------------------------------
(* syncLoop *)
Sync ==
  /\ p.syncer \in {"waiting", "syncing"}
  /\ p' = [p EXCEPT !.syncer = IF @ = "waiting" THEN "syncing" ELSE "waiting"]
  /\ UNCHANGED files
EndSync == p.syncer = "waiting" /\ p.stopSync /\ p' = [p EXCEPT !.syncer = "done"] /\ UNCHANGED files

(* A plausible bug: only a running program lets go of a message. *)
SentWhileRunning == p.ui = "running"

(* Program.Send waits until the event loop takes the message, and returns     *)
(* when the program has ended.                                                *)
Sent == p.ui # "off"

(* runCollector: an event to commit, or one that the filter refuses. *)
Receive == p.collector = "select" /\ p' = [p EXCEPT !.collector = "commit"] /\ UNCHANGED files
Commit ==
  /\ p.collector = "commit"
  /\ \/ /\ \E e \in Encodings(p.compress) : files' = [files EXCEPT ![p.file] = @ \union {e}]
        /\ p' = [p EXCEPT !.collector = "get"]
     \/ /\ p' = [p EXCEPT !.collector = "select"]          \* a duplicate, or an error
        /\ UNCHANGED files
HandleRevision ==
  /\ p.collector = "get"
  /\ p' = [p EXCEPT !.collector = IF p.flags.mode = "headless" THEN "select" ELSE "send"]
  /\ UNCHANGED files
CollectorSends ==
  /\ p.collector = "send" /\ Sent
  /\ p' = [p EXCEPT !.collector = "select"]
  /\ UNCHANGED files
StopCollecting ==
  /\ p.collector = "select" /\ p.cancelled
  /\ p' = [p EXCEPT !.collector = "done"]
  /\ UNCHANGED files

(* The loader waits for the program, walks the history, which no context      *)
(* ends early, and tells the UI that it is sorted.                            *)
BeginLoad == p.loader = "ready" /\ Sent /\ p' = [p EXCEPT !.loader = "walk"] /\ UNCHANGED files
Walk ==
  /\ p.loader = "walk" /\ p.history > 0
  /\ \E pc \in {"walk", "send"} :                           \* the filter refuses it, or not
       p' = [p EXCEPT !.loader = pc, !.history = @ - 1]
  /\ UNCHANGED files
LoaderSends == p.loader = "send" /\ Sent /\ p' = [p EXCEPT !.loader = "walk"] /\ UNCHANGED files
SortHistory ==
  /\ p.loader = "walk" /\ p.history = 0
  /\ p' = [p EXCEPT !.loader = "last"]
  /\ UNCHANGED files
EndLoad == p.loader = "last" /\ Sent /\ p' = [p EXCEPT !.loader = "done"] /\ UNCHANGED files

-----------------------------------------------------------------------------
SettingUp == CreateTemp \/ OpenStore \/ StartMux \/ PlainStep \/ Launch
Ending    == Wait \/ StopMux \/ CloseTracker \/ StopSync \/ CloseStore \/ RemoveTemp \/ Exit
Handling  == Commit \/ HandleRevision \/ CollectorSends
Loading   == BeginLoad \/ Walk \/ LoaderSends \/ SortHistory \/ EndLoad

Next ==
  \/ \E f \in Flags : Start(f)
  \/ SettingUp \/ SetupFails \/ Quit \/ Ending \/ Killed
  \/ Sync \/ EndSync \/ Receive \/ Handling \/ StopCollecting \/ Loading

(* Each goroutine goes on.  A select takes one of its ready cases at random,  *)
(* so neither the cancellation nor the closed channel is passed over for ever. *)
Fairness ==
  /\ WF_vars(Ending) /\ WF_vars(Sync) /\ WF_vars(Handling) /\ WF_vars(Loading)
  /\ SF_vars(StopCollecting) /\ SF_vars(EndSync)

Init == files = [f \in Files |-> None] /\ p = NoProcess

Spec     == Init /\ [][Next]_vars
FairSpec == Spec /\ Fairness

-----------------------------------------------------------------------------
(* Nothing that is closed is used: neither the collector nor the loader       *)
(* commits, reads or warms the cache, and the background sync does not run,    *)
(* once the tracker or the store is closed (root.go, the deferred cleanup).   *)
NothingUsedAfterClose ==
  /\ p.collector = "commit" \/ p.loader = "walk" => p.store = "open" /\ p.tracker = "open"
  /\ p.collector = "get" \/ p.syncer \in {"waiting", "syncing"} => p.store = "open"

(* "aligns s.compress with how the file was actually written" (helpers.go):    *)
(* whatever options the sessions of a file are given, and whatever a crash      *)
(* leaves of it, an open store parses every record of its file.               *)
RecordsReadable ==
  p.store = "open" => \A e \in files[p.file] : Parses(e, p.compress)

(* A session that is told to end does: no goroutine it waits for stays in a    *)
(* Send to a program that is gone, in its loop, or in the background sync.     *)
SessionsEnd == p.main \in {"wait", "cleanup"} ~> p.main = "idle"

-----------------------------------------------------------------------------
(* What the proofs of SessionProofs show every step to preserve.             *)
Modes  == {"headless", "interactive", "replay"}
Steps  == {"temp", "filter", "open", "kube", "watch", "load"}
Parts  == {"remove", "store", "tracker", "mux"}
Phases == {"none", "open", "closed"}

Processes ==
  [flags : Flags \union {None}, file : Files \union {None},
   main : {"idle", "setup", "run", "wait", "cleanup"}, todo : Seq(Steps), cleanups : Seq(Parts),
   store : Phases, tracker : Phases, mux : Phases, compress : BOOLEAN,
   syncer : {"off", "waiting", "syncing", "done"}, stopSync : BOOLEAN, cancelled : BOOLEAN,
   ui : {"off", "running", "ended"}, collector : {"off", "select", "commit", "get", "send", "done"},
   loader : {"off", "ready", "walk", "send", "last", "done"}, history : 0..MaxHistory]

(* The type of the two variables. *)
TypeOK == files \in [Files -> (SUBSET Records) \union {None}] /\ p \in Processes

(* Where a sequence has an element. *)
Contains(seq, x) == \E i \in 1..Len(seq) : seq[i] = x

(* A file is made only as the first thing, and a set-up that has not opened   *)
(* the store has it still to do, in a file that is known by then.            *)
SetupIsOrdered ==
  p.main = "setup" =>
    /\ \A i \in 1..Len(p.todo) : p.todo[i] = "temp" => i = 1 /\ p.cleanups = <<>>
    /\ Contains(p.todo, "open") \/ (p.store = "open" /\ p.tracker = "open")
    /\ p.file # None \/ Contains(p.todo, "temp")

(* A file is removed after all else, and an open store has still to be closed. *)
CleanupsAreNested ==
  /\ \A i \in 1..Len(p.cleanups) : p.cleanups[i] = "remove" => i = 1
  /\ p.store = "open" => Contains(p.cleanups, "store")

(* The goroutines run between the set-up and the clean-up only, and a replay *)
(* has none.                                                                 *)
WorkersAreWaitedFor ==
  /\ p.main \in {"run", "wait"} => p.store = "open" /\ p.tracker = "open"
  /\ p.collector \notin {"off", "done"} \/ p.loader \notin {"off", "done"} => p.main \in {"run", "wait"}
  /\ p.main = "run" /\ p.flags.mode = "replay" => p.collector = "off" /\ p.loader = "off"
  /\ p.syncer \in {"waiting", "syncing"} => p.store = "open"

(* An open store has its file. *)
OpenFileExists == p.store = "open" => p.file \in Files /\ files[p.file] # None

SessionInv == TypeOK /\ SetupIsOrdered /\ CleanupsAreNested /\ WorkersAreWaitedFor /\ OpenFileExists

(* The records of a file agree with each other, and an open store with them. *)
FilesAgree ==
  /\ \A f \in Files : files[f] # None =>
       \A e, d \in files[f] : e.s2 = d.s2 /\ e.reads = ~e.s2
  /\ RecordsReadable
=============================================================================
