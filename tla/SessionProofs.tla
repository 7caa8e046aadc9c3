--------------------------- MODULE SessionProofs ---------------------------
(***************************************************************************)
(* Proofs about Session, for any files, any flags, any number of sessions   *)
(* over the same files, and set-ups that fail and processes that are killed *)
(* anywhere.                                                               *)
(***************************************************************************)
EXTENDS Session, SequenceTheorems, TLAPS

(* What a set-up consists of: a file is made first if at all, and the store  *)
(* is opened in any case.                                                    *)
LEMMA SetupSteps ==
  ASSUME NEW f \in Flags, f.mode = "replay" => f.output # None
  PROVE  /\ SetupOf(f) \in Seq(Steps)
         /\ \A i \in 1..Len(SetupOf(f)) : SetupOf(f)[i] = "temp" => i = 1
         /\ Contains(SetupOf(f), "open")
         /\ f.output # None \/ Contains(SetupOf(f), "temp")
<1> DEFINE live == <<"filter", "open", "kube", "watch">>
<1>1. CASE f.mode = "replay"
  <2>1. SetupOf(f) = <<"open", "filter", "load">>
    BY <1>1 DEF SetupOf
  <2>2. QED
    BY <2>1, <1>1 DEF Steps, Contains
<1>2. CASE f.mode # "replay" /\ f.output = None
  <2> DEFINE s == <<"temp">> \o live
  <2>1. /\ s \in Seq(Steps) /\ Len(s) = 5
        /\ s[1] = "temp" /\ s[2] = "filter" /\ s[3] = "open" /\ s[4] = "kube" /\ s[5] = "watch"
    BY DEF Steps
  <2>2. SetupOf(f) = s
    BY <1>2 DEF SetupOf
  <2> HIDE DEF s
  <2>3. \A i \in 1..Len(s) : s[i] = "temp" => i = 1
    BY <2>1
  <2>4. Contains(s, "open") /\ Contains(s, "temp")
    BY <2>1 DEF Contains
  <2>5. QED
    BY <2>1, <2>2, <2>3, <2>4
<1>3. CASE f.mode # "replay" /\ f.output # None
  <2>1. live \in Seq(Steps) /\ <<>> \o live = live
    BY DEF Steps
  <2>2. SetupOf(f) = live
    BY <1>3, <2>1 DEF SetupOf
  <2>3. QED
    BY <1>3, <2>1, <2>2 DEF Contains
<1>4. QED
  BY <1>1, <1>2, <1>3

LEMMA NoProcessIsOne == NoProcess \in Processes
  BY SessionAssumption DEF NoProcess, Processes, Phases, Flags

LEMMA InitHasInv == Init => SessionInv /\ FilesAgree
<1> SUFFICES ASSUME Init PROVE SessionInv /\ FilesAgree
  OBVIOUS
<1>1. TypeOK
  BY NoProcessIsOne DEF Init, TypeOK
<1>2. QED
  BY <1>1 DEF Init, NoProcess, SessionInv, SetupIsOrdered, CleanupsAreNested, Contains,
              WorkersAreWaitedFor, OpenFileExists, RecordsReadable, FilesAgree

(* Each field of a process can be given any value of its type.              *)
LEMMA FieldsCanChange ==
  ASSUME NEW q \in Processes
  PROVE  /\ \A x \in Flags \union {None} : [q EXCEPT !.flags = x] \in Processes
         /\ \A x \in Files \union {None} : [q EXCEPT !.file = x] \in Processes
         /\ \A x \in {"idle", "setup", "run", "wait", "cleanup"} : [q EXCEPT !.main = x] \in Processes
         /\ \A x \in Seq(Steps) : [q EXCEPT !.todo = x] \in Processes
         /\ \A x \in Seq(Parts) : [q EXCEPT !.cleanups = x] \in Processes
         /\ \A x \in Phases : [q EXCEPT !.store = x] \in Processes
         /\ \A x \in Phases : [q EXCEPT !.tracker = x] \in Processes
         /\ \A x \in Phases : [q EXCEPT !.mux = x] \in Processes
         /\ \A x \in BOOLEAN : [q EXCEPT !.compress = x] \in Processes
         /\ \A x \in {"off", "waiting", "syncing", "done"} : [q EXCEPT !.syncer = x] \in Processes
         /\ \A x \in BOOLEAN : [q EXCEPT !.stopSync = x] \in Processes
         /\ \A x \in BOOLEAN : [q EXCEPT !.cancelled = x] \in Processes
         /\ \A x \in {"off", "running", "ended"} : [q EXCEPT !.ui = x] \in Processes
         /\ \A x \in {"off", "select", "commit", "get", "send", "done"} : [q EXCEPT !.collector = x] \in Processes
         /\ \A x \in {"off", "ready", "walk", "send", "last", "done"} : [q EXCEPT !.loader = x] \in Processes
         /\ \A x \in 0..MaxHistory : [q EXCEPT !.history = x] \in Processes
<1>0. \A x \in Flags \union {None} : [q EXCEPT !.flags = x] \in Processes
  BY DEF Processes
<1>1. \A x \in Files \union {None} : [q EXCEPT !.file = x] \in Processes
  BY DEF Processes
<1>2. \A x \in {"idle", "setup", "run", "wait", "cleanup"} : [q EXCEPT !.main = x] \in Processes
  BY DEF Processes
<1>3. \A x \in Seq(Steps) : [q EXCEPT !.todo = x] \in Processes
  BY DEF Processes
<1>4. \A x \in Seq(Parts) : [q EXCEPT !.cleanups = x] \in Processes
  BY DEF Processes
<1>5. \A x \in Phases : [q EXCEPT !.store = x] \in Processes
  BY DEF Processes
<1>6. \A x \in Phases : [q EXCEPT !.tracker = x] \in Processes
  BY DEF Processes
<1>7. \A x \in Phases : [q EXCEPT !.mux = x] \in Processes
  BY DEF Processes
<1>8. \A x \in BOOLEAN : [q EXCEPT !.compress = x] \in Processes
  BY DEF Processes
<1>9. \A x \in {"off", "waiting", "syncing", "done"} : [q EXCEPT !.syncer = x] \in Processes
  BY DEF Processes
<1>10. \A x \in BOOLEAN : [q EXCEPT !.stopSync = x] \in Processes
  BY DEF Processes
<1>11. \A x \in BOOLEAN : [q EXCEPT !.cancelled = x] \in Processes
  BY DEF Processes
<1>12. \A x \in {"off", "running", "ended"} : [q EXCEPT !.ui = x] \in Processes
  BY DEF Processes
<1>13. \A x \in {"off", "select", "commit", "get", "send", "done"} : [q EXCEPT !.collector = x] \in Processes
  BY DEF Processes
<1>14. \A x \in {"off", "ready", "walk", "send", "last", "done"} : [q EXCEPT !.loader = x] \in Processes
  BY DEF Processes
<1>15. \A x \in 0..MaxHistory : [q EXCEPT !.history = x] \in Processes
  BY DEF Processes
<1>16. QED
  BY <1>0, <1>1, <1>2, <1>3, <1>4, <1>5, <1>6, <1>7, <1>8, <1>9, <1>10, <1>11, <1>12, <1>13, <1>14, <1>15

(* The process stays one.                                                   *)
LEMMA StepKeepsProcess == ASSUME TypeOK, [Next]_vars PROVE p' \in Processes
<1>0. p \in Processes
  BY DEF TypeOK
<1>a. p.todo # <<>> => Tail(p.todo) \in Seq(Steps)
  BY <1>0 DEF Processes
<1>b. \A what \in Parts : Append(p.cleanups, what) \in Seq(Parts)
  BY <1>0 DEF Processes
<1>c. p.cleanups # <<>> => SubSeq(p.cleanups, 1, Len(p.cleanups) - 1) \in Seq(Parts)
  BY <1>0 DEF Processes
<1>d. /\ p.ui \in {"off", "running", "ended"} /\ p.history \in 0..MaxHistory
      /\ p.cleanups \in Seq(Parts) /\ p.todo \in Seq(Steps)
  BY <1>0 DEF Processes
<1> USE DEF Phases
<1>1. ASSUME NEW f \in Flags, Start(f) PROVE p' \in Processes
  <2>1. SetupOf(f) \in Seq(Steps)
    BY <1>1, SetupSteps DEF Start, Valid
  <2>2. f.output \in Files \union {None}
    BY DEF Flags
  <2>3. p' = [NoProcess EXCEPT !.flags = f, !.file = f.output, !.main = "setup", !.todo = SetupOf(f)]
    BY <1>1 DEF Start
  <2>4. QED
    BY <2>1, <2>2, <2>3, NoProcessIsOne, FieldsCanChange
<1>2. CASE CreateTemp
  <2>1. PICK f \in Files : p' = LET q == Done([p EXCEPT !.file = f])
                                IN IF p.flags.mode = "headless" THEN q ELSE Undo(q, "remove")
    BY <1>2 DEF CreateTemp
  <2>2. CASE p.flags.mode = "headless"
    <3>1. p' = [p EXCEPT !.file = f, !.todo = Tail(p.todo)]
      BY <2>1, <2>2, <1>0 DEF Done, Processes
    <3>2. QED
      BY <3>1, <1>0, <1>2, <1>a, FieldsCanChange DEF CreateTemp, SetsUp
  <2>3. CASE p.flags.mode # "headless"
    <3>1. p' = [p EXCEPT !.file = f, !.todo = Tail(p.todo), !.cleanups = Append(p.cleanups, "remove")]
      BY <2>1, <2>3, <1>0 DEF Done, Undo, Processes
    <3>2. QED
      BY <3>1, <1>0, <1>2, <1>a, <1>b, FieldsCanChange DEF CreateTemp, SetsUp, Parts
  <2>4. QED
    BY <2>2, <2>3
<1>3. CASE OpenStore
  <2> DEFINE replay == p.flags.mode = "replay"
             records == IF files[p.file] = None THEN {} ELSE files[p.file]
             syncer == IF p.flags.durable /\ ~replay THEN "waiting" ELSE "off"
             opened(s2) == [p EXCEPT !.store = "open", !.tracker = "open", !.compress = s2,
                                     !.syncer = syncer]
  <2>1. PICK s2 \in Detected(records, p.flags.compress /\ ~replay) :
          p' = Done(Undo(Undo(opened(s2), "store"), "tracker"))
    BY <1>3 DEF OpenStore
  <2>2. s2 \in BOOLEAN
    BY DEF Detected
  <2>3. syncer \in {"off", "waiting", "syncing", "done"}
    OBVIOUS
  <2> HIDE DEF syncer, records
  <2>4. opened(s2) \in Processes
    BY <2>2, <2>3, <1>0, FieldsCanChange
  <2>5. opened(s2).todo = p.todo /\ opened(s2).cleanups = p.cleanups
    BY <1>0 DEF Processes
  <2> DEFINE q == opened(s2)
             stack == Append(Append(p.cleanups, "store"), "tracker")
  <2> HIDE DEF q
  <2>6. p' = [q EXCEPT !.cleanups = stack, !.todo = Tail(p.todo)]
    BY <2>1, <2>4, <2>5 DEF Done, Undo, Processes, q
  <2>7. stack \in Seq(Parts)
    BY <1>b DEF Parts
  <2>8. Tail(p.todo) \in Seq(Steps)
    BY <1>3, <1>a DEF OpenStore, SetsUp
  <2> HIDE DEF stack
  <2>9. QED
    BY <2>4, <2>6, <2>7, <2>8, FieldsCanChange DEF q
<1>4. CASE StartMux
  <2>1. p' = [p EXCEPT !.mux = "open", !.cleanups = Append(p.cleanups, "mux"), !.todo = Tail(p.todo)]
    BY <1>0, <1>4 DEF StartMux, Done, Undo, Processes
  <2>2. Tail(p.todo) \in Seq(Steps) /\ Append(p.cleanups, "mux") \in Seq(Parts)
    BY <1>4, <1>a, <1>b DEF StartMux, SetsUp, Parts
  <2>3. QED
    BY <2>1, <2>2, <1>0, FieldsCanChange
<1>5. CASE PlainStep
  BY <1>0, <1>5, <1>a, FieldsCanChange DEF PlainStep, SetsUp, Done
<1>6. CASE SetupFails
  BY <1>0, <1>6, FieldsCanChange DEF SetupFails
<1>7. CASE Launch
  <2> DEFINE ui        == IF p.flags.mode # "headless" THEN "running" ELSE "off"
             collector == IF p.flags.mode = "replay" THEN "off" ELSE "select"
             loader    == IF p.flags.mode = "interactive" THEN "ready" ELSE "off"
             history(n) == IF p.flags.mode = "interactive" THEN n ELSE 0
  <2>1. PICK n \in 0..MaxHistory :
          p' = [p EXCEPT !.main = "run", !.ui = ui, !.collector = collector, !.loader = loader,
                         !.history = history(n)]
    BY <1>7 DEF Launch
  <2>2. /\ ui \in {"off", "running", "ended"}
        /\ collector \in {"off", "select", "commit", "get", "send", "done"}
        /\ loader \in {"off", "ready", "walk", "send", "last", "done"}
        /\ history(n) \in 0..MaxHistory
    BY SessionAssumption
  <2> HIDE DEF ui, collector, loader, history
  <2>3. QED
    BY <2>1, <2>2, <1>0, FieldsCanChange
<1>8. CASE Quit
  <2> DEFINE ui   == IF p.ui = "running" THEN "ended" ELSE p.ui
             main == IF p.flags.mode = "replay" THEN "cleanup" ELSE "wait"
  <2>1. p' = [p EXCEPT !.ui = ui, !.cancelled = TRUE, !.main = main]
    BY <1>8 DEF Quit
  <2>2. ui \in {"off", "running", "ended"} /\ main \in {"idle", "setup", "run", "wait", "cleanup"}
    BY <1>d
  <2> HIDE DEF ui, main
  <2>3. QED
    BY <2>1, <2>2, <1>0, FieldsCanChange
<1>9. CASE Wait
  BY <1>0, <1>9, FieldsCanChange DEF Wait
<1>10. CASE StopMux
  <2>1. p' = [p EXCEPT !.mux = "closed", !.cleanups = SubSeq(p.cleanups, 1, Len(p.cleanups) - 1)]
    BY <1>0, <1>10 DEF StopMux, Undone, Processes
  <2>2. p.cleanups # <<>>
    BY <1>10 DEF StopMux, CleansUp
  <2>3. QED
    BY <2>1, <2>2, <1>0, <1>c, FieldsCanChange
<1>11. CASE CloseTracker
  <2>1. p' = [p EXCEPT !.tracker = "closed", !.cleanups = SubSeq(p.cleanups, 1, Len(p.cleanups) - 1)]
    BY <1>0, <1>11 DEF CloseTracker, Undone, Processes
  <2>2. p.cleanups # <<>>
    BY <1>11 DEF CloseTracker, CleansUp
  <2>3. QED
    BY <2>1, <2>2, <1>0, <1>c, FieldsCanChange
<1>12. CASE StopSync
  BY <1>0, <1>12, FieldsCanChange DEF StopSync
<1>13. CASE CloseStore
  <2>1. p' = [p EXCEPT !.store = "closed", !.cleanups = SubSeq(p.cleanups, 1, Len(p.cleanups) - 1)]
    BY <1>0, <1>13 DEF CloseStore, Undone, Processes
  <2>2. p.cleanups # <<>>
    BY <1>13 DEF CloseStore, CleansUp
  <2>3. QED
    BY <2>1, <2>2, <1>0, <1>c, FieldsCanChange
<1>14. CASE RemoveTemp
  BY <1>0, <1>14, <1>c, FieldsCanChange DEF RemoveTemp, Undone, CleansUp
<1>15. CASE Exit \/ Killed
  BY <1>15, NoProcessIsOne DEF Exit, Killed
<1>16. CASE Sync
  BY <1>0, <1>16, FieldsCanChange DEF Sync
<1>17. CASE EndSync
  BY <1>0, <1>17, FieldsCanChange DEF EndSync
<1>18. CASE Receive
  BY <1>0, <1>18, FieldsCanChange DEF Receive
<1>19. CASE StopCollecting
  BY <1>0, <1>19, FieldsCanChange DEF StopCollecting
<1>20. CASE Commit
  BY <1>0, <1>20, FieldsCanChange DEF Commit
<1>21. CASE HandleRevision
  BY <1>0, <1>21, FieldsCanChange DEF HandleRevision
<1>22. CASE CollectorSends
  BY <1>0, <1>22, FieldsCanChange DEF CollectorSends
<1>23. CASE BeginLoad \/ LoaderSends
  BY <1>0, <1>23, FieldsCanChange DEF BeginLoad, LoaderSends
<1>24. CASE Walk
  <2>1. PICK pc \in {"walk", "send"} : p' = [p EXCEPT !.loader = pc, !.history = p.history - 1]
    BY <1>24 DEF Walk
  <2>2. p.history - 1 \in 0..MaxHistory
    BY <1>24, <1>d, SessionAssumption DEF Walk
  <2>3. QED
    BY <2>1, <2>2, <1>0, FieldsCanChange
<1>25. CASE SortHistory \/ EndLoad
  BY <1>0, <1>25, FieldsCanChange DEF SortHistory, EndLoad
<1>26. CASE UNCHANGED vars
  BY <1>0, <1>26 DEF vars
<1>27. QED
  BY <1>1, <1>2, <1>3, <1>4, <1>5, <1>6, <1>7, <1>8, <1>9, <1>10, <1>11, <1>12, <1>13, <1>14,
     <1>15, <1>16, <1>17, <1>18, <1>19, <1>20, <1>21, <1>22, <1>23, <1>24, <1>25, <1>26
  DEF Next, SettingUp, Ending, Handling, Loading

(* What the goroutines do leaves to the main one what is its own.           *)
Goroutines ==
  Sync \/ EndSync \/ Receive \/ StopCollecting \/ Handling \/ Loading

LEMMA GoroutinesLeaveAlone ==
  ASSUME p \in Processes, Goroutines
  PROVE  /\ p'.main = p.main /\ p'.todo = p.todo /\ p'.cleanups = p.cleanups /\ p'.file = p.file
         /\ p'.store = p.store /\ p'.tracker = p.tracker /\ p'.compress = p.compress /\ p'.flags = p.flags
<1> USE DEF Processes
<1>1. CASE Sync \/ EndSync
  BY <1>1 DEF Sync, EndSync
<1>2. CASE Receive \/ StopCollecting
  BY <1>2 DEF Receive, StopCollecting
<1>3. CASE Commit
  BY <1>3 DEF Commit
<1>4. CASE HandleRevision \/ CollectorSends
  BY <1>4 DEF HandleRevision, CollectorSends
<1>5. CASE BeginLoad \/ LoaderSends
  BY <1>5 DEF BeginLoad, LoaderSends
<1>6. CASE Walk
  BY <1>6 DEF Walk
<1>7. CASE SortHistory \/ EndLoad
  BY <1>7 DEF SortHistory, EndLoad
<1>8. QED
  BY <1>1, <1>2, <1>3, <1>4, <1>5, <1>6, <1>7 DEF Goroutines, Handling, Loading

(* The next step of the set-up is off the list. *)
LEMMA TodoShrinks ==
  ASSUME NEW todo \in Seq(Steps), todo # <<>>
  PROVE  /\ Len(Tail(todo)) = Len(todo) - 1 /\ \A i \in 1..Len(Tail(todo)) : Tail(todo)[i] = todo[i + 1]
         /\ \A x \in Steps : x # Head(todo) /\ Contains(todo, x) => Contains(Tail(todo), x)
<1>1. /\ Len(Tail(todo)) = Len(todo) - 1 /\ \A i \in 1..Len(Tail(todo)) : Tail(todo)[i] = todo[i + 1]
      /\ Head(todo) = todo[1] /\ Len(todo) \in Nat
  OBVIOUS
<1>2. ASSUME NEW x \in Steps, x # Head(todo), Contains(todo, x) PROVE Contains(Tail(todo), x)
  <2>1. PICK i \in 1..Len(todo) : todo[i] = x
    BY <1>2 DEF Contains
  <2>2. i - 1 \in 1..Len(Tail(todo)) /\ Tail(todo)[i - 1] = x
    BY <1>1, <1>2, <2>1
  <2>3. QED
    BY <2>2 DEF Contains
<1>3. QED
  BY <1>1, <1>2

LEMMA StepKeepsWorkers == ASSUME SessionInv, [Next]_vars PROVE WorkersAreWaitedFor'
<1>0. p \in Processes /\ WorkersAreWaitedFor
  BY DEF SessionInv, TypeOK
<1> USE DEF WorkersAreWaitedFor
<1>1. ASSUME NEW f \in Flags, Start(f) PROVE WorkersAreWaitedFor'
  BY <1>1 DEF Start, NoProcess
<1>2. CASE CreateTemp
  <2>1. p'.main = "setup" /\ p.main = "setup" /\ p'.syncer = p.syncer /\ p'.store = p.store
        /\ p'.collector = p.collector /\ p'.loader = p.loader
    BY <1>0, <1>2 DEF CreateTemp, SetsUp, Done, Undo, Processes
  <2>2. QED
    BY <1>0, <2>1
<1>3. CASE OpenStore
  <2>1. p'.main = "setup" /\ p.main = "setup" /\ p'.store = "open"
        /\ p'.collector = p.collector /\ p'.loader = p.loader
    BY <1>0, <1>3 DEF OpenStore, SetsUp, Done, Undo, Processes
  <2>2. QED
    BY <1>0, <2>1
<1>4. CASE StartMux \/ PlainStep
  <2>1. p'.main = "setup" /\ p.main = "setup" /\ p'.syncer = p.syncer /\ p'.store = p.store
        /\ p'.collector = p.collector /\ p'.loader = p.loader
    BY <1>0, <1>4 DEF StartMux, PlainStep, SetsUp, Done, Undo, Processes
  <2>2. QED
    BY <1>0, <2>1
<1>5. CASE SetupFails
  BY <1>0, <1>5 DEF SetupFails, Processes
<1>6. CASE Launch
  <2>1. p.store = "open" /\ p.tracker = "open"
    BY <1>6 DEF Launch, SessionInv, SetupIsOrdered, Contains
  <2>2. QED
    BY <1>0, <1>6, <2>1 DEF Launch, Processes
<1>7. CASE Quit
  BY <1>0, <1>7 DEF Quit, Processes
<1>8. CASE Wait
  BY <1>0, <1>8 DEF Wait, Processes
<1>9. CASE StopMux \/ CloseTracker \/ StopSync \/ CloseStore \/ RemoveTemp
  <2>1. p.main = "cleanup" /\ p'.main = p.main /\ p'.syncer = p.syncer
        /\ p'.collector = p.collector /\ p'.loader = p.loader
        /\ (p'.store = p.store \/ p.syncer \in {"off", "done"})
    <3>1. CASE StopMux \/ CloseTracker \/ StopSync
      BY <1>0, <3>1 DEF StopMux, CloseTracker, StopSync, CleansUp, Undone, Processes
    <3>2. CASE CloseStore \/ RemoveTemp
      BY <1>0, <3>2 DEF CloseStore, RemoveTemp, CleansUp, Undone, Processes
    <3>3. QED
      BY <1>9, <3>1, <3>2
  <2>2. QED
    BY <1>0, <2>1
<1>10. CASE Exit \/ Killed
  BY <1>10 DEF Exit, Killed, NoProcess
<1>11. CASE Goroutines
  <2>1. CASE Sync \/ EndSync
    <3>1. p'.syncer \in {"waiting", "syncing"} => p.syncer \in {"waiting", "syncing"}
      BY <1>0, <2>1 DEF Sync, EndSync, Processes
    <3>2. p'.collector = p.collector /\ p'.loader = p.loader
      BY <1>0, <2>1 DEF Sync, EndSync, Processes
    <3>3. QED
      BY <1>0, <1>11, <3>1, <3>2, GoroutinesLeaveAlone
  <2>2. CASE Receive \/ StopCollecting \/ Handling
    <3>1. p.collector \notin {"off", "done"}
      BY <2>2 DEF Receive, StopCollecting, Handling, Commit, HandleRevision, CollectorSends
    <3>2. p'.syncer = p.syncer
      BY <1>0, <2>2 DEF Receive, StopCollecting, Handling, Commit, HandleRevision, CollectorSends, Processes
    <3>3. p'.main \in {"run", "wait"} /\ ~(p'.main = "run" /\ p'.flags.mode = "replay")
      BY <1>0, <1>11, <3>1, GoroutinesLeaveAlone
    <3>4. QED
      BY <1>0, <1>11, <3>2, <3>3, GoroutinesLeaveAlone
  <2>3. CASE Loading
    <3>1. p.loader \notin {"off", "done"}
      BY <2>3 DEF Loading, BeginLoad, Walk, LoaderSends, SortHistory, EndLoad
    <3>2. p'.syncer = p.syncer
      BY <1>0, <2>3 DEF Loading, BeginLoad, Walk, LoaderSends, SortHistory, EndLoad, Processes
    <3>3. p'.main \in {"run", "wait"} /\ ~(p'.main = "run" /\ p'.flags.mode = "replay")
      BY <1>0, <1>11, <3>1, GoroutinesLeaveAlone
    <3>4. QED
      BY <1>0, <1>11, <3>2, <3>3, GoroutinesLeaveAlone
  <2>4. QED
    BY <1>11, <2>1, <2>2, <2>3 DEF Goroutines
<1>12. CASE UNCHANGED vars
  BY <1>0, <1>12 DEF vars
<1>13. QED
  BY <1>1, <1>2, <1>3, <1>4, <1>5, <1>6, <1>7, <1>8, <1>9, <1>10, <1>11, <1>12
  DEF Next, SettingUp, Ending, Goroutines

(* A step of the set-up takes the first entry off the list, and only the one  *)
(* that opens the store changes whether it is open.                         *)
LEMMA StepKeepsOrder == ASSUME SessionInv, [Next]_vars PROVE SetupIsOrdered'
<1>0. p \in Processes /\ SetupIsOrdered
  BY DEF SessionInv, TypeOK
<1>t. p.todo \in Seq(Steps) /\ p.cleanups \in Seq(Parts)
  BY <1>0 DEF Processes
<1>1. ASSUME NEW f \in Flags, Start(f) PROVE SetupIsOrdered'
  <2>1. p'.todo = SetupOf(f) /\ p'.cleanups = <<>> /\ p'.file = f.output
    BY <1>1 DEF Start, NoProcess
  <2>2. f.mode = "replay" => f.output # None
    BY <1>1 DEF Start, Valid
  <2>3. QED
    BY <2>1, <2>2, SetupSteps DEF SetupIsOrdered, Contains
<1>2. ASSUME p.main = "setup", p.todo # <<>>, p'.todo = Tail(p.todo),
             Head(p.todo) # "open", p'.store = p.store, p'.tracker = p.tracker,
             p'.file = p.file \/ p'.file # None, Head(p.todo) = "temp" => p'.file # None
      PROVE  SetupIsOrdered'
  <2>1. Len(Tail(p.todo)) \in Nat /\ \A i \in 1..Len(Tail(p.todo)) : Tail(p.todo)[i] # "temp"
    <3>1. /\ Len(Tail(p.todo)) = Len(p.todo) - 1 /\ Len(p.todo) \in Nat
          /\ \A i \in 1..Len(Tail(p.todo)) : Tail(p.todo)[i] = p.todo[i + 1]
      BY <1>2, <1>t, TodoShrinks
    <3>2. \A i \in 1..Len(Tail(p.todo)) : i + 1 \in 1..Len(p.todo) /\ i + 1 # 1
      BY <3>1
    <3>3. QED
      BY <1>0, <1>2, <3>1, <3>2 DEF SetupIsOrdered
  <2>2. Contains(p.todo, "open") => Contains(Tail(p.todo), "open")
    BY <1>2, <1>t, TodoShrinks DEF Steps
  <2>3. p'.file # None
    <3>1. p.file = None => Head(p.todo) = "temp"
      BY <1>0, <1>2, <1>t DEF SetupIsOrdered, Contains
    <3>2. QED
      BY <1>2, <3>1
  <2>4. QED
    BY <1>0, <1>2, <2>1, <2>2, <2>3 DEF SetupIsOrdered
<1>3. CASE CreateTemp
  <2>1. p.main = "setup" /\ p.todo # <<>> /\ p'.todo = Tail(p.todo) /\ Head(p.todo) = "temp"
        /\ p'.store = p.store /\ p'.tracker = p.tracker
    BY <1>0, <1>3 DEF CreateTemp, SetsUp, Done, Undo, Processes
  <2>2. p'.file # None
    BY <1>0, <1>3, SessionAssumption DEF CreateTemp, Done, Undo, Processes
  <2>3. QED
    BY <1>2, <2>1, <2>2
<1>4. CASE OpenStore
  <2>1. p.main = "setup" /\ p.todo # <<>> /\ Head(p.todo) = "open"
    BY <1>4 DEF OpenStore, SetsUp
  <2>2. p'.todo = Tail(p.todo) /\ p'.store = "open" /\ p'.tracker = "open" /\ p'.file = p.file
    BY <1>0, <1>4 DEF OpenStore, Done, Undo, Processes
  <2>3. \A i \in 1..Len(Tail(p.todo)) : Tail(p.todo)[i] # "temp"
    <3>1. /\ Len(Tail(p.todo)) = Len(p.todo) - 1 /\ Len(p.todo) \in Nat
          /\ \A i \in 1..Len(Tail(p.todo)) : Tail(p.todo)[i] = p.todo[i + 1]
      BY <2>1, <1>t, TodoShrinks
    <3>2. \A i \in 1..Len(Tail(p.todo)) : i + 1 \in 1..Len(p.todo) /\ i + 1 # 1
      BY <3>1
    <3>3. QED
      BY <1>0, <2>1, <3>1, <3>2 DEF SetupIsOrdered
  <2>4. p.file # None
    BY <1>0, <1>t, <2>1 DEF SetupIsOrdered, Contains
  <2>5. QED
    BY <2>2, <2>3, <2>4 DEF SetupIsOrdered
<1>5. CASE StartMux \/ PlainStep
  <2>1. p.main = "setup" /\ p.todo # <<>> /\ p'.todo = Tail(p.todo)
        /\ p'.store = p.store /\ p'.tracker = p.tracker /\ p'.file = p.file
    BY <1>0, <1>5 DEF StartMux, PlainStep, SetsUp, Done, Undo, Processes
  <2>2. Head(p.todo) # "open" /\ Head(p.todo) # "temp"
    BY <1>5 DEF StartMux, PlainStep, SetsUp
  <2>3. QED
    BY <1>2, <2>1, <2>2
<1>6. CASE SetupFails \/ Launch \/ Quit \/ Wait
  <2>1. p'.main # "setup"
    BY <1>0, <1>6 DEF SetupFails, Launch, Quit, Wait, Processes
  <2>2. QED
    BY <2>1 DEF SetupIsOrdered
<1>7. CASE StopMux \/ CloseTracker \/ StopSync \/ CloseStore \/ RemoveTemp
  <2>1. p'.main = "cleanup"
    BY <1>0, <1>7 DEF StopMux, CloseTracker, StopSync, CloseStore, RemoveTemp, CleansUp, Undone, Processes
  <2>2. QED
    BY <2>1 DEF SetupIsOrdered
<1>8. CASE Exit \/ Killed
  BY <1>8 DEF Exit, Killed, NoProcess, SetupIsOrdered
<1>9. CASE Goroutines
  BY <1>0, <1>9, GoroutinesLeaveAlone DEF SetupIsOrdered
<1>10. CASE UNCHANGED vars
  BY <1>0, <1>10 DEF vars, SetupIsOrdered
<1>11. QED
  BY <1>1, <1>3, <1>4, <1>5, <1>6, <1>7, <1>8, <1>9, <1>10 DEF Next, SettingUp, Ending, Goroutines

(* The clean-up goes on as what a stack does: pushing keeps what is below,    *)
(* popping all but the last.                                                *)
LEMMA Stacks ==
  ASSUME NEW stack \in Seq(Parts)
  PROVE  /\ \A x \in Parts :
              /\ Len(Append(stack, x)) = Len(stack) + 1 /\ Append(stack, x)[Len(stack) + 1] = x
              /\ \A i \in 1..Len(stack) : Append(stack, x)[i] = stack[i]
         /\ stack # <<>> =>
              /\ Len(stack) \in Nat \ {0}
              /\ Len(SubSeq(stack, 1, Len(stack) - 1)) = Len(stack) - 1
              /\ \A i \in 1..(Len(stack) - 1) : SubSeq(stack, 1, Len(stack) - 1)[i] = stack[i]
<1>1. ASSUME NEW x \in Parts
      PROVE  /\ Len(Append(stack, x)) = Len(stack) + 1 /\ Append(stack, x)[Len(stack) + 1] = x
             /\ \A i \in 1..Len(stack) : Append(stack, x)[i] = stack[i]
  OBVIOUS
<1>2. ASSUME stack # <<>>
      PROVE  /\ Len(stack) \in Nat \ {0}
             /\ Len(SubSeq(stack, 1, Len(stack) - 1)) = Len(stack) - 1
             /\ \A i \in 1..(Len(stack) - 1) : SubSeq(stack, 1, Len(stack) - 1)[i] = stack[i]
  <2>1. Len(stack) \in Nat \ {0}
    BY <1>2
  <2> DEFINE n == Len(stack) - 1
  <2>2. /\ Len(SubSeq(stack, 1, n)) = IF 1 <= n THEN n - 1 + 1 ELSE 0
        /\ \A i \in 1..(n - 1 + 1) : SubSeq(stack, 1, n)[i] = stack[1 + i - 1]
    BY <2>1, SubSeqProperties
  <2>3. QED
    BY <2>1, <2>2
<1>3. QED
  BY <1>1, <1>2

LEMMA StepKeepsNesting == ASSUME SessionInv, [Next]_vars PROVE CleanupsAreNested'
<1>0. p \in Processes /\ CleanupsAreNested
  BY DEF SessionInv, TypeOK
<1>t. p.cleanups \in Seq(Parts) /\ Len(p.cleanups) \in Nat
  BY <1>0 DEF Processes
<1>1. ASSUME NEW x \in Parts \ {"remove"}, p'.cleanups = Append(p.cleanups, x), p'.store = p.store
      PROVE  CleanupsAreNested'
  BY <1>0, <1>1, <1>t, Stacks DEF CleanupsAreNested, Contains
<1>2. ASSUME p.cleanups # <<>>, p'.cleanups = SubSeq(p.cleanups, 1, Len(p.cleanups) - 1),
             p'.store = "open" => p.store = "open" /\ p.cleanups[Len(p.cleanups)] # "store"
      PROVE  CleanupsAreNested'
  <2>1. \A i \in 1..Len(p'.cleanups) : p'.cleanups[i] = "remove" => i = 1
    BY <1>0, <1>2, <1>t, Stacks DEF CleanupsAreNested
  <2>2. ASSUME p'.store = "open" PROVE Contains(p'.cleanups, "store")
    <3>1. PICK i \in 1..Len(p.cleanups) : p.cleanups[i] = "store"
      BY <1>0, <1>2, <2>2 DEF CleanupsAreNested, Contains
    <3>2. i \in 1..(Len(p.cleanups) - 1)
      BY <1>2, <1>t, <2>2, <3>1
    <3>3. QED
      BY <1>2, <1>t, <3>1, <3>2, Stacks DEF Contains
  <2>3. QED
    BY <2>1, <2>2 DEF CleanupsAreNested
<1>3. ASSUME p'.cleanups = p.cleanups, p'.store = p.store PROVE CleanupsAreNested'
  BY <1>0, <1>3 DEF CleanupsAreNested
<1>4. ASSUME NEW f \in Flags, Start(f) PROVE CleanupsAreNested'
  BY <1>4 DEF Start, NoProcess, CleanupsAreNested
<1>5. CASE CreateTemp
  <2>1. p.main = "setup" /\ p.todo # <<>> /\ Head(p.todo) = "temp"
    BY <1>5 DEF CreateTemp, SetsUp
  <2>2. p'.store = p.store /\ (p'.cleanups = p.cleanups \/ p'.cleanups = Append(p.cleanups, "remove"))
    BY <1>0, <1>5 DEF CreateTemp, Done, Undo, Processes
  <2>3. p.cleanups = <<>>
    <3>1. p.todo \in Seq(Steps)
      BY <1>0 DEF Processes
    <3>2. p.todo[1] = "temp" /\ 1 \in 1..Len(p.todo)
      BY <2>1, <3>1
    <3>3. QED
      BY <2>1, <3>2 DEF SessionInv, SetupIsOrdered
  <2>4. p.store # "open"
    BY <1>0, <2>3 DEF CleanupsAreNested, Contains
  <2>5. Len(p'.cleanups) \in {0, 1}
    <3>1. Len(<<>>) = 0 /\ Len(Append(<<>>, "remove")) = 1
      OBVIOUS
    <3>2. QED
      BY <2>2, <2>3, <3>1
  <2>6. QED
    BY <2>2, <2>4, <2>5 DEF CleanupsAreNested
<1>6. CASE OpenStore
  <2> DEFINE one == Append(p.cleanups, "store")
  <2>1. p'.cleanups = Append(one, "tracker")
    BY <1>0, <1>6 DEF OpenStore, Done, Undo, Processes
  <2>2. one \in Seq(Parts) /\ Len(one) \in Nat /\ Contains(one, "store")
        /\ \A i \in 1..Len(one) : one[i] = "remove" => i = 1
    BY <1>0, <1>t, Stacks DEF CleanupsAreNested, Contains, Parts
  <2> HIDE DEF one
  <2>3. Len(Append(one, "tracker")) = Len(one) + 1 /\ Append(one, "tracker")[Len(one) + 1] = "tracker"
        /\ \A i \in 1..Len(one) : Append(one, "tracker")[i] = one[i]
    BY <2>2, Stacks DEF Parts
  <2>4. QED
    BY <2>1, <2>2, <2>3 DEF CleanupsAreNested, Contains
<1>7. CASE StartMux
  <2>1. p'.cleanups = Append(p.cleanups, "mux") /\ p'.store = p.store
    BY <1>0, <1>7 DEF StartMux, Done, Undo, Processes
  <2>2. QED
    BY <1>1, <2>1 DEF Parts
<1>8. CASE PlainStep \/ SetupFails \/ Launch \/ Quit \/ Wait \/ StopSync
  <2>1. p'.cleanups = p.cleanups /\ p'.store = p.store
    BY <1>0, <1>8 DEF PlainStep, Done, SetupFails, Launch, Quit, Wait, StopSync, Processes
  <2>2. QED
    BY <1>3, <2>1
<1>9. CASE StopMux \/ CloseTracker \/ CloseStore \/ RemoveTemp
  <2>1. p.cleanups # <<>> /\ p'.cleanups = SubSeq(p.cleanups, 1, Len(p.cleanups) - 1)
    BY <1>0, <1>9 DEF StopMux, CloseTracker, CloseStore, RemoveTemp, CleansUp, Undone, Processes
  <2>2. p'.store = "open" => p.store = "open" /\ p.cleanups[Len(p.cleanups)] # "store"
    BY <1>0, <1>9 DEF StopMux, CloseTracker, CloseStore, RemoveTemp, CleansUp, Undone, Processes
  <2>3. QED
    BY <1>2, <2>1, <2>2
<1>10. CASE Exit \/ Killed
  BY <1>10 DEF Exit, Killed, NoProcess, CleanupsAreNested
<1>11. CASE Goroutines
  BY <1>0, <1>3, <1>11, GoroutinesLeaveAlone
<1>12. CASE UNCHANGED vars
  BY <1>3, <1>12 DEF vars
<1>13. QED
  BY <1>4, <1>5, <1>6, <1>7, <1>8, <1>9, <1>10, <1>11, <1>12 DEF Next, SettingUp, Ending, Goroutines

(* Only these change a file. *)
LEMMA FilesChange ==
  ASSUME [Next]_vars
  PROVE  files' = files \/ CreateTemp \/ OpenStore \/ RemoveTemp \/ Killed \/ Commit
<1> USE DEF Next, vars
<1>1. ASSUME NEW f \in Flags, Start(f) PROVE files' = files
  BY <1>1 DEF Start
<1>2. CASE SettingUp
  BY <1>2 DEF SettingUp, StartMux, PlainStep, Launch
<1>3. CASE SetupFails \/ Quit
  BY <1>3 DEF SetupFails, Quit
<1>4. CASE Ending
  BY <1>4 DEF Ending, Wait, StopMux, CloseTracker, StopSync, CloseStore, Exit
<1>5. CASE Sync \/ EndSync \/ Receive \/ StopCollecting
  BY <1>5 DEF Sync, EndSync, Receive, StopCollecting
<1>6. CASE Handling
  BY <1>6 DEF Handling, HandleRevision, CollectorSends
<1>7. CASE Loading
  BY <1>7 DEF Loading, BeginLoad, Walk, LoaderSends, SortHistory, EndLoad
<1>8. QED
  BY <1>1, <1>2, <1>3, <1>4, <1>5, <1>6, <1>7

(* A step that opens a file opens the one it is about, and no other opens one *)
(* anew or lets go of the file of an open store.                            *)
LEMMA OpenFiles ==
  ASSUME SessionInv, [Next]_vars
  PROVE  \/ OpenStore
         \/ p'.store # "open"
         \/ p.store = "open" /\ p'.store = "open" /\ p'.compress = p.compress /\ (p'.file = p.file \/ CreateTemp)
<1>0. p \in Processes
  BY DEF SessionInv, TypeOK
<1> DEFINE Same == p'.store = p.store /\ p'.compress = p.compress /\ (p'.file = p.file \/ CreateTemp)
<1>1. ASSUME NEW f \in Flags, Start(f) PROVE p'.store # "open"
  BY <1>1 DEF Start, NoProcess
<1>2. CASE CreateTemp
  BY <1>0, <1>2 DEF CreateTemp, Done, Undo, Processes
<1>3. CASE StartMux \/ PlainStep
  BY <1>0, <1>3 DEF StartMux, PlainStep, Done, Undo, Processes
<1>4. CASE SetupFails \/ Quit \/ Wait
  BY <1>0, <1>4 DEF SetupFails, Quit, Wait, Processes
<1>5. CASE Launch
  BY <1>0, <1>5 DEF Launch, Processes
<1>6. CASE StopMux \/ CloseTracker \/ StopSync
  BY <1>0, <1>6 DEF StopMux, CloseTracker, StopSync, Undone, Processes
<1>7. CASE CloseStore \/ RemoveTemp
  BY <1>0, <1>7 DEF CloseStore, RemoveTemp, Undone, Processes
<1>8. CASE Exit \/ Killed
  BY <1>8 DEF Exit, Killed, NoProcess
<1>9. CASE Goroutines
  BY <1>0, <1>9, GoroutinesLeaveAlone
<1>10. CASE UNCHANGED vars
  BY <1>10 DEF vars
<1>11. QED
  BY <1>1, <1>2, <1>3, <1>4, <1>5, <1>6, <1>7, <1>8, <1>9, <1>10 DEF Next, SettingUp, Ending, Goroutines

(* The file that is removed is not open. *)
LEMMA RemovedLast == ASSUME SessionInv, RemoveTemp PROVE p.store # "open" /\ p'.store # "open"
<1>1. p \in Processes /\ p.cleanups \in Seq(Parts)
  BY DEF SessionInv, TypeOK, Processes
<1>2. p.cleanups # <<>> /\ p.cleanups[Len(p.cleanups)] = "remove"
  BY DEF RemoveTemp, CleansUp
<1>3. Len(p.cleanups) \in Nat \ {0}
  BY <1>1, <1>2
<1>4. Len(p.cleanups) = 1
  <2>1. Len(p.cleanups) \in 1..Len(p.cleanups)
    BY <1>3
  <2>2. \A i \in 1..Len(p.cleanups) : p.cleanups[i] = "remove" => i = 1
    BY DEF SessionInv, CleanupsAreNested
  <2>3. QED
    BY <1>2, <2>1, <2>2
<1>5. p.store # "open"
  BY <1>2, <1>4 DEF SessionInv, CleanupsAreNested, Contains
<1>6. p'.store = p.store
  BY <1>1 DEF RemoveTemp, Undone, Processes
<1>7. QED
  BY <1>5, <1>6

(* What a record is written as. *)
LEMMA EncodingsAreRecords ==
  ASSUME NEW s2 \in BOOLEAN
  PROVE  /\ Encodings(s2) \subseteq Records
         /\ S2MayRead = FALSE => \A e \in Encodings(s2) : e.s2 = s2 /\ e.reads = ~s2
<1> DEFINE enc(r) == [s2 |-> s2, reads |-> r]
<1>1. \A r \in BOOLEAN : enc(r) \in Records /\ enc(r).s2 = s2 /\ enc(r).reads = r
  BY DEF Records
<1> HIDE DEF enc
<1>2. CASE ~s2
  <2>1. Encodings(s2) = {enc(TRUE)}
    BY <1>2 DEF Encodings, enc
  <2>2. QED
    BY <1>1, <1>2, <2>1
<1>3. CASE s2
  <2>1. Encodings(s2) = {enc(r) : r \in IF S2MayRead THEN BOOLEAN ELSE {FALSE}}
    BY <1>3 DEF Encodings, enc
  <2>2. Encodings(s2) \subseteq Records
    BY <1>1, <2>1
  <2>3. S2MayRead = FALSE => Encodings(s2) = {enc(FALSE)}
    BY <2>1
  <2>4. QED
    BY <1>1, <1>3, <2>2, <2>3
<1>4. QED
  BY <1>2, <1>3

LEMMA StepKeepsFiles ==
  ASSUME SessionInv, [Next]_vars
  PROVE  files' \in [Files -> (SUBSET Records) \union {None}] /\ OpenFileExists'
<1>0. /\ p \in Processes /\ files \in [Files -> (SUBSET Records) \union {None}] /\ OpenFileExists
      /\ p.file \in Files \union {None}
  BY DEF SessionInv, TypeOK, Processes
<1>1. CASE files' = files /\ ~OpenStore
  <2>1. ~CreateTemp
    BY <1>0, <1>1, SessionAssumption DEF CreateTemp
  <2>2. QED
    BY <1>0, <1>1, <2>1, OpenFiles DEF OpenFileExists
<1>2. CASE CreateTemp
  <2>1. PICK f \in Files : files[f] = None /\ files' = [files EXCEPT ![f] = {}] /\ p'.file = f
    BY <1>0, <1>2 DEF CreateTemp, Done, Undo, Processes
  <2>2. QED
    BY <1>0, <2>1, SessionAssumption DEF OpenFileExists
<1>3. CASE OpenStore
  <2> DEFINE records == IF files[p.file] = None THEN {} ELSE files[p.file]
  <2>1. files' = [files EXCEPT ![p.file] = records] /\ p'.file = p.file
    BY <1>0, <1>3 DEF OpenStore, Done, Undo, Processes
  <2>2. p.file \in Files
    <3>1. p.main = "setup" /\ p.todo # <<>> /\ Head(p.todo) = "open" /\ p.todo \in Seq(Steps)
      BY <1>0, <1>3 DEF OpenStore, SetsUp, Processes
    <3>2. p.file # None
      BY <3>1 DEF SessionInv, SetupIsOrdered, Contains
    <3>3. QED
      BY <1>0, <3>2
  <2>3. records \in SUBSET Records
    BY <1>0, <2>2
  <2> HIDE DEF records
  <2>4. QED
    BY <1>0, <2>1, <2>2, <2>3, SessionAssumption DEF OpenFileExists
<1>4. CASE RemoveTemp
  BY <1>0, <1>4, RemovedLast DEF RemoveTemp, OpenFileExists
<1>5. CASE Killed
  BY <1>0, <1>5, SessionAssumption DEF Killed, NoProcess, OpenFileExists
<1>6. CASE Commit
  <2>1. p.store = "open" /\ p'.store = "open" /\ p'.file = p.file
    BY <1>0, <1>6, GoroutinesLeaveAlone DEF Commit, SessionInv, WorkersAreWaitedFor, Goroutines, Handling
  <2>2. p.file \in Files /\ files[p.file] \in SUBSET Records
    BY <1>0, <2>1 DEF OpenFileExists
  <2>3. Encodings(p.compress) \subseteq Records
    BY <1>0, EncodingsAreRecords DEF Processes
  <2>4. \/ files' = files
        \/ \E e \in Records : files' = [files EXCEPT ![p.file] = files[p.file] \union {e}]
    BY <1>6, <2>3 DEF Commit
  <2>5. QED
    BY <1>0, <2>1, <2>2, <2>4, SessionAssumption DEF OpenFileExists
<1>7. QED
  BY <1>1, <1>2, <1>3, <1>4, <1>5, <1>6, FilesChange

LEMMA StepKeepsSession == SessionInv /\ [Next]_vars => SessionInv'
  BY StepKeepsProcess, StepKeepsOrder, StepKeepsNesting, StepKeepsWorkers, StepKeepsFiles DEF SessionInv, TypeOK

(* What is open, running and left to do agrees in every state of the process. *)
THEOREM SessionInvariance == Spec => []SessionInv
<1>1. Init => SessionInv
  BY InitHasInv
<1>2. QED
  BY <1>1, StepKeepsSession, PTL DEF Spec

(* The variables have their types.                                          *)
THEOREM TypeCorrect == Spec => []TypeOK
<1>1. SessionInv => TypeOK
  BY DEF SessionInv
<1>2. QED
  BY <1>1, SessionInvariance, PTL

(* Nothing that is closed is used, whatever the flags, wherever a set-up      *)
(* fails and whenever the session is told to end: the clean-up begins when     *)
(* collector and loader have ended, and the store waits for the background     *)
(* sync.                                                                    *)
THEOREM NothingIsUsedAfterClose == Spec => []NothingUsedAfterClose
<1>1. SessionInv => NothingUsedAfterClose
  BY DEF SessionInv, WorkersAreWaitedFor, NothingUsedAfterClose
<1>2. QED
  BY <1>1, SessionInvariance, PTL

(* The records of a file are all of one kind when no compressed record can    *)
(* pass for a plain one.                                                    *)
LEMMA StepKeepsAgreement ==
  ASSUME S2MayRead = FALSE, SessionInv, SessionInv', FilesAgree, [Next]_vars
  PROVE  FilesAgree'
<1>0. /\ p \in Processes /\ files \in [Files -> (SUBSET Records) \union {None}]
      /\ p.file \in Files \union {None} /\ p.compress \in BOOLEAN
  BY DEF SessionInv, TypeOK, Processes
<1> DEFINE Agree(records) == \A e, d \in records : e.s2 = d.s2 /\ e.reads = ~e.s2
<1>1. /\ \A f \in Files : files[f] # None => Agree(files[f])
      /\ p.store = "open" => \A e \in files[p.file] : e.s2 = p.compress
  BY DEF FilesAgree, RecordsReadable, Parses
<1>2. SUFFICES /\ \A f \in Files : files'[f] # None => Agree(files'[f])
               /\ p'.store = "open" => \A e \in files'[p'.file] : e.s2 = p'.compress
  BY DEF FilesAgree, RecordsReadable, Parses
<1>3. CASE files' = files /\ ~OpenStore
  <2>1. ~CreateTemp
    BY <1>0, <1>3, SessionAssumption DEF CreateTemp
  <2>2. QED
    BY <1>1, <1>3, <2>1, OpenFiles
<1>4. CASE CreateTemp
  <2>1. PICK f \in Files : files' = [files EXCEPT ![f] = {}] /\ p'.file = f
    BY <1>0, <1>4 DEF CreateTemp, Done, Undo, Processes
  <2>2. QED
    BY <1>0, <1>1, <2>1
<1>5. CASE OpenStore
  <2> DEFINE records == IF files[p.file] = None THEN {} ELSE files[p.file]
             option  == p.flags.compress /\ ~(p.flags.mode = "replay")
  <2>1. /\ files' = [files EXCEPT ![p.file] = records] /\ p'.file = p.file
        /\ p'.compress \in Detected(records, option) /\ p'.store = "open"
    BY <1>0, <1>5 DEF OpenStore, Done, Undo, Processes
  <2>2. p.file \in Files
    BY <2>1 DEF SessionInv, OpenFileExists
  <2>3. Agree(records)
    BY <1>1, <2>2
  <2>4. \A e \in records : e.s2 = p'.compress
    <3>1. records \in SUBSET Records
      BY <1>0, <2>2
    <3>2. ASSUME NEW e \in records PROVE e.s2 = p'.compress
      <4>1. PICK d \in records : p'.compress = (d.s2 /\ ~d.reads)
        BY <2>1, <3>2 DEF Detected
      <4>2. e.s2 = d.s2 /\ d.reads = ~d.s2 /\ d.s2 \in BOOLEAN
        BY <2>3, <3>1, <4>1 DEF Records
      <4>3. QED
        BY <4>1, <4>2
    <3>3. QED
      BY <3>2
  <2> HIDE DEF records
  <2>5. QED
    BY <1>0, <1>1, <2>1, <2>2, <2>3, <2>4
<1>6. CASE RemoveTemp
  BY <1>0, <1>1, <1>6, RemovedLast DEF RemoveTemp
<1>7. CASE Killed
  <2>1. p'.store # "open"
    BY <1>7 DEF Killed, NoProcess
  <2>2. \/ files' = files
        \/ p.store = "open" /\ \E left \in SUBSET files[p.file] : files' = [files EXCEPT ![p.file] = left]
    BY <1>7 DEF Killed
  <2>3. p.store = "open" => p.file \in Files /\ files[p.file] # None
    BY DEF SessionInv, OpenFileExists
  <2>4. QED
    BY <1>0, <1>1, <2>1, <2>2, <2>3
<1>8. CASE Commit
  <2>1. p.store = "open" /\ p'.store = "open" /\ p'.file = p.file /\ p'.compress = p.compress
    BY <1>0, <1>8, GoroutinesLeaveAlone DEF Commit, SessionInv, WorkersAreWaitedFor, Goroutines, Handling
  <2>2. p.file \in Files /\ files[p.file] # None
    BY <2>1 DEF SessionInv, OpenFileExists
  <2>3. \A e \in Encodings(p.compress) : e.s2 = p.compress /\ e.reads = ~p.compress
    BY <1>0, EncodingsAreRecords
  <2>4. \/ files' = files
        \/ \E e \in Encodings(p.compress) : files' = [files EXCEPT ![p.file] = files[p.file] \union {e}]
    BY <1>8 DEF Commit
  <2>5. \A e, d \in files[p.file] : e.s2 = p.compress /\ e.reads = ~p.compress
    BY <1>1, <2>1, <2>2
  <2>6. QED
    BY <1>0, <1>1, <2>1, <2>2, <2>3, <2>4, <2>5
<1>9. QED
  BY <1>3, <1>4, <1>5, <1>6, <1>7, <1>8, FilesChange

(* Every record of a file can be read by whoever opens it, with whatever       *)
(* options it was and is opened and whatever a crash has left of it, if no      *)
(* compressed record unmarshals as it is.                                   *)
THEOREM RecordsCanBeRead == S2MayRead = FALSE => (Spec => []RecordsReadable)
<1> SUFFICES ASSUME S2MayRead = FALSE PROVE Spec => []RecordsReadable
  OBVIOUS
<1>1. Init => SessionInv /\ FilesAgree
  BY InitHasInv
<1>2. SessionInv /\ FilesAgree /\ [Next]_vars => (SessionInv /\ FilesAgree)'
  BY StepKeepsSession, StepKeepsAgreement
<1>3. FilesAgree => RecordsReadable
  BY DEF FilesAgree
<1>4. QED
  BY <1>1, <1>2, <1>3, PTL DEF Spec
=============================================================================
