# loog in TLA+

loog records the changes of Kubernetes objects: informers deliver every version
of the watched objects, a tracker stores them as snapshots and patches in a
bbolt file, and a terminal UI shows the history live or from a capture
(`--replay`). This directory holds TLA+ models of the parts in which order,
concurrency, failure or intricate rules matter, TLC configurations that check
them on small instances, and TLAPS proofs of what holds for every instance.

Paths below are relative to `src/`.

## 1. The system

```
  client-go informers --(callbacks)--> mux --(channel)--> collector --Commit--> TrackerService --> Store (bbolt)
                                                             |                    ^   cache,           |
                                                             | HandleRevision     |   commit locks     |
                                                             v                    | WarmCache          |
             simulation ---> TUI  <--(Program.Send)----- LiveStore <--------- history loader <--------+ Walk
```

| component | state | operations | what is hard | what makes it correct |
|---|---|---|---|---|
| change-sets, `pkg/diffmap` | none | `Diff`, `Apply`, `equalFast` | nested maps patched in place, values that change their type | applying the change-set of two versions to the first gives the second; nothing superfluous is recorded |
| commit locks, `internal/service/tracker_service.go` | table uid -> lock, last use of each, closed | `objLock`, `lockObject`, janitor, `Close` | eviction and re-creation of a lock between lookup and `Lock` | one commit per object at a time; nobody waits for ever |
| tracker, same file and `cache.go` | hot states, and what a call keeps in local variables | `Commit`, `Restore`, `WarmCache`, eviction | state read before a store access and used after it, failures in the middle, restarts | the records rebuild the committed versions; the hot state is the last of them; duplicates are refused |
| revision store, `internal/store/bbolt` | two buckets, a counter in memory, sync loop | `Get`, `SetSnapshot`, `SetPatch`, `GetLatestRevision`, `WalkObjectRevisions`, `Close` | failed transactions after the counter moved, crashes between a commit and a `Sync` | contiguous revisions; what was synced survives |
| history loader and collector, `cmd/root.go` | last rebuilt state of each object | `loadHistoryFromDB`, `runCollector` | both use the tracker at the same time, one of them inside a read transaction | the handler is given every version, in order; both get to their end |
| mux, `pkg/mux` | map of watches, event channel, stopped | `Add`, `Remove`, `Stop`, `dispatch` | callbacks against close, full channel, concurrent `Add` | no send on a closed channel; no event twice or out of order; `Add` returns after the first list |
| live store, `internal/adapter` | resources, timeline, kind groups, watched kinds | `IngestRevision`, `SortTimeline`, `ToggleStar`, `AddWatchKind`, ... | collector, loader, discovery and the UI change it at once; the timeline holds copies | timeline, resources, groups and total agree |
| timeline and analysis, `internal/resource` | none | order, bursts, groups, tags, loop report | missing resource versions, ties, ends of windows | newest first; the report says what the revisions did |
| start-up and shutdown, `cmd/root.go` | contexts, wait group, clean-ups | `run`, `setupProduction`, `runInteractive`, `runHeadless`, `runReplayMode` | order in which goroutines end and resources close, set-ups that fail half way | nothing is used after it was closed; a session that is told to end does |
| record encoding, `internal/store/codec.go`, `bbolt/helpers.go` | compression setting of the file | encode, decode, probe at open | one setting per file, guessed from the first record | what was written can be read |
| terminal UI, `internal/tui` | panels, overlays, freeze buffer, pending messages | bubbletea keys and messages | messages that arrive late, cursors over lists that are rebuilt, revisions while frozen | the views show what the store holds; cursors stay where the user put them |
| simulation, `internal/simulation` | a store of its own, ticks | `AddRevision`, `AddWatchKind`, `RemoveWatchKind` | ticks of before a pause | one chain of ticks |
| diff preview, `pkg/diffpreview` | none | `Preview`, the renderer | lists paired by a guessed key | the preview marks what differs |
| log writer, discovery, filter environment | - | formatting, I/O | nothing | - |

`PROJECT.json` lists the same components with their status and, under
`hazards`, the places in the code where these things bite.

## 2. Modules

Abstract specifications are at the left; each is implemented by the module it
points to.

```
 ObjectMutex  <--implements-- CommitLocks           CommitLocksProofs
 RevisionLog  <--implements-- RevisionStore         RevisionStoreProofs
 RevisionLog  <--implements-- Tracker / MCTracker   TrackerProofs
              (INSTANCE of RevisionLog as the store, History as refinement)
 Tracker  ->  HistoryLoader / MCHistoryLoader       HistoryLoaderProofs
 Mux                                                MuxProofs
 Session                                            SessionProofs
 DiffMap  ->  DiffChain ----+                       DiffProofs
 DiffMap  ->  DiffPreview --+--> Algorithms / MCAlgorithms
 Timeline ->  Arrivals -----+
    |         Scrolling ----+                       UserInterfaceProofs
    |             ^                                   (Arrivals, Scrolling, App)
    +-> LiveStore -> Panels -> Overlays --+
            +-> Simulation ---------------+--> App / MCApp
```

DiffPreview, DiffMap, Timeline, LiveStore, Simulation, Panels and Overlays hold
operators only: what runs in one piece in the code, a pure function or a method
under one mutex or in one turn of the event loop, is an operator from state to
state, and the modules to the right of them have the actions.

**DiffMap** has `Diff`, `Apply` and `equalFast` of `pkg/diffmap`. A value is a
record tagged with its dynamic type, as the type switches of the code tell them
apart; strings, numbers and bools are one kind, because the code compares them
by identity only. The Go functions call themselves on the values inside their
arguments, so each is a recursive function on those (`Inside`: the arguments,
their parts, the parts of these, to `MaxDepth` levels, by which every object
has ended). **DiffChain** is the loop of `Commit` around them: a state that is
patched in place, version after version.

**CommitLocks** models `lockObject` step by step. An action is a section under
`commitLockMutex` or one operation of a lock. `lastUse` is abstract: `Expire`
makes any tracked lock stale at any time, so every timing of the janitor is
covered, and a lock is an address that may be reused when nothing refers to it.
After `Close` callers get locks of their own, as in the code; `admitted` tells
those let in before. **ObjectMutex** is the promise in the comment of
`lockObject`.

**RevisionStore** has the two buckets, the counter in memory, bbolt's single
write transaction and its failure after the claim (`RollbackUpdate`), readers
that fill the counter in two steps (`ViewLatest`, `FillCounter`), the sync loop
and `Close`, and a crash (`CrashAndReopen`). bbolt is external; assumed of it is
what the code assumes: a transaction commits both buckets or neither, and after
a crash the file is in one of the states committed since the last sync. (With
NoSync bbolt itself promises less when the operating system goes down; then the
file may be unusable, which no model of loog can make up for.) **RevisionLog**
is what `store.ResourcePatchStore` promises: an append-only log per object of
which a crash may lose a suffix.

**Tracker** models `Commit` and `Restore` over the log and an ideal lock, which
are what the two modules above implement, plus the counter in memory, because
`GetLatestRevision` prefers it to the store. An action is what a call does
between two accesses to something others change. `FailWrite` is a write that
fails after its claim, `Abort` a read or transaction that fails before.
Eviction (`Evict`) may happen at any time, which covers every TTL and hit count.
`content` is a history variable: the version that was given to the commit of
each revision; `recordedEvery` is another, the interval of the session that wrote
it. `snapshotEvery` is a flag of the process (`--snapshot-interval`), so `Restart`
chooses it anew. A session without a cache behaves as one whose entries are
evicted at once. Versions, change-sets and resource versions are constants:
`RoundTrip` is the assumption that a change-set turns one version into the
other. For `pkg/diffmap` it is a theorem, `PatchTurnsOneIntoTheOther` of
`DiffProofs`, and `MCTracker` takes its change-sets from `DiffMap`, so TLC
evaluates the assumption on them too (it keeps them in tables, made once).

**HistoryLoader** adds `loadHistoryFromDB`, and says of every step of `Commit`
what it does to the map the loader shares with the cache. A session is headless
(collector only), replay (loader only, tracker without cache) or interactive
(both). `NeedRemap` is bbolt's: a write transaction that has to grow the file
waits until no read transaction is open.

**Mux** models `pkg/mux` with an action per section under `Mux.mu`; informers
are external (`InformerSyncs`, `InformerStops`, and callbacks one after the
other). Events are numbers per watch; a dispatch call is in `inflight` from the
`wg.Add` to its `Done`, and in `slow` when it found the channel full and set its
timer. `received` and `missed` are history variables.

**Session** is the process. `p` is the main goroutine (`setup`, `run`, `wait`,
`cleanup`), the list of set-up steps that are left (`todo`) and of the deferred
clean-ups in the order they were pushed, and the state of what it opened and
started: store, tracker, mux, background sync, UI, collector, loader. `files`
outlives it: the encodings of the records in each capture. A session starts
with any flags `validateArgsAndFlags` lets through, may fail at any step of its
set-up, may be killed at any moment, and is followed by others over the same
files. Of a record the model keeps whether it is compressed (`s2`) and whether
its bytes, taken as they are, unmarshal (`reads`). Commits and walks are single
steps here: what happens within them is the subject of `HistoryLoader`.

**Timeline** has the order of revisions, bursts, kind groups, tags and the loop
report of `internal/resource`; **LiveStore** the store behind the UI, one
operator per method, since each runs under the store's mutex and a `*Data` is
copied before it is changed; **Simulation** the store of `--simulate`, which
changes its `*Data` in place (`Shared` in `App` is what this does to those who
hold one).

**Panels** and **Overlays** are the components of the UI. A panel is a record
with the fields of the Go struct that outlive a key; a key gives the next panel
and the messages of its command (`Step`). Cursors count from 0, and -1, which
some of them can take, is a value; an index out of range is the message
`Panic`. **App** is the event loop: it takes a key, one of the messages its
own commands deliver (`pending`, a bag: bubbletea runs each command in a
goroutine of its own, so they arrive in any order), or a message a goroutine
waits to hand over (`sending`; `Program.Send` blocks until the loop takes it).
`feed` is what the collector, the loader and the discovery have left to do;
they change the store whenever they like. Where the code iterates over a map,
every order is allowed (`AllResources`). One action stands for one message or
one layer of key handling.

**Algorithms** feeds the pure operators as the program does: versions that are
committed one after the other (`DiffChain`), versions that are compared,
revisions that arrive (**Arrivals**), and a list that is moved over, resized and
filled anew (**Scrolling**). These are modules of their own because theorems
are proved about them.
**DiffPreview** is the annotated tree of two versions and which of its lines
the renderer shows.

## 3. Runs

| run | what it shows | bounds, and why they are enough |
|---|---|---|
| `Algorithms` | the algorithms over all small inputs: change-sets patch and are minimal, the shortcut equality is equality, the preview is faithful, the timeline is ordered, the loop report is sound, the cursor is drawn | objects to depth three with lists, empty maps and a change of type at every place; lists of two named maps in both orders; five revisions of six kinds, with and without a resource version, against a clock that disagrees (`WindowSize` 4, 10 in the code, so that the fifth moves the window on); lists of 0 to 9 rows on 4 or 7 lines, around both ends of a `scrollOff` of 4. All but the preview are proved for all sizes |
| `CommitLocks` | mutual exclusion, refinement of `ObjectMutex`, every caller gets in, every sweep ends | 2 callers (both can hold an evicted lock while the table has another), 2 objects, 3 addresses (never too few: a caller that creates a lock refers to none); the safety part is proved for all sizes |
| `RevisionStore` | contiguity, durability, counter, refinement of `RevisionLog`, writes return | 3 calls for one writer, 3 revisions, 2 records to tell a rewritten from a kept one; safety is proved for all sizes and for all combinations of `Durable` and `SyncInterval` |
| `RevisionStoreStale` | **violation**, see section 5 | 1 client |
| `Tracker` | the records are the history, restores are right and their chains short, the cache is bounded | two versions with nested maps, and their change-sets by `DiffMap`. Two parts of the state space (`Explored`): 2 clients, so that a commit meets a restore, and 2 objects over a cache of one entry that may be evicted, up to 4 commits in sessions of interval 3: a snapshot, a chain of two patches, the next snapshot (`Crowded`); and one client that commits to one object in sessions of intervals 2 and 3, up to 7 revisions: six patches in a row, their least common multiple, would fit, five occur (`Lonely`). Clients and objects are symmetric |
| `Loader` | a replay delivers the history that headless sessions recorded; in an interactive session on a file that need not grow the load ends and every `Commit` returns | 4 revisions with a period of 3, 3 versions of which a filter hides one; any number of sessions and crashes. A capture's sessions are either headless and replay or interactive (`Uses`): what an interactive one does to the history is the next run |
| `LoaderRestores`, `LoaderRemap` | **violations**, see section 5 | as above, with interactive sessions; in `LoaderRemap` the file may grow |
| `Mux` | channel safety, fate and order of events, `Add` waits, calls return | 2 goroutines and 1 kind, so that one adds while the other's watch starts, fails, is removed or is stopped; 2 entries, of which one has notifications (`Busy`), two of them, over a channel of 1: full channel, timeout and order occur. Deadlock is not checked: after `Stop` nothing is left to do |
| `App` | the store stays consistent, the views catch up, cursors stick, one chain of ticks | fourteen `Scenarios`, each with the keys of one part of the UI, 3 to 5 presses (`presses`) and up to three live revisions: recording with a moving cursor, freezing and stars, history next to live revisions, kinds watched and removed, browsing, filters, comparing, each of the 25 palette commands, console, help, simulation with pauses and with kinds. A defect of order needs two messages under way and a key between them, which every scenario allows. A session ends with `q` or runs out of keys, hence no deadlock check |
| `Session` | nothing is used after close, sessions end, records can be read | 2 files, one of which may be a temporary one; the process starts afresh any number of times, so the state needs no count of sessions; a loader of up to one revision (`MaxHistory`): more are the same step again. `S2MayRead` FALSE: compressed bytes never pass for plain ones |
| `SessionRecords` | **violation**, see section 5 | `S2MayRead` TRUE |

Every run except the violations explores its whole state space, that of `Tracker`
up to the constraint `Explored`. `MCAlgorithms`
and `MCApp` also state, as assumptions that TLC evaluates, what pure functions
outside the actions compute: loop labels differ (`LoopLabelsDiffer`), revision
tags name the changes (`TagsNameTheChanges`), bursts are maximal
(`BurstsAreMaximal`), and the ring of the debug log keeps the newest records
(`LogKeepsTheNewest`).

### Fairness

* `CommitLocks`: goroutines that can run do; a sweep, once begun, goes on. The
  steps that wait for a lock are strongly fair, which is what the starvation
  mode of `sync.Mutex` and the writer preference of `sync.RWMutex` provide. How
  often the janitor sweeps is not assumed. `EveryCallerGetsIn` is stated under
  the hypothesis that the lock a caller waits for does not expire again and
  again: it is used by the commit it waits for, and the janitor runs every
  10 s for locks idle for `lockTTL`.
* `RevisionStore`: a transaction function runs to its end, well or not; bbolt's
  writer lock is a `sync.Mutex`, so waiting for it is strongly fair. Neither
  calls nor syncs, closes or crashes are assumed to happen.
* `HistoryLoader`: both goroutines go on, and the loader, which waits for a
  commit lock, gets it in the end. New events are not assumed.
* `Mux`: callers go on when they can; a dispatch call sends or gives up. Nothing
  is assumed of the informers or of the collector, which stops reading when its
  context is done.
* `Session`: each goroutine goes on. The steps that end a loop by a `select`
  with other ready cases (`StopCollecting`, `EndSync`) are strongly fair: Go
  picks among the ready cases at random. Events, signals and the user are not
  assumed to come.
* `App` has no liveness property: which keys come is the user's business.

## 4. Proofs

Nearly all are proofs of `Spec => []P`, of an action property or of a
refinement, by an inductive invariant; the lemmas have one step per action. The
theorems about change-sets, sorting and loop reports are facts about functions,
from which the same follows for the specifications that feed them.

| module | invariant | theorems |
|---|---|---|
| `CommitLocksProofs` | `LockInv`: who is past `Lock` holds the lock it refers to (`LockOwnership`), and the one admitted works under the lock of the table | `TypeCorrect`, `CommitsExcludeEachOther`, `RefinesObjectMutex` |
| `RevisionStoreProofs` | `StoreInv`: the open transaction is its owner's, what it has read still holds, and every state a crash may bring back lies between the promised and the committed one | `BucketsAgree`, `CounterIsClose`, `CrashLosesOnlyUnsynced`, `RefinesRevisionLog` |
| `TrackerProofs` | `TrackerInv`: the log is sound, what a client knows in each phase is still so (`CallIsConsistent`), a walk is on its chain (`WalkIsOnChain`), the counter in memory is at most one ahead; `PeriodInv`: where patches may stand under the interval they were written with | `TypeCorrect`, `HotStatesAreLast`, `RecordsAreSound`, `RestoreIsCorrect`, `PreviousIDsAreConsecutive`, `DuplicatesAreRefused`, `RestoreChainIsBounded`, `CacheKeepsToItsCapacity`, `TrackerIsAHistory` |
| `HistoryLoaderProofs` | `LoaderInv`: `TrackerInv`, nobody shares the loader's states, and the walk is on the history (`WalkIsOnHistory`) | `HistoryIsDelivered`, `HeadlessCapturesRestore` |
| `DiffProofs` | `ChainInv`: the cached object is the version committed last | `PatchTurnsOneIntoTheOther`, `PatchHasNoSpareEntry`, `ChainNeverDrifts`, `ChangeSetsAreMinimal`, `FastEqualityIsExact` |
| `UserInterfaceProofs` | `StoreIsListed`: timeline entries and stored revisions correspond one to one; `TicksAreAccounted`; `CursorIsOnARow`; `ArrivalsAreNumbered` | `StoreIsConsistentAlways`, `OneChainOfTicks`, `CursorIsAlwaysDrawn`, `TimelineIsSorted`, `LoopReportsAreSound` |
| `MuxProofs` | `MuxInv`: only the one goroutine that set `stopped` closes the channel, entries in use were made; `SyncIsKnown`: who has returned saw its watch synced or revoked; `FlowInv`: where the events of a watch are | `TypeCorrect`, `NoSendOnClosedChannel`, `AddsReturnSynced`, `NoEventIsLost`, `EventsArriveInOrder` |
| `SessionProofs` | `SessionInv`: what is left of the set-up and of the clean-up agrees with what is open, and goroutines run between the two only; `FilesAgree`: the records of a file are of one kind | `TypeCorrect`, `NothingIsUsedAfterClose`, `RecordsCanBeRead` |

Why the invariants are stronger than the properties:

* Mutual exclusion does not follow from itself: after an eviction two callers
  hold different locks for one object. `AdmittedLockIsTracked` says that at most
  one of them can be the table's, which is what the re-check in `lockObject`
  establishes; a sweep keeps it because `TryLock` fails on a held lock.
* `RevisionsAreContiguous` needs that the number a transaction has claimed is
  still the next one when it commits, which holds because nobody else has a
  transaction open.
* `RestoreIsBounded` needs `PatchesAreWithinPeriods` (the number of a patch is no
  multiple of the interval it was written under) and that the patches a walk has
  collected are consecutive revisions (`ChainIsConsecutive`). As many of them as
  a common multiple of their intervals would hold a revision whose number is a
  multiple of it (`MultipleAmong`), hence of its own interval (`DivisorsDivide`).
  Nothing relates the intervals of different sessions, so no smaller bound holds:
  under 2 and 3, five patches in a row occur.
* `RestoredIsCommitted` needs the chain: each collected revision points to the
  next, and the state of the way back is what was committed where the walk is.
* `HotStateIsLastRevision` needs that a commit in progress has its object to
  itself, and that the counter, which a failed write leaves one ahead, makes a
  cold start fail instead of starting from a wrong revision.
* `ImplementsHistory` maps each record to the version it rebuilds to, by a
  function that follows the patches back to their snapshot. There is no least
  revision at which this differs from `content` (`RebuiltIsContent`), so the
  mapping is `content` along the log, which only grows or loses a suffix.
* `CacheIsBounded` needs that the cached objects are a finite set, and that a
  step adds at most one to it, and only when there is room
  (`CacheGrowsWithRoom`).
* `WatchIsInOrder` and `EventsAreConserved` need where an event can be: of each
  watch, the received events precede those in the channel, which are in order
  and precede the one in flight, which is the last notification
  (`QueueInOrder`, `SendsInOrder`, `ReceivedInOrder`); a dropped one is nowhere
  else, and until the stop each is somewhere (`DroppedIsGone`,
  `NothingVanishes`). That at most one call per watch is in flight is what the
  informer, which calls its handlers one after the other, contributes.
* `NothingUsedAfterClose` needs that a set-up which has got as far as `Launch`
  has opened the store (`SetupIsOrdered`) and that the clean-up begins only when
  collector and loader have ended (`WorkersAreWaitedFor`).
* `RecordsReadable` needs that all records of a file agree, which a crash keeps
  because it can only remove some, and that the file of an open store is there:
  its removal is the last of the clean-ups (`CleanupsAreNested`). It is proved
  for `S2MayRead = FALSE`; `SessionRecords` shows that it fails otherwise.

* `DeliveredIsHistory` needs that what the loader rebuilt for an object is the
  version committed as the last revision it visited, and that nobody else works
  on the map it holds: it is none that the cache shares. That fails as soon as a
  collector runs beside the loader, hence the hypothesis `RecordedHeadless`.
* `StoreIsConsistent` is not inductive. It speaks of sets, and two revisions of
  one resource may be equal as values (ids are given by the caller), so removing
  a kind could leave the wrong number. `StoreIsListed` pairs places instead: a
  bijection of the timeline's entries with the places of the stored revisions,
  which `IngestRevision` extends by one pair, sorting permutes, starring leaves
  and removing a kind restricts.
* `CursorIsDrawn` follows from `Viewport` as soon as the cursor is on a row
  (`CursorIsOnARow`), wherever the list started before: at least one row and less
  than half of them are kept free at either end. In between, `pgdown` in an empty
  list takes the cursor to -1; the next fill brings it back (`Clamped`).
* `TimelineIsNewestFirst` needs that revisions are numbered as they arrive: then
  an entry that is inserted behind all it is not newer than is behind all that
  are listed before it, and before all others (`PlaceIsInOrder`), which holds
  because the comparison is transitive among revisions that all carry a resource
  version or all carry none.
* `LoopReportIsSound` needs the numbering for the labels, which are given by
  number. The rest is counting along the window: labels that are 1 and 2 change
  twice between one start of a stay in state 1 and the next
  (`EverySecondTurnReturns`), and the sum of neighbouring distances lies between
  their number times the least and times the greatest (`DistancesAdd`), hence
  the mean between the two. The code's accumulating loops are set expressions in
  `Timeline`, about which this can be said; the state that appears most often
  exists because the positions have a least and a greatest one.
* `OneTickChain` needs `TicksAreAccounted`: no tick that is on its way is of an
  epoch that has yet to begin. A pause and a resume open the next epoch each,
  and a resume sends its only tick; the tick of the current one, taken off the queue, sends at most one
  after it; no other message or key has a tick in what it sends. The messages
  that share data with the store change with it, and none of them is a tick
  (`SharedQueue`).
* The functions of `pkg/diffmap` call themselves. `LevelEquation`,
  `EqualFastRuns`, `DiffRuns`, `ApplyRuns` and `WithoutRuns` show that each of
  them exists on the values inside its arguments and obeys its body there, by
  `DepthInduction`: objects end, so what holds of all values a level further in
  holds of all. The same induction then shows in turn that `equalFast` is
  equality, that an empty change-set means equality, that a change-set is sound
  (it marks a deletion by null and nothing else), that applying it gives the
  second object, and that it does so with no entry left out.

### What is assumed

The named assumptions of the modules, which TLC evaluates on every run:

* `None` is none of the other values, and the bounds are natural numbers.
  `MaxDepth` is any one: the theorems hold of all objects of finite depth.
* `Intervals` of `Tracker` is any non-empty set of positive numbers; sessions may
  choose from it as they like (`NewTrackerService` takes 0 for 8).
* `RoundTrip` of `Tracker`, which `PatchTurnsOneIntoTheOther` proves of
  `DiffMap` for objects without an explicit null (`IsObject`). JSON allows one;
  what happens then is described below.
* `ScrollingAssumption`: lists are drawn in four rows or more.
* `ArrivingAssumption`: revisions are records of the fields the order reads, and
  the window in which a loop is looked for has any size, none or less included.
  `SortedBy` inserts, as Go does for up to twenty elements; for more it merges
  sorted blocks, which gives the same list when the order is transitive, as it is
  where `TimelineIsSorted` applies, and some permutation otherwise, which is all
  that `StoreIsConsistentAlways` needs.
* `SessionsAssumption` of `App`: a session begins with a store in which entries
  and revisions correspond, as they do in a new one (`EmptyStoreIsListed`) and
  after each of its methods (the `...KeepsListed` lemmas), and the revisions that
  reach it are of resources with a UID.
* `UsesAssumption` says no more than that a capture is opened in one of the three
  modes. `RecordedHeadless`, the hypothesis of the loader's theorems, is *not*
  something the code enforces: `LoaderRestores` shows what happens without it.

### What is only model-checked

* Everything about liveness: `EveryCallerGetsIn`, the ends of sweeps, calls,
  loads and sessions.
* `PreviewIsFaithful`: `DiffPreview` and its properties are recursive operators.
  Facts about recursive *functions* are proved here by least counterexample,
  but of recursive operators the prover knows nothing.
* Of `App`: `ViewsCatchUp` and `CursorSticks`, which depend on what every key and
  every message does to the rows of the panels.

## 5. Where code and documentation disagree

Checked by a run that finds the counterexample:

* `RevisionStoreStale`: `GetLatestRevision` "returns the highest committed
  revision" (`internal/store/bbolt/operations.go:95`), but answers from a
  counter that `claimNextRevision` moves before the transaction commits. After
  a failed transaction it names a revision that does not exist. A `Commit`
  without hot state then calls `Restore` with it and fails, and so does every
  later one for that object until a write or a restart resets the counter; a
  write cannot happen before that `Restore` succeeds.
* `LoaderRestores`: in an interactive session on an existing capture,
  `WarmCache` (`cmd/root.go:726`) replaces the collector's newer hot states, and
  the loader goes on from the very map `Commit` patches in place. Change-sets
  are then made from states that were never a version of the object, and the
  stored records do not rebuild what was committed. The same cause makes the
  tracker accept a resource version twice and hands the handler objects that are
  not the ones of the revision.
* `LoaderRemap`: `WarmCache` waits for a commit lock inside the walk's read
  transaction. If the commit that holds it must grow the file, bbolt waits for
  the read transaction: loader and collector are stuck.
* `SessionRecords`: the probe at open "aligns s.compress with how the file was
  actually written" (`internal/store/bbolt/helpers.go:111`) by unmarshalling the
  first record as it is. An s2 block begins with the length of its content as a
  varint; for a length of 64, 0 or 16 modulo 128 (and at least 128) the first
  byte is msgpack's nil, empty map or empty array, which decodes into a struct
  without error. The compressed file is then opened as a plain one, its records
  come back empty or not at all, and new ones are appended uncompressed.

Met while modelling, and visible in the models without a run of their own:

* Store and tracker. A key with an explicit null is written to the change-set as
  null, which `Apply` takes for a deletion (`pkg/diffmap/apply.go:20`): over
  objects with `NilValue` in them, which `ObjectsAssumption` excludes,
  `PatchedStateIsLastVersion` does not hold.
  `snapshotEvery` is documented as "create full snapshot after this many
  patches" (`tracker_service.go:26`); it is the period in revisions, so one
  patch less lies between two snapshots (`EndOfPeriod`). The position in the
  period is counted from revision 0 and not from the last snapshot: when a file
  is appended to with another `--snapshot-interval`, which is to "write a full
  snapshot every N patches" (`README.md:145`), more patches than either interval
  can follow each other (`RestoreIsBounded` says how many).
* Mux. The clean-up of a failed `Add` (`pkg/mux/mux.go:184`) deletes whatever
  entry its kind has by then, and an `Add` that waited asks `Has` for the kind
  and not for the entry it waited for: with a third caller that adds the kind
  anew, an informer goes on running that is in no map, or an `Add` returns
  before the first list of the present watch. `AddReturnsSynced` is therefore
  about the entry a caller waited for. loog itself never calls `Remove`. "So no
  events are missed" (`mux.go:8`): `dispatch` drops an event after 100 ms
  (`GiveUp`), and with a resync period of 0 it is not delivered again.
  Cancelling the parent context "is equivalent to calling Stop" (`mux.go:96-97`),
  but does not close the event channel (`ParentCancelled`).
* Live store. A kind that was removed comes back with its next revision
  (`IngestRevision`), since removing it does not stop its informer
  (`cmd/root.go:464`); removing does not return it to the kinds that can be
  added. The revisions of a resource are kept in the order of their arrival, so
  a live one can precede those the loader brings.
* UI. Hiding the selected resource empties the list of revisions but neither the
  detail panel nor `tree.selected` (`SetNoResource`), so the next live revision
  of the hidden resource shows it again, against "deselect it so the detail
  panel doesn't show a hidden resource" (`tui/app.go:837-838`). The flush of the
  freeze buffer shows the selected resource's revisions anew only if it is the
  last one buffered, and a selection message that is handled late carries an
  older `*Data` (`ResourceSelected`): the rows catch up (`ViewsCatchUp`), these
  panels need not. `JumpToTimeline` looks for a revision's number only, which is
  per object. `pgdown` in an empty tree or timeline sets the cursor to -1
  (`Moved`), which the next key can read (`Panic`). A height below 4 can hide
  the cursor's row under the line of the hidden rows. A pause in a recording
  session changes the header only; `Program.Send` is called "non-blocking"
  (`adapter/handler.go:55`) and is not.
* Simulation. A kind that is added twice leaves timeline entries of resources
  that were replaced, hence `~Simulating` in `StoreStaysConsistent`. When no
  resource is left the chain of ticks ends, and adding a kind does not start
  another. In a frozen view the data changes all the same (`Shared`).
* Analysis and preview. Fingerprints contain the resource version, so states
  from an API server never repeat and no loop is found; with objects as the
  tests give them a loop over three states counts as many cycles as there were
  returns to any state, against "complete oscillation cycles"
  (`resource/analysis.go:126`). `CompareRevisionsNewestFirst` is not transitive
  when some revisions have no resource version. Elements that share a match key
  hide each other in a preview, and scalars in a list paired by key show as
  removed and added though equal (`ListByKey`).

## 6. Not modelled

* Discovery and filter expressions (`internal/util`): I/O and library calls. The
  filter is a set of versions, or a choice.
* The drawing of the UI, except for which rows of a list are visible and which
  lines of a preview are; export, clipboard and mouse; the editing of a search
  text (a text is the name it matches); the drift report and formatting of
  `internal/resource`; the objects the simulation invents.
* Writing logs to the UI: the ring that keeps them is `DebugLog` in `Overlays`.
* Time stamps, logging and formatting everywhere. msgpack, s2, bbolt, client-go
  and bubbletea are external: the models contain what the code relies on.
* The cache's `close`, which leaves a nil map behind: `Session` shows that
  nothing is committed or restored after it.

## 7. What is left

1. A composition of `HistoryLoader` with `LiveStore`, so that what the timeline
   shows is related to what was committed.
2. `Mux` with three callers and two kinds, once its state space is reduced.
3. Proofs of `ViewsCatchUp` and `CursorSticks`.
