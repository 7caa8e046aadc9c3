--------------------------- MODULE HistoryLoader ---------------------------
(***************************************************************************)
(* loadHistoryFromDB of cmd/root.go next to the collector: when a session  *)
(* with the TUI opens a capture, a goroutine walks all stored revisions in *)
(* one read-only transaction, rebuilds every object revision by revision,  *)
(* puts each state into the tracker's cache (WarmCache) and hands it to    *)
(* the revision handler.  In an interactive session the collector commits  *)
(* at the same time; in a replay session nothing commits; a headless       *)
(* session has no loader.                                                  *)
(*                                                                         *)
(* The loader keeps the map it gives to WarmCache: the same map is then    *)
(* its own last state and the hot state that Commit patches in place       *)
(* (shared).  bbolt, external, remaps its file when it grows: the write    *)
(* transaction that must do so waits until no read-only transaction is     *)
(* open (remapping).                                                       *)
(***************************************************************************)
EXTENDS Tracker

CONSTANTS
  Uses,                   \* each a set of modes: the sessions of one capture are all of
                          \* one of them
  Visible,                \* the versions that pass the filter expression
  GrowsIn                 \* modes in which a write transaction may have to remap the file

Modes == {"headless", "replay", "interactive"}
ASSUME UsesAssumption == Uses \subseteq SUBSET Modes

VARIABLES
  mode,                   \* the present session
  loader,                 \* the loader: "off", "next", "warm", "deliver", "done"
  seen,                   \* the revisions its read-only transaction sees
  visited,                \* how many of them it has rebuilt, per object
  current,                \* the object it is at
  replay,                 \* objectRevisionState: the last state of each object, or None
  shared,                 \* objects whose replay map is the map of the hot state
  delivered,              \* what the handler was given: uid -> sequence of states
  remapping               \* clients whose write transaction has to remap the file

loaderVars == <<loader, seen, visited, current, replay, shared, delivered>>
sessionVars == <<mode, loaderVars, remapping>>
allVars == <<vars, sessionVars>>

LoaderInit ==
  /\ Init
  /\ mode \in UNION Uses
  /\ loader = "off"
  /\ seen = [u \in Uids |-> 0]
  /\ visited = [u \in Uids |-> 0]
  /\ current = None
  /\ replay = [u \in Uids |-> None]
  /\ shared = {}
  /\ delivered = [u \in Uids |-> <<>>]
  /\ remapping = {}

(* The loader's read-only transaction is open. *)
Viewing == loader \in {"next", "warm", "deliver"}

-----------------------------------------------------------------------------
(* WalkObjectRevisions begins. *)
BeginWalk ==
  /\ loader = "off" /\ mode # "headless"
  /\ loader' = "next"
  /\ seen' = latest
  /\ UNCHANGED <<vars, mode, visited, current, replay, shared, delivered, remapping>>

(* A plausible bug: every patch is applied to the base snapshot. *)
RebuildFromBaseOnly(u) ==
  LET x == record[u][visited[u]]
      o == IF x.kind = "snapshot" THEN x.obj ELSE ApplyTo(replay[u].obj, x.patch)
  IN  /\ loader = "next" /\ visited[u] < seen[u]
      /\ \A v \in Uids \ {u} : visited[v] \in {0, seen[v]}
      /\ replay' = IF x.kind = "snapshot"
                   THEN [replay EXCEPT ![u] = [obj |-> o, rev |-> visited[u]]] ELSE replay
      /\ current' = u
      /\ shared' = shared \ {u}
      /\ loader' = "warm"
      /\ UNCHANGED <<vars, mode, seen, visited, delivered, remapping>>

(* The next revision, one object after the other: a snapshot, or a patch     *)
(* applied to a clone of the last state.  (Revision 0 is a snapshot, so the  *)
(* warning about a patch without a snapshot is never given.)                 *)
Rebuild(u) ==
  LET x == record[u][visited[u]]
      o == IF x.kind = "snapshot" THEN x.obj ELSE ApplyTo(replay[u].obj, x.patch)
  IN  /\ loader = "next" /\ visited[u] < seen[u]
      /\ \A v \in Uids \ {u} : visited[v] \in {0, seen[v]}
      /\ replay' = [replay EXCEPT ![u] = [obj |-> o, rev |-> visited[u]]]
      /\ current' = u
      /\ shared' = shared \ {u}
      /\ loader' = "warm"
      /\ UNCHANGED <<vars, mode, seen, visited, delivered, remapping>>

(* WarmCache: under the commit lock of the object the state becomes its hot  *)
(* state; the tracker of a replay session has no cache.                      *)
WarmCache ==
  /\ loader = "warm"
  /\ loader' = "deliver"
  /\ \/ /\ mode = "replay"
        /\ UNCHANGED <<cache, shared>>
     \/ /\ mode # "replay"
        /\ Unlocked(current)
        /\ cache' = CacheSet(current, replay[current])
        /\ shared' = IF cache'[current] = None THEN shared ELSE shared \union {current}
  /\ UNCHANGED <<storeVars, callVars, walkVars, mode, seen, visited, current, replay, delivered,
                 remapping>>

(* The filter, and HandleRevision with the rebuilt object. *)
Deliver ==
  /\ loader = "deliver"
  /\ delivered' = IF replay[current].obj \in Visible
                  THEN [delivered EXCEPT ![current] = Append(@, replay[current])]
                  ELSE delivered
  /\ visited' = [visited EXCEPT ![current] = @ + 1]
  /\ loader' = "next"
  /\ UNCHANGED <<vars, mode, seen, current, replay, shared, remapping>>

(* A plausible bug: the walk follows the newest revisions. *)
EndWalkAtLatest ==
  /\ loader = "next" /\ visited = latest
  /\ loader' = "done"
  /\ UNCHANGED <<vars, mode, seen, visited, current, replay, shared, delivered, remapping>>

(* The walk is over and the transaction closed. *)
EndWalk ==
  /\ loader = "next" /\ visited = seen
  /\ loader' = "done"
  /\ UNCHANGED <<vars, mode, seen, visited, current, replay, shared, delivered, remapping>>

-----------------------------------------------------------------------------
(* The collector calls Commit. *)
Collect(c, u, o) ==
  /\ mode # "replay"
  /\ BeginCommit(c, u, o)
  /\ UNCHANGED sessionVars

(* bbolt finds, while it commits or allocates, that the file must grow. *)
NeedRemap(c) ==
  /\ mode \in GrowsIn
  /\ pc[c] \in {"first", "write"} /\ c \notin remapping
  /\ pc[c] = "write" => ~IsDuplicate(ts[c], newObject[c])
  /\ remapping' = remapping \union {c}
  /\ UNCHANGED <<vars, mode, loaderVars>>

(* The steps of Commit that touch the hot state's map: a snapshot and a cold *)
(* start replace it, a patch is applied to it in place.                      *)
CommitStep(c) ==
  LET u == uid[c]
  IN  /\ c \in remapping => ~Viewing
      /\ remapping' = remapping \ {c}
      /\ \/ /\ ColdStart(c) \/ RestoreGet(c) \/ RestoreApply(c) \/ RefuseDuplicate(c)
              \/ FailWrite(c) \/ Abort(c)
            /\ UNCHANGED <<replay, shared>>
         \/ /\ RestoreReturns(c) \/ WriteFirst(c) \/ WriteSnapshot(c)
            /\ shared' = shared \ {u}
            /\ replay' = replay
         \/ /\ WritePatch(c)
            /\ replay' = IF u \in shared THEN [replay EXCEPT ![u].obj = newObject[c]] ELSE replay
            /\ shared' = shared
      /\ UNCHANGED <<mode, loader, seen, visited, current, delivered>>

(* The janitor of the cache. *)
EvictEntry(u) == Evict(u) /\ UNCHANGED sessionVars

(* The session ends, in order or not, and the capture is opened again. *)
NextSession ==
  /\ Restart
  /\ \E use \in Uses : mode \in use /\ mode' \in use
  /\ loader' = "off"
  /\ seen' = [u \in Uids |-> 0]
  /\ visited' = [u \in Uids |-> 0]
  /\ current' = None
  /\ replay' = [u \in Uids |-> None]
  /\ shared' = {}
  /\ delivered' = [u \in Uids |-> <<>>]
  /\ remapping' = {}

LoaderStep ==
  \/ BeginWalk
  \/ \E u \in Uids : Rebuild(u)
  \/ WarmCache \/ Deliver \/ EndWalk

LoaderNext ==
  \/ LoaderStep
  \/ \E c \in Clients, u \in Uids, o \in Objects : Collect(c, u, o)
  \/ \E c \in Clients : NeedRemap(c) \/ CommitStep(c)
  \/ \E u \in Uids : EvictEntry(u)
  \/ NextSession

LoaderSpec == LoaderInit /\ [][LoaderNext]_allVars

(* Both goroutines go on; the commit lock, a sync.Mutex, is given to the     *)
(* loader when it waits for it.                                              *)
LoaderFairness ==
  /\ SF_allVars(LoaderStep)
  /\ \A c \in Clients : WF_allVars(CommitStep(c))

FairLoaderSpec == LoaderSpec /\ LoaderFairness

-----------------------------------------------------------------------------
(* Revision r of object u as it was committed. *)
CommittedAs(u, r) == [obj |-> content[u][r], rev |-> r]

(* The handler has been given the visible ones of the revisions visited, in  *)
(* their order.                                                              *)
DeliveredOf(u) ==
  LET shown == {r \in 0..(visited[u] - 1) : content[u][r] \in Visible}
  IN  /\ Range(delivered[u]) = {CommittedAs(u, r) : r \in shown}
      /\ \A i, j \in DOMAIN delivered[u] : i < j => delivered[u][i].rev < delivered[u][j].rev

(* "The obj parameter always contains the full object state at this          *)
(* revision" (handler.go:33-35): what the handler has been given of an       *)
(* object is exactly the visible ones of its first revisions, in order, each *)
(* with the version that was committed as it; in the end, of all it saw.     *)
(* (In an interactive session the collector changes what the loader goes on  *)
(* from: EveryRevisionRestores is about that.)                               *)
DeliveredIsHistory ==
  mode # "interactive" => \A u \in Uids :
    DeliveredOf(u) /\ (loader = "done" => visited[u] = seen[u])

(* "allows restoring the full object state at a specific revision"           *)
(* (tracker_service.go:22-23): the records of every revision rebuild the     *)
(* version that was committed as it.                                         *)
EveryRevisionRestores ==
  \A u \in Uids : \A r \in Store!Revisions(u) : Rebuilt(u)[r] = content[u][r]

(* The walk ends, with the session at the latest, also when commits hold the *)
(* locks WarmCache needs: "History is walked one resource at a time ... Sort *)
(* it chronologically and refresh once" (root.go) comes after it.            *)
LoadingEnds == Viewing ~> ~Viewing

-----------------------------------------------------------------------------
(* What the proofs of HistoryLoaderProofs show every step to preserve.       *)

(* No capture that an interactive session records to is opened in another    *)
(* mode: what such a session may leave in the file is EveryRevisionRestores. *)
RecordedHeadless == \A use \in Uses : "interactive" \in use => use = {"interactive"}

LoaderTypeOK ==
  /\ loader \in {"off", "next", "warm", "deliver", "done"}
  /\ seen \in [Uids -> Nat]
  /\ visited \in [Uids -> Nat]
  /\ current \in Uids \union {None}
  /\ replay \in [Uids -> [obj : Objects, rev : Nat] \union {None}]
  /\ delivered \in [Uids -> Seq([obj : Objects, rev : Nat])]

(* The object at hand is at the revision that is being warmed and delivered, *)
(* every other one at the last that has been.                                *)
AtHand(u) == loader \in {"warm", "deliver"} /\ u = current
Replayed(u) == IF AtHand(u) THEN visited[u] ELSE visited[u] - 1

(* The walk is over revisions that stay; the loader's last state of each     *)
(* object is the version committed as the revision it is at.                 *)
WalkIsOnHistory(u) ==
  /\ visited[u] <= seen[u] /\ seen[u] <= latest[u]
  /\ AtHand(u) => visited[u] < seen[u]
  /\ AtHand(u) \/ visited[u] > 0 => replay[u] = CommittedAs(u, Replayed(u))
  /\ loader = "off" => visited[u] = 0 /\ seen[u] = 0
  /\ loader = "done" => visited[u] = seen[u]
  /\ DeliveredOf(u)

LoaderInv ==
  mode # "interactive" =>
    /\ mode \in {"headless", "replay"}
    /\ LoaderTypeOK
    /\ TrackerInv
    /\ shared = {}
    /\ mode = "headless" => loader = "off"
    /\ mode = "replay" => \A c \in Clients : pc[c] = "idle"
    /\ loader \in {"warm", "deliver"} => current \in Uids
    /\ \A u \in Uids : WalkIsOnHistory(u)
=============================================================================
