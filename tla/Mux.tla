-------------------------------- MODULE Mux --------------------------------
(***************************************************************************)
(* pkg/mux: a Mux starts an informer per GroupVersionResource on demand    *)
(* and merges their events into one bounded channel, read by the           *)
(* collector.                                                              *)
(*                                                                         *)
(* Every section under Mux.mu is one action.  The informer of client-go    *)
(* is external: once started it lists (HasSynced), hands its notifications *)
(* to dispatch one after the other, and stops some time after its context  *)
(* is done.  An event is the number of a notification of a watch.          *)
(***************************************************************************)
EXTENDS Naturals, Sequences, FiniteSets

CONSTANTS
  Callers,                \* goroutines that call Add, Remove or Stop
  Removers,               \* those of them that call Remove
  Gvrs,                   \* GroupVersionResources
  Watches,                \* watchEntry pointers; bounds the calls of Add
  None,                   \* no entry
  Buffer,                 \* capacity of the event channel
  MaxEvents,              \* bound: notifications of an informer
  Busy,                   \* bound: the watches whose informer has any
  RegisterCanFail         \* AddEventHandler may return an error

ASSUME MuxAssumption ==
  /\ Removers \subseteq Callers
  /\ None \notin Watches
  /\ None \notin Gvrs
  /\ Buffer \in Nat \ {0}
  /\ MaxEvents \in Nat
  /\ Busy \subseteq Watches
  /\ RegisterCanFail \in BOOLEAN

VARIABLES
  stopped,                \* Mux.stopped
  cancelled,              \* Mux.ctx is done
  closed,                 \* the event channel is closed
  watches,                \* Mux.watches: gvr -> entry, or None
  gvrOf,                  \* the gvr an entry was made for; None: not made yet
  revoked,                \* entries whose cancel was called
  released,               \* entries whose channel synced is closed
  informer,               \* per entry: "off", "running", "stopped"
  synced,                 \* entries whose informer has synced
  notified,               \* per entry: the notifications dispatched so far
  inflight,               \* events in a dispatch call that holds the WaitGroup
  slow,                   \* those of them that found the channel full
  events,                 \* the event channel
  received,               \* per entry: the events the collector got (history)
  missed,                 \* events dropped (history)
  pc,                     \* what each caller is doing
  slot                    \* the entry its Add is about

mapVars      == <<watches, gvrOf, revoked>>
informerVars == <<informer, synced, notified>>
flowVars     == <<inflight, slow, events, received, missed>>
stopVars     == <<stopped, cancelled, closed>>
callVars     == <<pc, slot>>
vars == <<stopVars, mapVars, released, informerVars, flowVars, callVars>>

Events == [watch : Watches, no : 1..MaxEvents]

Phases == {"idle", "start", "sync", "unwatch", "release", "wait", "recheck",
           "cancel", "drain", "close"}

Init ==
  /\ stopped = FALSE /\ cancelled = FALSE /\ closed = FALSE
  /\ watches = [v \in Gvrs |-> None]
  /\ gvrOf = [e \in Watches |-> None]
  /\ revoked = {} /\ released = {}
  /\ informer = [e \in Watches |-> "off"]
  /\ synced = {}
  /\ notified = [e \in Watches |-> 0]
  /\ inflight = {} /\ slow = {}
  /\ events = <<>>
  /\ received = [e \in Watches |-> {}]
  /\ missed = {}
  /\ pc = [g \in Callers |-> "idle"]
  /\ slot = [g \in Callers |-> None]

(* The context of an entry is done: its own cancel, or the Mux's. *)
ContextDone(e) == cancelled \/ e \in revoked

Goto(g, phase) == pc' = [pc EXCEPT ![g] = phase]

-----------------------------------------------------------------------------
(* Add, under the lock: wait for the entry there is, or reserve the slot.    *)
(* (When stopped it returns ErrStopped and nothing changes.)                 *)
CallAdd(g, v) ==
  /\ pc[g] = "idle"
  /\ ~stopped
  /\ \/ /\ watches[v] # None
        /\ slot' = [slot EXCEPT ![g] = watches[v]]
        /\ Goto(g, "wait")
        /\ UNCHANGED <<gvrOf, watches>>
     \/ /\ watches[v] = None
        /\ \E e \in Watches :
             /\ gvrOf[e] = None
             /\ gvrOf' = [gvrOf EXCEPT ![e] = v]
             /\ watches' = [watches EXCEPT ![v] = e]
             /\ slot' = [slot EXCEPT ![g] = e]
             /\ Goto(g, "start")
  /\ UNCHANGED <<stopVars, revoked, released, informerVars, flowVars>>

(* The handlers are registered and the informer started. *)
StartInformer(g) ==
  /\ pc[g] = "start"
  /\ informer' = [informer EXCEPT ![slot[g]] = "running"]
  /\ Goto(g, "sync")
  /\ UNCHANGED <<stopVars, mapVars, released, synced, notified, flowVars, slot>>

(* AddEventHandler or WaitForCacheSync failed: cancel, then unwatch. *)
AddFails(g) ==
  /\ \/ pc[g] = "start" /\ RegisterCanFail
     \/ pc[g] = "sync" /\ ContextDone(slot[g])
  /\ revoked' = revoked \union {slot[g]}
  /\ Goto(g, "unwatch")
  /\ UNCHANGED <<stopVars, watches, gvrOf, released, informerVars, flowVars, slot>>

(* unwatch deletes whatever entry the map holds for the gvr. *)
Unwatch(g) ==
  /\ pc[g] = "unwatch"
  /\ watches' = [watches EXCEPT ![gvrOf[slot[g]]] = None]
  /\ Goto(g, "release")
  /\ UNCHANGED <<stopVars, gvrOf, revoked, released, informerVars, flowVars, slot>>

(* A plausible bug: the polling does not ask HasSynced. *)
SyncedAtOnce(g) ==
  /\ pc[g] = "sync"
  /\ Goto(g, "release")
  /\ UNCHANGED <<stopVars, mapVars, released, informerVars, flowVars, slot>>

(* WaitForCacheSync sees that the informer has synced. *)
CacheSynced(g) ==
  /\ pc[g] = "sync"
  /\ slot[g] \in synced
  /\ Goto(g, "release")
  /\ UNCHANGED <<stopVars, mapVars, released, informerVars, flowVars, slot>>

(* A plausible bug: the channel is not closed. *)
ReturnWithoutRelease(g) ==
  /\ pc[g] = "release"
  /\ Goto(g, "idle")
  /\ slot' = [slot EXCEPT ![g] = None]
  /\ UNCHANGED <<stopVars, mapVars, released, informerVars, flowVars>>

(* Add returns; the deferred close lets the waiters go on. *)
Release(g) ==
  /\ pc[g] = "release"
  /\ released' = released \union {slot[g]}
  /\ Goto(g, "idle")
  /\ slot' = [slot EXCEPT ![g] = None]
  /\ UNCHANGED <<stopVars, mapVars, informerVars, flowVars>>

(* A waiting Add is woken by the close of synced or, ErrStopped, by m.ctx. *)
WaiterWakes(g) ==
  /\ pc[g] = "wait"
  /\ \/ /\ slot[g] \in released
        /\ Goto(g, "recheck")
        /\ slot' = slot
     \/ /\ cancelled
        /\ Goto(g, "idle")
        /\ slot' = [slot EXCEPT ![g] = None]
  /\ UNCHANGED <<stopVars, mapVars, released, informerVars, flowVars>>

(* Has: if the gvr is in the map, the waiting Add has succeeded. *)
Recheck(g) ==
  /\ pc[g] = "recheck"
  /\ Goto(g, "idle")
  /\ slot' = [slot EXCEPT ![g] = None]
  /\ UNCHANGED <<stopVars, mapVars, released, informerVars, flowVars>>

(* Remove of a gvr that is in the map. *)
Remove(g, v) ==
  /\ pc[g] = "idle"
  /\ watches[v] # None
  /\ revoked' = revoked \union {watches[v]}
  /\ watches' = [watches EXCEPT ![v] = None]
  /\ UNCHANGED <<stopVars, gvrOf, released, informerVars, flowVars, callVars>>

-----------------------------------------------------------------------------
(* A plausible bug: every Stop goes on to close the channel. *)
StopAgain(g) ==
  /\ pc[g] = "idle"
  /\ stopped' = TRUE
  /\ Goto(g, "cancel")
  /\ UNCHANGED <<cancelled, closed, mapVars, released, informerVars, flowVars, slot>>

(* The first Stop sets the flag; a later one returns. *)
CallStop(g) ==
  /\ pc[g] = "idle"
  /\ ~stopped
  /\ stopped' = TRUE
  /\ Goto(g, "cancel")
  /\ UNCHANGED <<cancelled, closed, mapVars, released, informerVars, flowVars, slot>>

(* m.cancel *)
CancelAll(g) ==
  /\ pc[g] = "cancel"
  /\ cancelled' = TRUE
  /\ Goto(g, "drain")
  /\ UNCHANGED <<stopped, closed, mapVars, released, informerVars, flowVars, slot>>

(* wg.Wait *)
Drain(g) ==
  /\ pc[g] = "drain"
  /\ inflight = {}
  /\ Goto(g, "close")
  /\ UNCHANGED <<stopVars, mapVars, released, informerVars, flowVars, slot>>

Close(g) ==
  /\ pc[g] = "close"
  /\ closed' = TRUE
  /\ Goto(g, "idle")
  /\ UNCHANGED <<stopped, cancelled, mapVars, released, informerVars, flowVars, slot>>

(* The context the Mux was made with is cancelled. *)
ParentCancelled ==
  /\ ~cancelled
  /\ cancelled' = TRUE
  /\ UNCHANGED <<stopped, closed, mapVars, released, informerVars, flowVars, callVars>>

-----------------------------------------------------------------------------
(* The informer (client-go, external). *)
InformerSyncs(e) ==
  /\ informer[e] = "running"
  /\ e \notin synced
  /\ synced' = synced \union {e}
  /\ UNCHANGED <<stopVars, mapVars, released, informer, notified, flowVars, callVars>>

(* It stops when its context is done and its handler has returned. *)
InformerStops(e) ==
  /\ informer[e] = "running"
  /\ ContextDone(e)
  /\ \A d \in inflight : d.watch # e
  /\ informer' = [informer EXCEPT ![e] = "stopped"]
  /\ UNCHANGED <<stopVars, mapVars, released, synced, notified, flowVars, callVars>>

(* A plausible bug: the handler runs dispatch in a goroutine of its own. *)
DispatchInGoroutine(e) ==
  /\ informer[e] = "running"
  /\ e \in Busy /\ notified[e] < MaxEvents
  /\ notified' = [notified EXCEPT ![e] = @ + 1]
  /\ inflight' = IF stopped THEN inflight
                 ELSE inflight \union {[watch |-> e, no |-> notified[e] + 1]}
  /\ UNCHANGED <<stopVars, mapVars, released, informer, synced, slow, events, received, missed,
                 callVars>>

(* A plausible bug: the flag stopped is not looked at. *)
DispatchAlways(e) ==
  /\ informer[e] = "running"
  /\ e \in Busy /\ notified[e] < MaxEvents
  /\ \A d \in inflight : d.watch # e
  /\ notified' = [notified EXCEPT ![e] = @ + 1]
  /\ inflight' = inflight \union {[watch |-> e, no |-> notified[e] + 1]}
  /\ UNCHANGED <<stopVars, mapVars, released, informer, synced, slow, events, received, missed,
                 callVars>>

(* The informer's handler calls dispatch with its next notification, which   *)
(* enters the WaitGroup unless the Mux is stopped.                           *)
Dispatch(e) ==
  /\ informer[e] = "running"
  /\ e \in Busy /\ notified[e] < MaxEvents
  /\ \A d \in inflight : d.watch # e
  /\ notified' = [notified EXCEPT ![e] = @ + 1]
  /\ inflight' = IF stopped THEN inflight
                 ELSE inflight \union {[watch |-> e, no |-> notified[e] + 1]}
  /\ UNCHANGED <<stopVars, mapVars, released, informer, synced, slow, events, received, missed,
                 callVars>>

(* A plausible bug: no return after the send of the fast path. *)
SendTwice(d) ==
  /\ d \in inflight
  /\ \/ /\ Len(events) < Buffer
        /\ events' = Append(events, d)
        /\ IF d \in slow THEN inflight' = inflight \ {d} /\ slow' = slow \ {d}
           ELSE inflight' = inflight /\ slow' = slow \union {d}
     \/ /\ Len(events) = Buffer /\ d \notin slow
        /\ slow' = slow \union {d}
        /\ UNCHANGED <<inflight, events>>
  /\ UNCHANGED <<stopVars, mapVars, released, informerVars, received, missed, callVars>>

(* The send succeeds, at once or within the timeout, or finds the channel    *)
(* full and goes on to the second select.                                    *)
Send(d) ==
  /\ d \in inflight
  /\ \/ /\ Len(events) < Buffer
        /\ events' = Append(events, d)
        /\ inflight' = inflight \ {d}
        /\ slow' = slow \ {d}
     \/ /\ Len(events) = Buffer /\ d \notin slow
        /\ slow' = slow \union {d}
        /\ UNCHANGED <<inflight, events>>
  /\ UNCHANGED <<stopVars, mapVars, released, informerVars, received, missed, callVars>>

(* A plausible bug: the second send has neither a timeout nor the context. *)
GiveUpOnlyWithRoom(d) ==
  /\ d \in slow
  /\ Len(events) < Buffer
  /\ inflight' = inflight \ {d}
  /\ slow' = slow \ {d}
  /\ missed' = missed \union {d}
  /\ UNCHANGED <<stopVars, mapVars, released, informerVars, events, received, callVars>>

(* The timer of eventDeliveryTimeout fires, or m.ctx is done: dropped. *)
GiveUp(d) ==
  /\ d \in slow
  /\ inflight' = inflight \ {d}
  /\ slow' = slow \ {d}
  /\ missed' = missed \union {d}
  /\ UNCHANGED <<stopVars, mapVars, released, informerVars, events, received, callVars>>

(* The collector receives an event. *)
Receive ==
  /\ events # <<>>
  /\ events' = Tail(events)
  /\ LET d == Head(events)
     IN  received' = [received EXCEPT ![d.watch] = @ \union {d.no}]
  /\ UNCHANGED <<stopVars, mapVars, released, informerVars, inflight, slow, missed, callVars>>

CallerStep(g) ==
  \/ StartInformer(g) \/ AddFails(g) \/ Unwatch(g) \/ CacheSynced(g) \/ Release(g)
  \/ WaiterWakes(g) \/ Recheck(g)
  \/ CancelAll(g) \/ Drain(g) \/ Close(g)

Next ==
  \/ \E g \in Callers, v \in Gvrs : CallAdd(g, v)
  \/ \E g \in Removers, v \in Gvrs : Remove(g, v)
  \/ \E g \in Callers : CallStop(g) \/ CallerStep(g)
  \/ ParentCancelled
  \/ \E e \in Watches : InformerSyncs(e) \/ InformerStops(e) \/ Dispatch(e)
  \/ \E d \in inflight : Send(d) \/ GiveUp(d)
  \/ Receive

Spec == Init /\ [][Next]_vars

(* A caller goes on when it can; a dispatch call sends or, when its timer    *)
(* has fired, gives up.  Nothing is assumed of who calls, of the informers,  *)
(* nor of the collector, which stops reading when its context is done.       *)
Fairness ==
  /\ \A g \in Callers : WF_vars(CallerStep(g))
  /\ \A d \in Events : WF_vars(Send(d)) /\ WF_vars(GiveUp(d))

FairSpec == Spec /\ Fairness

-----------------------------------------------------------------------------
(* The type of every variable. *)
TypeOK ==
  /\ stopped \in BOOLEAN /\ cancelled \in BOOLEAN /\ closed \in BOOLEAN
  /\ watches \in [Gvrs -> Watches \union {None}]
  /\ gvrOf \in [Watches -> Gvrs \union {None}]
  /\ revoked \subseteq Watches /\ released \subseteq Watches /\ synced \subseteq Watches
  /\ informer \in [Watches -> {"off", "running", "stopped"}]
  /\ notified \in [Watches -> 0..MaxEvents]
  /\ inflight \subseteq Events /\ slow \subseteq inflight /\ missed \subseteq Events
  /\ events \in Seq(Events) /\ Len(events) <= Buffer
  /\ received \in [Watches -> SUBSET (1..MaxEvents)]
  /\ pc \in [Callers -> Phases]
  /\ slot \in [Callers -> Watches \union {None}]

(* No goroutine ever sends on the closed event channel, or closes it a       *)
(* second time, however Stop races with the informers' callbacks and with    *)
(* other calls of Stop.                                                      *)
ChannelIsSafe ==
  /\ closed => inflight = {}
  /\ \A g \in Callers : pc[g] = "close" => ~closed /\ inflight = {}

(* What is to become of event d: it is being sent, in the channel, received  *)
(* or dropped.                                                               *)
Fates(d) ==
  (IF d \in inflight THEN 1 ELSE 0) + (IF d.no \in received[d.watch] THEN 1 ELSE 0)
    + (IF d \in missed THEN 1 ELSE 0)
    + Cardinality({i \in 1..Len(events) : events[i] = d})

(* Until the Mux is stopped every notification is accounted for exactly      *)
(* once: none is duplicated, and none is lost but those that timed out.      *)
EventsAreConserved ==
  ~stopped => \A d \in Events : Fates(d) = (IF d.no <= notified[d.watch] THEN 1 ELSE 0)

(* The collector gets the events of a watch in the order of the informer, so *)
(* the revisions it commits for an object are in order.                      *)
WatchIsInOrder ==
  [][\A e \in Watches : \A n \in received'[e] \ received[e], k \in received[e] : k < n]_vars

(* Add for an already-watched GVR "blocks until that watch has synced, then  *)
(* returns" (mux.go:123-125): the Add that started a watch succeeds, and the *)
(* ones that waited for it ask Has, only once it has synced or was revoked   *)
(* by a failure, a Remove or a Stop.                                         *)
AddReturnsSynced ==
  \A g \in Callers :
    pc[g] \in {"recheck", "release"} => slot[g] \in synced \union revoked

(* Once the Mux is stopped or its context done every call returns, though    *)
(* informers never sync and nobody reads the channel any more.               *)
CallsReturnWhenStopped ==
  \A g \in Callers : (stopped \/ cancelled) /\ pc[g] # "idle" ~> pc[g] = "idle"

(* Every Add that waits for another's returns when the watch has synced. *)
WaitersAreReleased ==
  \A g \in Callers : pc[g] = "wait" /\ slot[g] \in synced ~> pc[g] # "wait"

-----------------------------------------------------------------------------
(* What the proofs show every step to preserve: who has stopped the Mux is   *)
(* the only one to close the channel, after which nothing is in flight.      *)
Stopping(g) == pc[g] \in {"cancel", "drain", "close"}

OneStopper ==
  /\ closed => stopped
  /\ \A g \in Callers : Stopping(g) => stopped /\ ~closed
  /\ \A g, h \in Callers : Stopping(g) /\ Stopping(h) => g = h

(* An Add in progress is about an entry that was made for its gvr. *)
EntriesAreMade ==
  /\ \A g \in Callers :
       pc[g] \in {"start", "sync", "unwatch", "release", "wait", "recheck"} => slot[g] # None
  /\ \A g \in Callers : slot[g] # None => gvrOf[slot[g]] # None
  /\ \A v \in Gvrs : watches[v] # None => gvrOf[watches[v]] = v

MuxInv == TypeOK /\ ChannelIsSafe /\ OneStopper /\ EntriesAreMade

(* A watch whose Add has returned, or is about to, has synced or was revoked. *)
SyncIsKnown ==
  /\ AddReturnsSynced
  /\ released \subseteq synced \union revoked
  /\ \A g \in Callers : pc[g] = "unwatch" => slot[g] \in revoked

(* Of each watch, what is received comes before what is in the channel,      *)
(* whose order is the informer's, and that before the one being sent, which  *)
(* is the last notification.                                                 *)
QueueInOrder ==
  /\ \A i \in 1..Len(events) : events[i].no <= notified[events[i].watch]
  /\ \A i, j \in 1..Len(events) :
       i < j /\ events[i].watch = events[j].watch => events[i].no < events[j].no
SendsInOrder ==
  \A d \in inflight :
    /\ d.no = notified[d.watch]
    /\ \A i \in 1..Len(events) : events[i].watch = d.watch => events[i].no < d.no
ReceivedInOrder ==
  \A e \in Watches : \A k \in received[e] :
    /\ k <= notified[e]
    /\ \A i \in 1..Len(events) : events[i].watch = e => k < events[i].no
    /\ \A d \in inflight : d.watch = e => k < d.no

(* What was dropped is nowhere else; what was not is somewhere. *)
Queued(d) == \E i \in 1..Len(events) : events[i] = d
DroppedIsGone ==
  \A d \in missed :
    d.no <= notified[d.watch] /\ d \notin inflight /\ ~Queued(d) /\ d.no \notin received[d.watch]
NothingVanishes ==
  ~stopped => \A d \in Events :
    d.no <= notified[d.watch] =>
      d \in inflight \/ d \in missed \/ Queued(d) \/ d.no \in received[d.watch]

FlowInv == QueueInOrder /\ SendsInOrder /\ ReceivedInOrder /\ DroppedIsGone /\ NothingVanishes
=============================================================================
