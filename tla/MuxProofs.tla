----------------------------- MODULE MuxProofs -----------------------------
(***************************************************************************)
(* Proofs about Mux, for every number of callers, kinds and informers and  *)
(* every capacity of the channel.                                          *)
(***************************************************************************)
EXTENDS Mux, FiniteSetTheorems, TLAPS

(* The first capacity bound: a send keeps the channel a sequence of events   *)
(* that fits.                                                                *)
LEMMA SendFits ==
  ASSUME TypeOK, NEW d \in Events, Len(events) < Buffer
  PROVE  /\ Append(events, d) \in Seq(Events)
         /\ Len(Append(events, d)) <= Buffer
  BY MuxAssumption DEF TypeOK

(* What is received leaves a sequence of events that fits. *)
LEMMA ReceiveFits ==
  ASSUME TypeOK, events # <<>>
  PROVE  /\ Tail(events) \in Seq(Events)
         /\ Len(Tail(events)) <= Buffer
         /\ Head(events) \in Events
  BY MuxAssumption DEF TypeOK

(* The first state. *)
LEMMA InitHasInv == Init => MuxInv
  <1> SUFFICES ASSUME Init PROVE MuxInv
    OBVIOUS
  <1>1. TypeOK
    <2>1. <<>> \in Seq(Events) /\ Len(<<>>) = 0 /\ 0 <= Buffer /\ 0 \in 0..MaxEvents
      BY MuxAssumption
    <2>2. QED
      BY <2>1 DEF Init, TypeOK, Phases
  <1>2. QED
    BY <1>1, MuxAssumption DEF Init, MuxInv, ChannelIsSafe, OneStopper, EntriesAreMade, Stopping

-----------------------------------------------------------------------------
(* Type correctness of every step. *)
LEMMA StepKeepsType ==
  ASSUME MuxInv, [Next]_vars
  PROVE  TypeOK'
<1>0. TypeOK /\ EntriesAreMade
  BY DEF MuxInv
<1> USE DEF stopVars, mapVars, informerVars, flowVars, callVars, Goto, Phases
<1>1. ASSUME NEW g \in Callers, NEW v \in Gvrs, CallAdd(g, v)
      PROVE  TypeOK'
  <2>1. CASE watches[v] # None
    BY <1>0, <1>1, <2>1 DEF CallAdd, TypeOK
  <2>2. CASE watches[v] = None
    <3>1. PICK e \in Watches :
            /\ gvrOf' = [gvrOf EXCEPT ![e] = v]
            /\ watches' = [watches EXCEPT ![v] = e]
            /\ slot' = [slot EXCEPT ![g] = e]
            /\ pc' = [pc EXCEPT ![g] = "start"]
      BY <1>1, <2>2 DEF CallAdd
    <3>2. UNCHANGED <<stopVars, revoked, released, informerVars, flowVars>>
      BY <1>1 DEF CallAdd
    <3>3. QED
      BY <1>0, <3>1, <3>2 DEF TypeOK
  <2>3. QED
    BY <2>1, <2>2
<1>2. ASSUME NEW g \in Removers, NEW v \in Gvrs, Remove(g, v)
      PROVE  TypeOK'
  BY <1>0, <1>2 DEF Remove, TypeOK
<1>3. ASSUME NEW g \in Callers, CallStop(g)
      PROVE  TypeOK'
  BY <1>0, <1>3 DEF CallStop, TypeOK
<1>4. ASSUME NEW g \in Callers, CallerStep(g)
      PROVE  TypeOK'
  <2>1. CASE StartInformer(g)
    BY <1>0, <2>1 DEF StartInformer, TypeOK
  <2>2. CASE AddFails(g)
    <3>1. slot[g] \in Watches
      BY <1>0, <2>2 DEF AddFails, TypeOK, EntriesAreMade
    <3>2. QED
      BY <1>0, <2>2, <3>1 DEF AddFails, TypeOK
  <2>3. CASE Unwatch(g)
    BY <1>0, <2>3 DEF Unwatch, TypeOK
  <2>4. CASE CacheSynced(g)
    BY <1>0, <2>4 DEF CacheSynced, TypeOK
  <2>5. CASE Release(g)
    <3>1. slot[g] \in Watches
      BY <1>0, <2>5 DEF Release, TypeOK, EntriesAreMade
    <3>2. QED
      BY <1>0, <2>5, <3>1 DEF Release, TypeOK
  <2>6. CASE WaiterWakes(g)
    BY <1>0, <2>6 DEF WaiterWakes, TypeOK
  <2>7. CASE Recheck(g)
    BY <1>0, <2>7 DEF Recheck, TypeOK
  <2>8. CASE CancelAll(g)
    BY <1>0, <2>8 DEF CancelAll, TypeOK
  <2>9. CASE Drain(g)
    BY <1>0, <2>9 DEF Drain, TypeOK
  <2>10. CASE Close(g)
    BY <1>0, <2>10 DEF Close, TypeOK
  <2>11. QED
    BY <1>4, <2>1, <2>2, <2>3, <2>4, <2>5, <2>6, <2>7, <2>8, <2>9, <2>10 DEF CallerStep
<1>5. CASE ParentCancelled
  BY <1>0, <1>5 DEF ParentCancelled, TypeOK
<1>6. ASSUME NEW e \in Watches, InformerSyncs(e)
      PROVE  TypeOK'
  BY <1>0, <1>6 DEF InformerSyncs, TypeOK
<1>7. ASSUME NEW e \in Watches, InformerStops(e)
      PROVE  TypeOK'
  BY <1>0, <1>7 DEF InformerStops, TypeOK
<1>8. ASSUME NEW e \in Watches, Dispatch(e)
      PROVE  TypeOK'
  <2>1. notified[e] + 1 \in 1..MaxEvents
    BY <1>0, <1>8, MuxAssumption DEF Dispatch, TypeOK
  <2>2. notified' \in [Watches -> 0..MaxEvents]
    BY <1>0, <1>8, <2>1, MuxAssumption DEF Dispatch, TypeOK
  <2>3. inflight' \subseteq Events /\ inflight \subseteq inflight'
    BY <1>0, <1>8, <2>1 DEF Dispatch, TypeOK, Events
  <2>4. QED
    BY <1>0, <1>8, <2>2, <2>3 DEF Dispatch, TypeOK
<1>9. ASSUME NEW d \in inflight, Send(d)
      PROVE  TypeOK'
  <2>1. d \in Events
    BY <1>0 DEF TypeOK
  <2>2. CASE Len(events) < Buffer /\ events' = Append(events, d)
    <3>1. events' \in Seq(Events) /\ Len(events') <= Buffer
      BY <1>0, <2>1, <2>2, SendFits
    <3>2. inflight' \subseteq Events /\ slow' \subseteq inflight'
      BY <1>0, <1>9, <2>2 DEF Send, TypeOK
    <3>3. QED
      BY <1>0, <1>9, <3>1, <3>2 DEF Send, TypeOK
  <2>3. CASE UNCHANGED <<inflight, events>> /\ slow' = slow \union {d}
    BY <1>0, <1>9, <2>3 DEF Send, TypeOK
  <2>4. QED
    BY <1>9, <2>2, <2>3 DEF Send
<1>10. ASSUME NEW d \in inflight, GiveUp(d)
       PROVE  TypeOK'
  BY <1>0, <1>10 DEF GiveUp, TypeOK
<1>11. CASE Receive
  <2>1. events' \in Seq(Events) /\ Len(events') <= Buffer
    BY <1>0, <1>11, ReceiveFits DEF Receive
  <2>2. received' \in [Watches -> SUBSET (1..MaxEvents)]
    <3>1. Head(events).watch \in Watches /\ Head(events).no \in 1..MaxEvents
      BY <1>0, <1>11, ReceiveFits DEF Receive, Events
    <3>2. QED
      BY <1>0, <1>11, <3>1 DEF Receive, TypeOK
  <2>3. QED
    BY <1>0, <1>11, <2>1, <2>2 DEF Receive, TypeOK
<1>12. CASE UNCHANGED vars
  BY <1>0, <1>12 DEF vars, TypeOK
<1>13. QED
  BY <1>1, <1>2, <1>3, <1>4, <1>5, <1>6, <1>7, <1>8, <1>9, <1>10, <1>11, <1>12 DEF Next
-----------------------------------------------------------------------------
(* One stopper, and the channel safe, after every step. *)
LEMMA StepKeepsStopper ==
  ASSUME MuxInv, [Next]_vars
  PROVE  ChannelIsSafe' /\ OneStopper'
<1>0. TypeOK /\ ChannelIsSafe /\ OneStopper
  BY DEF MuxInv
<1> USE <1>0 DEF stopVars, callVars, flowVars, Goto, Stopping, ChannelIsSafe, OneStopper
<1>1. ASSUME NEW g \in Callers, CallStop(g)
      PROVE  ChannelIsSafe' /\ OneStopper'
  BY <1>1 DEF CallStop, TypeOK
<1>2. ASSUME NEW g \in Callers, CancelAll(g)
      PROVE  ChannelIsSafe' /\ OneStopper'
  BY <1>2 DEF CancelAll, TypeOK
<1>3. ASSUME NEW g \in Callers, Drain(g)
      PROVE  ChannelIsSafe' /\ OneStopper'
  BY <1>3 DEF Drain, TypeOK
<1>4. ASSUME NEW g \in Callers, Close(g)
      PROVE  ChannelIsSafe' /\ OneStopper'
  BY <1>4 DEF Close, TypeOK
<1>5. ASSUME NEW e \in Watches, Dispatch(e)
      PROVE  ChannelIsSafe' /\ OneStopper'
  <2>1. stopped => inflight' = inflight
    BY <1>5 DEF Dispatch
  <2>2. UNCHANGED <<stopVars, callVars>>
    BY <1>5 DEF Dispatch
  <2>3. QED
    BY <2>1, <2>2
<1>6. ASSUME NEW d \in inflight, Send(d) \/ GiveUp(d)
      PROVE  ChannelIsSafe' /\ OneStopper'
  <2>1. UNCHANGED <<stopVars, callVars>>
    BY <1>6 DEF Send, GiveUp
  <2>2. QED
    BY <2>1
<1>7. ASSUME NEW g \in Callers,
             \/ \E v \in Gvrs : CallAdd(g, v)
             \/ StartInformer(g) \/ AddFails(g) \/ Unwatch(g) \/ CacheSynced(g)
             \/ Release(g) \/ WaiterWakes(g) \/ Recheck(g)
      PROVE  ChannelIsSafe' /\ OneStopper'
  <2>1. UNCHANGED <<stopVars, flowVars>>
    BY <1>7 DEF CallAdd, StartInformer, AddFails, Unwatch, CacheSynced, Release, WaiterWakes,
                Recheck
  <2>2. \E phase \in Phases \ {"cancel", "drain", "close"} : pc' = [pc EXCEPT ![g] = phase]
    BY <1>7 DEF CallAdd, StartInformer, AddFails, Unwatch, CacheSynced, Release, WaiterWakes,
                Recheck, Phases
  <2>3. \A h \in Callers : Stopping(h)' => Stopping(h) /\ pc'[h] = pc[h]
    BY <2>2 DEF TypeOK
  <2>4. QED
    BY <2>1, <2>3
<1>8. CASE \/ \E g \in Removers, v \in Gvrs : Remove(g, v)
           \/ ParentCancelled
           \/ \E e \in Watches : InformerSyncs(e) \/ InformerStops(e)
           \/ Receive
           \/ UNCHANGED vars
  <2>1. UNCHANGED <<stopped, closed, callVars, inflight>>
    BY <1>8 DEF Remove, ParentCancelled, InformerSyncs, InformerStops, Receive, vars
  <2>2. QED
    BY <2>1
<1>9. QED
  BY <1>1, <1>2, <1>3, <1>4, <1>5, <1>6, <1>7, <1>8 DEF Next, CallerStep

(* The map and the callers only ever hold entries that were made. *)
LEMMA StepKeepsEntries ==
  ASSUME MuxInv, [Next]_vars
  PROVE  EntriesAreMade'
<1>0. TypeOK /\ EntriesAreMade
  BY DEF MuxInv
<1> USE <1>0 DEF mapVars, callVars, Goto, EntriesAreMade
<1>1. ASSUME NEW g \in Callers, NEW v \in Gvrs, CallAdd(g, v)
      PROVE  EntriesAreMade'
  <2>1. CASE watches[v] # None
    <3>1. /\ pc' = [pc EXCEPT ![g] = "wait"] /\ slot' = [slot EXCEPT ![g] = watches[v]]
          /\ UNCHANGED <<gvrOf, watches>>
      BY <1>1, <2>1 DEF CallAdd
    <3>2. v # None
      BY MuxAssumption
    <3>3. QED
      BY <3>1, <3>2, <2>1 DEF TypeOK
  <2>2. CASE watches[v] = None
    <3>1. PICK e \in Watches :
            /\ gvrOf[e] = None
            /\ gvrOf' = [gvrOf EXCEPT ![e] = v]
            /\ watches' = [watches EXCEPT ![v] = e]
            /\ slot' = [slot EXCEPT ![g] = e]
            /\ pc' = [pc EXCEPT ![g] = "start"]
      BY <1>1, <2>2 DEF CallAdd
    <3>2. e # None /\ v # None
      BY MuxAssumption
    <3>3. \A w \in Gvrs : watches[w] # e
      BY <3>1, <3>2, MuxAssumption
    <3>4. QED
      BY <3>1, <3>2, <3>3 DEF TypeOK
  <2>3. QED
    BY <2>1, <2>2
<1>2. ASSUME NEW g \in Removers, NEW v \in Gvrs, Remove(g, v)
      PROVE  EntriesAreMade'
  BY <1>2 DEF Remove, TypeOK
<1>3. ASSUME NEW g \in Callers, Unwatch(g)
      PROVE  EntriesAreMade'
  BY <1>3 DEF Unwatch, TypeOK
<1>4. ASSUME NEW g \in Callers,
             \/ StartInformer(g) \/ AddFails(g) \/ CacheSynced(g) \/ Release(g)
             \/ WaiterWakes(g) \/ Recheck(g)
             \/ CallStop(g) \/ CancelAll(g) \/ Drain(g) \/ Close(g)
      PROVE  EntriesAreMade'
  <2>1. UNCHANGED <<watches, gvrOf>>
    BY <1>4 DEF StartInformer, AddFails, CacheSynced, Release, WaiterWakes, Recheck, CallStop,
                CancelAll, Drain, Close
  <2>2. \/ /\ slot' = slot
           /\ \E phase \in Phases : pc' = [pc EXCEPT ![g] = phase]
           /\ pc[g] \in {"idle", "cancel", "drain", "close"} =>
                pc'[g] \in {"idle", "cancel", "drain", "close"}
        \/ /\ slot' = [slot EXCEPT ![g] = None]
           /\ pc' = [pc EXCEPT ![g] = "idle"]
    BY <1>4 DEF StartInformer, AddFails, CacheSynced, Release, WaiterWakes, Recheck, CallStop,
                CancelAll, Drain, Close, Phases, TypeOK
  <2>3. CASE /\ slot' = slot
             /\ \E phase \in Phases : pc' = [pc EXCEPT ![g] = phase]
             /\ pc[g] \in {"idle", "cancel", "drain", "close"} =>
                  pc'[g] \in {"idle", "cancel", "drain", "close"}
    <3>1. \A h \in Callers : h # g => pc'[h] = pc[h]
      BY <2>3 DEF TypeOK
    <3>2. pc[g] \in Phases
      BY DEF TypeOK
    <3>3. QED
      BY <2>1, <2>3, <3>1, <3>2 DEF Phases
  <2>4. CASE slot' = [slot EXCEPT ![g] = None] /\ pc' = [pc EXCEPT ![g] = "idle"]
    <3>1. \A h \in Callers : h # g => pc'[h] = pc[h] /\ slot'[h] = slot[h]
      BY <2>4 DEF TypeOK
    <3>2. pc'[g] = "idle" /\ slot'[g] = None
      BY <2>4 DEF TypeOK
    <3>3. QED
      BY <2>1, <3>1, <3>2
  <2>5. QED
    BY <2>2, <2>3, <2>4
<1>5. CASE \/ ParentCancelled
           \/ \E e \in Watches : InformerSyncs(e) \/ InformerStops(e) \/ Dispatch(e)
           \/ \E d \in inflight : Send(d) \/ GiveUp(d)
           \/ Receive
           \/ UNCHANGED vars
  <2>1. UNCHANGED <<watches, gvrOf, pc, slot>>
    BY <1>5 DEF ParentCancelled, InformerSyncs, InformerStops, Dispatch, Send, GiveUp, Receive,
                vars
  <2>2. QED
    BY <2>1
<1>6. QED
  BY <1>1, <1>2, <1>3, <1>4, <1>5 DEF Next, CallerStep

-----------------------------------------------------------------------------
(* The watches of Adds that are about to return, after every step.           *)
LEMMA StepKeepsSync ==
  ASSUME MuxInv, SyncIsKnown, [Next]_vars
  PROVE  SyncIsKnown'
<1>0. TypeOK /\ EntriesAreMade /\ SyncIsKnown
  BY DEF MuxInv
<1> USE <1>0 DEF SyncIsKnown, AddReturnsSynced, mapVars, informerVars, callVars, Goto
<1>1. ASSUME NEW g \in Callers, NEW v \in Gvrs, CallAdd(g, v)
      PROVE  SyncIsKnown'
  <2>1. UNCHANGED <<revoked, released, synced>>
    BY <1>1 DEF CallAdd
  <2>2. PICK e \in Watches \union {None}, phase \in {"wait", "start"} :
          slot' = [slot EXCEPT ![g] = e] /\ pc' = [pc EXCEPT ![g] = phase]
    BY <1>1 DEF CallAdd, TypeOK
  <2>3. QED
    BY <2>1, <2>2 DEF TypeOK
<1>2. ASSUME NEW g \in Callers, AddFails(g)
      PROVE  SyncIsKnown'
  BY <1>2 DEF AddFails, TypeOK
<1>3. ASSUME NEW g \in Callers, Unwatch(g)
      PROVE  SyncIsKnown'
  BY <1>3 DEF Unwatch, TypeOK
<1>4. ASSUME NEW g \in Callers, CacheSynced(g)
      PROVE  SyncIsKnown'
  BY <1>4 DEF CacheSynced, TypeOK
<1>5. ASSUME NEW g \in Callers, Release(g)
      PROVE  SyncIsKnown'
  BY <1>5 DEF Release, TypeOK
<1>6. ASSUME NEW g \in Callers, WaiterWakes(g)
      PROVE  SyncIsKnown'
  BY <1>6 DEF WaiterWakes, TypeOK
<1>7. ASSUME NEW g \in Callers,
             StartInformer(g) \/ Recheck(g) \/ CallStop(g) \/ CancelAll(g) \/ Drain(g) \/ Close(g)
      PROVE  SyncIsKnown'
  <2>1. UNCHANGED <<revoked, released, synced>> /\ (slot' = slot \/ slot' = [slot EXCEPT ![g] = None])
    BY <1>7 DEF StartInformer, Recheck, CallStop, CancelAll, Drain, Close
  <2>2. PICK phase \in {"sync", "idle", "cancel", "drain", "close"} : pc' = [pc EXCEPT ![g] = phase]
    BY <1>7 DEF StartInformer, Recheck, CallStop, CancelAll, Drain, Close
  <2>3. QED
    BY <2>1, <2>2 DEF TypeOK
<1>8. CASE \/ \E g \in Removers, v \in Gvrs : Remove(g, v)
           \/ ParentCancelled
           \/ \E e \in Watches : InformerSyncs(e) \/ InformerStops(e) \/ Dispatch(e)
           \/ \E d \in inflight : Send(d) \/ GiveUp(d)
           \/ Receive
           \/ UNCHANGED vars
  <2>1. UNCHANGED <<pc, slot, released>> /\ revoked \subseteq revoked' /\ synced \subseteq synced'
    BY <1>8 DEF Remove, ParentCancelled, InformerSyncs, InformerStops, Dispatch, Send, GiveUp,
                Receive, vars
  <2>2. QED
    BY <2>1
<1>9. QED
  BY <1>1, <1>2, <1>3, <1>4, <1>5, <1>6, <1>7, <1>8 DEF Next, CallerStep

-----------------------------------------------------------------------------
(* The order and the fate of events, after every step.                       *)

(* Two events of a watch with one number are one event. *)
LEMMA EventsDiffer ==
  ASSUME NEW d \in Events, NEW c \in Events, d.watch = c.watch, d.no = c.no
  PROVE  d = c
  BY DEF Events

(* What the types of an event and of the numbers around it are. *)
LEMMA EventTypes ==
  ASSUME TypeOK
  PROVE  /\ \A c \in inflight \union missed : c \in Events /\ c.watch \in Watches /\ c.no \in Nat
         /\ Len(events) \in Nat
         /\ \A i \in 1..Len(events) :
              events[i] \in Events /\ events[i].watch \in Watches /\ events[i].no \in Nat
         /\ \A w \in Watches : notified[w] \in Nat /\ \A k \in received[w] : k \in Nat
<1>1. \A c \in Events : c.watch \in Watches /\ c.no \in Nat
  BY MuxAssumption DEF Events
<1>2. inflight \subseteq Events /\ missed \subseteq Events
  BY DEF TypeOK
<1>3. Len(events) \in Nat /\ \A i \in 1..Len(events) : events[i] \in Events
  BY DEF TypeOK
<1>4. \A w \in Watches : notified[w] \in Nat /\ \A k \in received[w] : k \in Nat
  <2> SUFFICES ASSUME NEW w \in Watches
               PROVE  notified[w] \in Nat /\ \A k \in received[w] : k \in Nat
    OBVIOUS
  <2>1. notified[w] \in 0..MaxEvents /\ received[w] \in SUBSET (1..MaxEvents)
    BY DEF TypeOK
  <2>2. QED
    BY <2>1, MuxAssumption
<1>5. QED
  BY <1>1, <1>2, <1>3, <1>4

LEMMA DispatchKeepsFlow ==
  ASSUME TypeOK, FlowInv, NEW e \in Watches, Dispatch(e)
  PROVE  FlowInv'
<1> DEFINE d == [watch |-> e, no |-> notified[e] + 1]
<1>1. /\ UNCHANGED <<stopped, events, received, missed>>
      /\ inflight' = IF stopped THEN inflight ELSE inflight \union {d}
      /\ \A c \in inflight : c.watch # e
      /\ \A w \in Watches : notified'[w] = IF w = e THEN notified[e] + 1 ELSE notified[w]
      /\ notified[e] \in Nat
  BY MuxAssumption DEF Dispatch, TypeOK, stopVars
<1>2. /\ \A c \in inflight : c \in Events /\ c.watch \in Watches /\ c.no \in Nat
      /\ \A c \in missed : c \in Events /\ c.watch \in Watches /\ c.no \in Nat
      /\ \A i \in 1..Len(events) : events[i] \in Events
      /\ \A i \in 1..Len(events) : events[i].watch \in Watches /\ events[i].no \in Nat
      /\ \A w \in Watches : notified[w] \in Nat /\ \A k \in received[w] : k \in Nat
  BY EventTypes
<1>3. QueueInOrder'
  <2>1. \A w \in Watches : notified[w] \in Nat /\ notified'[w] \in Nat /\ notified[w] <= notified'[w]
    BY <1>1, <1>2
  <2>2. events' = events
    BY <1>1
  <2>3. ASSUME NEW i \in 1..Len(events)
        PROVE  events[i].no <= notified'[events[i].watch]
    <3>1. events[i].no <= notified[events[i].watch] /\ events[i].watch \in Watches /\ events[i].no \in Nat
      BY <1>2 DEF FlowInv, QueueInOrder
    <3>2. QED
      BY <2>1, <3>1
  <2>4. \A i, j \in 1..Len(events) :
          i < j /\ events[i].watch = events[j].watch => events[i].no < events[j].no
    BY DEF FlowInv, QueueInOrder
  <2>5. QED
    BY <2>2, <2>3, <2>4 DEF QueueInOrder
<1>4. SendsInOrder'
  BY <1>1, <1>2 DEF FlowInv, QueueInOrder, SendsInOrder
<1>5. ReceivedInOrder'
  BY <1>1, <1>2 DEF FlowInv, ReceivedInOrder
<1>6. DroppedIsGone'
  BY <1>1, <1>2 DEF FlowInv, DroppedIsGone, Queued
<1>7. NothingVanishes'
  <2> SUFFICES ASSUME ~stopped', NEW c \in Events, c.no <= notified'[c.watch]
               PROVE  c \in inflight' \/ c \in missed \/ Queued(c) \/ c.no \in received[c.watch]
    BY <1>1 DEF NothingVanishes, Queued
  <2>1. CASE c.no <= notified[c.watch]
    BY <1>1, <2>1 DEF FlowInv, NothingVanishes
  <2>2. CASE ~(c.no <= notified[c.watch])
    <3>1. c.watch = e /\ c.no = notified[e] + 1
      BY <1>1, <1>2, <2>2, MuxAssumption DEF Events
    <3>2. c = d
      BY <3>1 DEF Events
    <3>3. QED
      BY <1>1, <3>2
  <2>3. QED
    BY <2>1, <2>2
<1>8. QED
  BY <1>3, <1>4, <1>5, <1>6, <1>7 DEF FlowInv

LEMMA SendKeepsFlow ==
  ASSUME TypeOK, FlowInv, NEW d \in inflight, Send(d)
  PROVE  FlowInv'
<1>1. UNCHANGED <<stopped, notified, received, missed>>
  BY DEF Send, stopVars, informerVars
<1>2. CASE UNCHANGED <<inflight, events>>
  BY <1>1, <1>2 DEF FlowInv, QueueInOrder, SendsInOrder, ReceivedInOrder, DroppedIsGone,
                    NothingVanishes, Queued
<1>3. CASE events' = Append(events, d) /\ inflight' = inflight \ {d}
  <2> DEFINE n == Len(events)
  <2>1. /\ n \in Nat /\ Len(events') = n + 1
        /\ \A i \in 1..n : events'[i] = events[i]
        /\ events'[n + 1] = d
    BY <1>3 DEF TypeOK
  <2>2. /\ \A c \in inflight : c \in Events /\ c.watch \in Watches /\ c.no \in Nat
        /\ \A i \in 1..n : events[i] \in Events
        /\ \A i \in 1..n : events[i].watch \in Watches /\ events[i].no \in Nat
        /\ \A w \in Watches : notified[w] \in Nat /\ \A k \in received[w] : k \in Nat
    BY EventTypes
  <2>3. \A i \in 1..Len(events') :
          (i \in 1..n /\ events'[i] = events[i]) \/ (i = n + 1 /\ events'[i] = d)
    BY <2>1
  <2>4. d.no = notified[d.watch] /\ \A i \in 1..n : events[i].watch = d.watch => events[i].no < d.no
    BY DEF FlowInv, SendsInOrder
  <2>5. QueueInOrder'
    <3>1. \A i \in 1..Len(events') : events'[i].no <= notified[events'[i].watch]
      BY <2>2, <2>3, <2>4 DEF FlowInv, QueueInOrder
    <3>2. ASSUME NEW i \in 1..Len(events'), NEW j \in 1..Len(events'),
                 i < j, events'[i].watch = events'[j].watch
          PROVE  events'[i].no < events'[j].no
      <4>1. i \in 1..n /\ events'[i] = events[i]
        BY <2>1, <3>2
      <4>2. CASE j \in 1..n
        BY <2>1, <3>2, <4>1, <4>2 DEF FlowInv, QueueInOrder
      <4>3. CASE j = n + 1
        BY <2>1, <2>4, <3>2, <4>1, <4>3
      <4>4. QED
        BY <2>1, <4>2, <4>3
    <3>3. QED
      BY <1>1, <3>1, <3>2 DEF QueueInOrder
  <2>6. SendsInOrder'
    <3> SUFFICES ASSUME NEW c \in inflight, c # d
                 PROVE  /\ c.no = notified[c.watch]
                        /\ \A i \in 1..Len(events') : events'[i].watch = c.watch => events'[i].no < c.no
      BY <1>1, <1>3 DEF SendsInOrder
    <3>1. c.no = notified[c.watch] /\ \A i \in 1..n : events[i].watch = c.watch => events[i].no < c.no
      BY DEF FlowInv, SendsInOrder
    <3>2. c.watch # d.watch
      BY <2>2, <2>4, <3>1, EventsDiffer
    <3>3. QED
      BY <2>3, <3>1, <3>2
  <2>7. ReceivedInOrder'
    <3> SUFFICES ASSUME NEW e \in Watches, NEW k \in received[e]
                 PROVE  /\ k <= notified[e]
                        /\ \A i \in 1..Len(events') : events'[i].watch = e => k < events'[i].no
                        /\ \A c \in inflight' : c.watch = e => k < c.no
      BY <1>1 DEF ReceivedInOrder
    <3>1. /\ k <= notified[e]
          /\ \A i \in 1..n : events[i].watch = e => k < events[i].no
          /\ \A c \in inflight : c.watch = e => k < c.no
      BY DEF FlowInv, ReceivedInOrder
    <3>2. QED
      BY <1>3, <2>3, <3>1
  <2>8. \A c : Queued(c)' <=> Queued(c) \/ c = d
    BY <2>1, <2>3 DEF Queued
  <2>9. DroppedIsGone'
    BY <1>1, <1>3, <2>8 DEF FlowInv, DroppedIsGone
  <2>10. NothingVanishes'
    BY <1>1, <1>3, <2>8 DEF FlowInv, NothingVanishes
  <2>11. QED
    BY <2>5, <2>6, <2>7, <2>9, <2>10 DEF FlowInv
<1>4. QED
  BY <1>2, <1>3 DEF Send

LEMMA GiveUpKeepsFlow ==
  ASSUME TypeOK, FlowInv, NEW d \in inflight, GiveUp(d)
  PROVE  FlowInv'
<1>1. /\ UNCHANGED <<stopped, notified, events, received>>
      /\ inflight' = inflight \ {d} /\ missed' = missed \union {d}
  BY DEF GiveUp, stopVars, informerVars
<1>2. QueueInOrder' /\ SendsInOrder' /\ ReceivedInOrder'
  BY <1>1 DEF FlowInv, QueueInOrder, SendsInOrder, ReceivedInOrder
<1>3. DroppedIsGone'
  <2>1. d \in Events /\ d.watch \in Watches /\ d.no \in Nat
    BY MuxAssumption DEF TypeOK, Events
  <2>2. d.no <= notified[d.watch]
    BY <2>1, MuxAssumption DEF FlowInv, SendsInOrder, TypeOK
  <2>3. ~Queued(d)
    BY <2>1 DEF FlowInv, SendsInOrder, Queued
  <2>4. d.no \notin received[d.watch]
    BY <2>1 DEF FlowInv, ReceivedInOrder
  <2>5. QED
    BY <1>1, <2>2, <2>3, <2>4 DEF FlowInv, DroppedIsGone, Queued
<1>4. NothingVanishes'
  BY <1>1 DEF FlowInv, NothingVanishes, Queued
<1>5. QED
  BY <1>2, <1>3, <1>4 DEF FlowInv

LEMMA ReceiveKeepsFlow ==
  ASSUME TypeOK, FlowInv, Receive
  PROVE  FlowInv'
<1> DEFINE d == Head(events)
           n == Len(events)
<1>1. UNCHANGED <<stopped, notified, inflight, missed>>
  BY DEF Receive, stopVars, informerVars
<1>2. /\ n \in Nat /\ n > 0 /\ events[1] = d /\ Len(events') = n - 1
      /\ \A i \in 1..(n - 1) : events'[i] = events[i + 1] /\ i + 1 \in 1..n
  BY DEF Receive, TypeOK
<1>3. /\ \A i \in 1..n : events[i] \in Events
      /\ \A i \in 1..n : events[i].watch \in Watches /\ events[i].no \in Nat
      /\ \A w \in Watches : notified[w] \in Nat /\ \A k \in received[w] : k \in Nat
  BY EventTypes
<1>4. d \in Events /\ d.watch \in Watches /\ d.no \in Nat
  BY <1>2, <1>3
<1>5. \A w \in Watches : received'[w] = IF w = d.watch THEN received[w] \union {d.no} ELSE received[w]
  <2>1. received' = [received EXCEPT ![d.watch] = received[d.watch] \union {d.no}]
    BY DEF Receive
  <2>2. received \in [Watches -> SUBSET (1..MaxEvents)]
    BY DEF TypeOK
  <2>3. QED
    BY <1>4, <2>1, <2>2
<1>6. QueueInOrder'
  <2>1. ASSUME NEW i \in 1..(n - 1)
        PROVE  events'[i].no <= notified[events'[i].watch]
    BY <1>2 DEF FlowInv, QueueInOrder
  <2>2. ASSUME NEW i \in 1..(n - 1), NEW j \in 1..(n - 1), i < j, events'[i].watch = events'[j].watch
        PROVE  events'[i].no < events'[j].no
    <3>1. i + 1 \in 1..n /\ j + 1 \in 1..n /\ i + 1 < j + 1
      BY <1>2, <2>2
    <3>2. QED
      BY <1>2, <2>2, <3>1 DEF FlowInv, QueueInOrder
  <2>3. QED
    BY <1>1, <1>2, <2>1, <2>2 DEF QueueInOrder
<1>7. SendsInOrder'
  BY <1>1, <1>2, <1>3 DEF FlowInv, SendsInOrder
<1>8. ReceivedInOrder'
  <2> SUFFICES ASSUME NEW e \in Watches, NEW k \in received'[e]
               PROVE  /\ k <= notified[e]
                      /\ \A i \in 1..(n - 1) : events[i + 1].watch = e => k < events[i + 1].no
                      /\ \A c \in inflight : c.watch = e => k < c.no
    BY <1>1, <1>2 DEF ReceivedInOrder
  <2>1. CASE k \in received[e]
    BY <1>2, <2>1 DEF FlowInv, ReceivedInOrder
  <2>2. CASE e = d.watch /\ k = d.no
    <3>1. k <= notified[e]
      BY <1>2, <2>2 DEF FlowInv, QueueInOrder
    <3>2. \A i \in 1..(n - 1) : events[i + 1].watch = e => k < events[i + 1].no
      BY <1>2, <2>2 DEF FlowInv, QueueInOrder
    <3>3. \A c \in inflight : c.watch = e => k < c.no
      BY <1>2, <2>2 DEF FlowInv, SendsInOrder
    <3>4. QED
      BY <3>1, <3>2, <3>3
  <2>3. QED
    BY <1>5, <2>1, <2>2
<1>9. \A c : Queued(c) <=> Queued(c)' \/ c = d
  <2>1. ASSUME NEW c, Queued(c)
        PROVE  Queued(c)' \/ c = d
    <3>1. PICK i \in 1..n : events[i] = c
      BY <2>1 DEF Queued
    <3>2. CASE i = 1
      BY <1>2, <3>1, <3>2
    <3>3. CASE i # 1
      <4>1. i - 1 \in 1..(n - 1) /\ events'[i - 1] = c
        BY <1>2, <3>1, <3>3
      <4>2. QED
        BY <1>2, <4>1 DEF Queued
    <3>4. QED
      BY <3>2, <3>3
  <2>2. ASSUME NEW c, Queued(c)' \/ c = d
        PROVE  Queued(c)
    BY <1>2, <2>2 DEF Queued
  <2>3. QED
    BY <2>1, <2>2
<1>10. DroppedIsGone'
  <2> SUFFICES ASSUME NEW c \in missed
               PROVE  /\ c.no <= notified[c.watch] /\ c \notin inflight /\ ~Queued(c)'
                      /\ c.no \notin received'[c.watch]
    BY <1>1 DEF DroppedIsGone
  <2>1. /\ c.no <= notified[c.watch] /\ c \notin inflight /\ ~Queued(c)
        /\ c.no \notin received[c.watch]
    BY DEF FlowInv, DroppedIsGone
  <2>2. c \in Events /\ c.watch \in Watches
    BY DEF TypeOK, Events
  <2>3. c # d
    BY <1>9, <2>1
  <2>4. ~(c.watch = d.watch /\ c.no = d.no)
    BY <1>4, <2>2, <2>3, EventsDiffer
  <2>5. QED
    BY <1>5, <1>9, <2>1, <2>2, <2>4
<1>11. NothingVanishes'
  <2> SUFFICES ASSUME ~stopped, NEW c \in Events, c.no <= notified[c.watch]
               PROVE  c \in inflight \/ c \in missed \/ Queued(c)' \/ c.no \in received'[c.watch]
    BY <1>1 DEF NothingVanishes
  <2>1. c \in inflight \/ c \in missed \/ Queued(c) \/ c.no \in received[c.watch]
    BY DEF FlowInv, NothingVanishes
  <2>2. c.watch \in Watches
    BY DEF Events
  <2>3. QED
    BY <1>5, <1>9, <2>1, <2>2
<1>12. QED
  BY <1>6, <1>7, <1>8, <1>10, <1>11 DEF FlowInv

LEMMA StepKeepsFlow ==
  ASSUME TypeOK, FlowInv, [Next]_vars
  PROVE  FlowInv'
<1>1. ASSUME NEW e \in Watches, Dispatch(e)
      PROVE  FlowInv'
  BY <1>1, DispatchKeepsFlow
<1>2. ASSUME NEW d \in inflight, Send(d) \/ GiveUp(d)
      PROVE  FlowInv'
  BY <1>2, SendKeepsFlow, GiveUpKeepsFlow
<1>3. CASE Receive
  BY <1>3, ReceiveKeepsFlow
<1>4. CASE \/ \E g \in Callers, v \in Gvrs : CallAdd(g, v)
           \/ \E g \in Removers, v \in Gvrs : Remove(g, v)
           \/ \E g \in Callers : CallStop(g) \/ CallerStep(g)
           \/ ParentCancelled
           \/ \E e \in Watches : InformerSyncs(e) \/ InformerStops(e)
           \/ UNCHANGED vars
  <2>1. /\ UNCHANGED <<notified, inflight, events, received, missed>>
        /\ stopped => stopped'
    BY <1>4
       DEF CallAdd, Remove, CallStop, CallerStep, StartInformer, AddFails, Unwatch, CacheSynced,
           Release, WaiterWakes, Recheck, CancelAll, Drain, Close, ParentCancelled, InformerSyncs,
           InformerStops, vars, stopVars, informerVars, flowVars
  <2>2. QED
    BY <2>1 DEF FlowInv, QueueInOrder, SendsInOrder, ReceivedInOrder, DroppedIsGone,
                NothingVanishes, Queued
<1>5. QED
  BY <1>1, <1>2, <1>3, <1>4 DEF Next

(* Every event has one fate. *)
LEMMA FlowConserves ==
  ASSUME TypeOK, FlowInv
  PROVE  EventsAreConserved
<1> SUFFICES ASSUME ~stopped, NEW d \in Events
             PROVE  Fates(d) = IF d.no <= notified[d.watch] THEN 1 ELSE 0
  BY DEF EventsAreConserved
<1> DEFINE places == {i \in 1..Len(events) : events[i] = d}
           none   == d \notin inflight /\ d.no \notin received[d.watch] /\ d \notin missed
<1>1. d.watch \in Watches /\ d.no \in Nat /\ notified[d.watch] \in Nat /\ Len(events) \in Nat
  BY MuxAssumption DEF TypeOK, Events
<1>2. CASE Queued(d)
  <2>1. PICK i \in 1..Len(events) : events[i] = d
    BY <1>2 DEF Queued
  <2>2. places = {i}
    <3>1. ASSUME NEW j \in places, j # i
          PROVE  FALSE
      <4>1. j \in 1..Len(events) /\ events[j] = d /\ (i < j \/ j < i)
        BY <1>1, <2>1, <3>1
      <4>2. d.no < d.no
        BY <2>1, <4>1 DEF FlowInv, QueueInOrder
      <4>3. QED
        BY <1>1, <4>2
    <3>2. QED
      BY <2>1, <3>1
  <2>3. Cardinality(places) = 1
    BY <2>2, FS_Singleton
  <2>4. none /\ d.no <= notified[d.watch]
    <3>1. d \notin inflight
      BY <1>1, <2>1 DEF FlowInv, SendsInOrder
    <3>2. d.no \notin received[d.watch]
      BY <1>1, <2>1 DEF FlowInv, ReceivedInOrder
    <3>3. d \notin missed
      BY <1>2 DEF FlowInv, DroppedIsGone
    <3>4. d.no <= notified[d.watch]
      BY <2>1 DEF FlowInv, QueueInOrder
    <3>5. QED
      BY <3>1, <3>2, <3>3, <3>4
  <2>5. QED
    BY <2>3, <2>4 DEF Fates
<1>3. CASE ~Queued(d)
  <2>1. places = {}
    BY <1>3 DEF Queued
  <2>2. Cardinality(places) = 0
    BY <2>1, FS_EmptySet
  <2>3. CASE d.no <= notified[d.watch]
    <3>1. d \in inflight \/ d \in missed \/ d.no \in received[d.watch]
      BY <1>3, <2>3 DEF FlowInv, NothingVanishes
    <3>2. d \in missed => d \notin inflight /\ d.no \notin received[d.watch]
      BY DEF FlowInv, DroppedIsGone
    <3>3. d \in inflight => d.no \notin received[d.watch]
      BY <1>1 DEF FlowInv, ReceivedInOrder
    <3>4. QED
      BY <2>2, <2>3, <3>1, <3>2, <3>3 DEF Fates
  <2>4. CASE ~(d.no <= notified[d.watch])
    <3>1. none
      BY <1>1, <2>4 DEF FlowInv, SendsInOrder, ReceivedInOrder, DroppedIsGone
    <3>2. QED
      BY <2>2, <2>4, <3>1 DEF Fates
  <2>5. QED
    BY <2>3, <2>4
<1>4. QED
  BY <1>2, <1>3

-----------------------------------------------------------------------------
(* The invariant of the Mux: initially and after every step. *)
THEOREM MuxInvariance == Spec => []MuxInv
<1>1. Init => MuxInv
  BY InitHasInv
<1>2. MuxInv /\ [Next]_vars => MuxInv'
  BY StepKeepsType, StepKeepsStopper, StepKeepsEntries DEF MuxInv
<1>3. QED
  BY <1>1, <1>2, PTL DEF Spec

(* Type correctness: in particular the channel never holds more than its     *)
(* capacity.                                                                 *)
THEOREM TypeCorrect == Spec => []TypeOK
<1>1. MuxInv => TypeOK
  BY DEF MuxInv
<1>2. QED
  BY <1>1, MuxInvariance, PTL

(* No send on the closed channel and no second close, for any number of      *)
(* informers, of callers of Stop and of Adds in progress.                    *)
THEOREM NoSendOnClosedChannel == Spec => []ChannelIsSafe
<1>1. MuxInv => ChannelIsSafe
  BY DEF MuxInv
<1>2. QED
  BY <1>1, MuxInvariance, PTL

(* What Adds and events satisfy in every reachable state. *)
THEOREM FlowInvariance == Spec => [](SyncIsKnown /\ FlowInv)
<1> DEFINE Inv == MuxInv /\ SyncIsKnown /\ FlowInv
<1>1. Init => Inv
  <2> SUFFICES ASSUME Init PROVE SyncIsKnown /\ FlowInv
    BY InitHasInv
  <2>1. Len(events) = 0
    BY DEF Init
  <2>2. QED
    BY <2>1, MuxAssumption
       DEF Init, SyncIsKnown, AddReturnsSynced, FlowInv, QueueInOrder, SendsInOrder,
           ReceivedInOrder, DroppedIsGone, NothingVanishes, Events
<1>2. Inv /\ [Next]_vars => Inv'
  BY StepKeepsType, StepKeepsStopper, StepKeepsEntries, StepKeepsSync, StepKeepsFlow DEF MuxInv
<1>3. Inv => SyncIsKnown /\ FlowInv
  OBVIOUS
<1>4. QED
  BY <1>1, <1>2, <1>3, PTL DEF Spec

(* Add returns only when the watch it started or waited for has synced or    *)
(* was given up, for any number of concurrent Adds, Removes and Stops.       *)
THEOREM AddsReturnSynced == Spec => []AddReturnsSynced
<1>1. SyncIsKnown => AddReturnsSynced
  BY DEF SyncIsKnown
<1>2. QED
  BY <1>1, FlowInvariance, PTL

(* Until Stop every notification is in exactly one place, for any capacity   *)
(* of the channel and any number of watches.                                 *)
THEOREM NoEventIsLost == Spec => []EventsAreConserved
<1>1. MuxInv /\ FlowInv => EventsAreConserved
  BY FlowConserves DEF MuxInv
<1>2. QED
  BY <1>1, MuxInvariance, FlowInvariance, PTL

(* The collector gets the events of a watch in the order of the informer.    *)
THEOREM EventsArriveInOrder == Spec => WatchIsInOrder
<1> DEFINE InOrder == \A e \in Watches : \A n \in received'[e] \ received[e], k \in received[e] : k < n
<1>1. MuxInv /\ FlowInv /\ [Next]_vars => [InOrder]_vars
  <2> SUFFICES ASSUME TypeOK, FlowInv, Next
               PROVE  InOrder
    BY DEF MuxInv
  <2>1. CASE Receive
    <3>1. Len(events) \in Nat /\ Len(events) > 0 /\ Head(events) = events[1]
      BY <2>1 DEF Receive, TypeOK
    <3>2. ASSUME NEW e \in Watches, NEW n \in received'[e] \ received[e]
          PROVE  events[1].watch = e /\ events[1].no = n
      <4>1. received' = [received EXCEPT ![events[1].watch] = received[events[1].watch] \union {events[1].no}]
        BY <2>1, <3>1 DEF Receive
      <4>2. events[1].watch \in Watches
        BY <3>1, EventTypes
      <4>3. received \in [Watches -> SUBSET (1..MaxEvents)]
        BY DEF TypeOK
      <4>4. QED
        BY <3>2, <4>1, <4>2, <4>3
    <3>3. QED
      BY <3>1, <3>2 DEF FlowInv, ReceivedInOrder
  <2>2. CASE ~Receive
    <3>1. received' = received
      BY <2>2
         DEF Next, CallAdd, Remove, CallStop, CallerStep, StartInformer, AddFails, Unwatch,
             CacheSynced, Release, WaiterWakes, Recheck, CancelAll, Drain, Close, ParentCancelled,
             InformerSyncs, InformerStops, Dispatch, Send, GiveUp, flowVars
    <3>2. QED
      BY <3>1
  <2>3. QED
    BY <2>1, <2>2
<1>2. QED
  BY <1>1, MuxInvariance, FlowInvariance, PTL DEF Spec, WatchIsInOrder
=============================================================================
