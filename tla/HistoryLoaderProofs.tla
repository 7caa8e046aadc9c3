------------------------ MODULE HistoryLoaderProofs ------------------------
(***************************************************************************)
(* Proofs about HistoryLoader, for every number of clients, objects,       *)
(* versions and sessions, under the one condition that no capture an       *)
(* interactive session records to is opened in another mode.               *)
(***************************************************************************)
EXTENDS HistoryLoader, TrackerProofs, SequenceTheorems

(* What stays the same when the loader moves: the tracker. *)
LEMMA TrackerSteps ==
  ASSUME LoaderInv, mode # "interactive", LoaderNext
  PROVE  /\ [Next]_vars
         /\ mode = "replay" => NextSession \/ UNCHANGED <<latest, record, content>>
<1>1. /\ mode \in {"headless", "replay"}
      /\ mode = "headless" => loader = "off"
      /\ mode = "replay" => \A c \in Clients : pc[c] = "idle"
  BY DEF LoaderInv
<1>2. ASSUME BeginWalk \/ Deliver \/ EndWalk \/ (\E u \in Uids : Rebuild(u))
      PROVE  UNCHANGED vars
  BY <1>2 DEF BeginWalk, Rebuild, Deliver, EndWalk
<1>3. CASE WarmCache
  <2>1. mode = "replay"
    BY <1>1, <1>3 DEF WarmCache
  <2>2. UNCHANGED vars
    BY <2>1, <1>3 DEF WarmCache, vars, storeVars, fileVars, callVars, walkVars
  <2> QED BY <2>2 DEF vars
<1>4. ASSUME NEW c \in Clients, NEW u \in Uids, NEW o \in Objects, Collect(c, u, o)
      PROVE  Next /\ mode # "replay"
  BY <1>4 DEF Collect, Next
<1>5. ASSUME NEW c \in Clients, NeedRemap(c)
      PROVE  UNCHANGED vars
  BY <1>5 DEF NeedRemap
<1>6. ASSUME NEW c \in Clients, CommitStep(c)
      PROVE  Next /\ mode # "replay"
  <2>1. CallStep(c)
    BY <1>6 DEF CommitStep, CallStep
  <2>2. pc[c] # "idle"
    BY <2>1 DEF CallStep, ColdStart, RestoreGet, RestoreApply, RestoreReturns, WriteFirst,
                RefuseDuplicate, WriteSnapshot, WritePatch, FailWrite, Abort
  <2>3. QED
    BY <2>1, <2>2, <1>1 DEF Next
<1>7. ASSUME NEW u \in Uids, EvictEntry(u)
      PROVE  Next /\ UNCHANGED <<latest, record, content>>
  BY <1>7 DEF EvictEntry, Evict, Next, storeVars, fileVars
<1>8. CASE NextSession
  BY <1>8 DEF NextSession, Next
<1>9. UNCHANGED vars => UNCHANGED <<latest, record, content>>
  BY DEF vars
<1>10. QED
  BY <1>2, <1>3, <1>4, <1>5, <1>6, <1>7, <1>8, <1>9 DEF LoaderNext, LoaderStep

(* At the start of a session nothing has been delivered. *)
NewSession ==
  /\ loader = "off"
  /\ seen = [u \in Uids |-> 0] /\ visited = [u \in Uids |-> 0] /\ current = None
  /\ replay = [u \in Uids |-> None] /\ delivered = [u \in Uids |-> <<>>]

LEMMA SessionsStart ==
  DataTypeOK /\ NewSession => LoaderTypeOK /\ \A u \in Uids : WalkIsOnHistory(u)
<1> SUFFICES ASSUME DataTypeOK, NewSession
             PROVE  LoaderTypeOK /\ \A u \in Uids : WalkIsOnHistory(u)
  OBVIOUS
<1>1. ASSUME NEW u \in Uids
      PROVE  WalkIsOnHistory(u)
  <2>1. visited[u] = 0 /\ seen[u] = 0 /\ delivered[u] = <<>>
    BY DEF NewSession
  <2>2. 0..(visited[u] - 1) = {} /\ Range(delivered[u]) = {} /\ DOMAIN delivered[u] = {}
    BY <2>1 DEF Range
  <2>3. DeliveredOf(u)
    BY <2>2 DEF DeliveredOf
  <2>4. latest[u] \in Nat
    BY TrackerAssumption DEF DataTypeOK
  <2>5. QED
    BY <2>1, <2>3, <2>4 DEF NewSession, WalkIsOnHistory, AtHand
<1>2. <<>> \in Seq([obj : Objects, rev : Nat])
  BY EmptySeq
<1>3. QED
  BY <1>1, <1>2 DEF LoaderTypeOK, NewSession

LEMMA SessionsStartPrime ==
  (DataTypeOK /\ NewSession => LoaderTypeOK /\ \A u \in Uids : WalkIsOnHistory(u))'
BY SessionsStart, PTL

(* A step of which the loader takes no part: it has not begun, or what it    *)
(* reads stays as it is.                                                     *)
LEMMA LoaderRests ==
  ASSUME LoaderInv, mode # "interactive", TrackerInv',
         UNCHANGED <<mode, loaderVars>>,
         loader = "off" \/ UNCHANGED <<latest, record, content>>,
         mode = "replay" => \A c \in Clients : pc'[c] = "idle"
  PROVE  LoaderInv'
<1>1. /\ LoaderTypeOK /\ \A u \in Uids : WalkIsOnHistory(u)
      /\ UNCHANGED <<loader, seen, visited, current, replay, shared, delivered>>
  BY DEF LoaderInv, loaderVars
<1>2. LoaderTypeOK'
  BY <1>1 DEF LoaderTypeOK
<1>3. ASSUME NEW u \in Uids
      PROVE  WalkIsOnHistory(u)'
  <2>1. CASE loader = "off"
    <3>1. visited[u] = 0 /\ seen[u] = 0 /\ DeliveredOf(u)
      BY <1>1, <2>1 DEF WalkIsOnHistory
    <3>2. 0..(visited[u] - 1) = {}
      BY <3>1
    <3>3. DeliveredOf(u)'
      BY <1>1, <3>1, <3>2 DEF DeliveredOf
    <3>4. latest'[u] \in Nat
      BY TrackerAssumption DEF TrackerInv, DataTypeOK
    <3>5. QED
      BY <1>1, <2>1, <3>1, <3>3, <3>4 DEF WalkIsOnHistory, AtHand
  <2>2. CASE UNCHANGED <<latest, record, content>>
    BY <1>1, <2>2 DEF WalkIsOnHistory, AtHand, Replayed, DeliveredOf, CommittedAs
  <2>3. QED
    BY <2>1, <2>2
<1>4. QED
  BY <1>1, <1>2, <1>3 DEF LoaderInv

(* The loader's own steps, over a store that stays as it is. *)
StoreRests ==
  /\ UNCHANGED <<mode, latest, record, content>>
  /\ TrackerInv' /\ \A c \in Clients : pc'[c] = "idle"

LEMMA BeginWalkKeepsInv ==
  ASSUME LoaderInv, mode = "replay", StoreRests, BeginWalk
  PROVE  LoaderInv'
<1>1. /\ LoaderTypeOK /\ shared = {} /\ \A u \in Uids : WalkIsOnHistory(u)
      /\ latest \in [Uids -> 0..MaxRevisions]
  BY DEF LoaderInv, TrackerInv, DataTypeOK
<1>2. LoaderTypeOK'
  <2>1. latest \in [Uids -> Nat]
    BY <1>1, TrackerAssumption
  <2>2. QED
    BY <1>1, <2>1 DEF LoaderTypeOK, BeginWalk
<1>3. ASSUME NEW u \in Uids
      PROVE  WalkIsOnHistory(u)'
  <2>1. visited[u] = 0 /\ DeliveredOf(u) /\ latest[u] \in Nat
    BY <1>1, TrackerAssumption DEF BeginWalk, WalkIsOnHistory
  <2>2. DeliveredOf(u)'
    BY <2>1 DEF BeginWalk, StoreRests, DeliveredOf, CommittedAs
  <2>3. QED
    BY <2>1, <2>2 DEF BeginWalk, StoreRests, WalkIsOnHistory, AtHand
<1>4. QED
  BY <1>1, <1>2, <1>3 DEF LoaderInv, BeginWalk, StoreRests

LEMMA EndWalkKeepsInv ==
  ASSUME LoaderInv, mode = "replay", StoreRests, EndWalk
  PROVE  LoaderInv'
<1>1. LoaderTypeOK /\ shared = {} /\ \A u \in Uids : WalkIsOnHistory(u)
  BY DEF LoaderInv
<1>2. LoaderTypeOK'
  BY <1>1 DEF LoaderTypeOK, EndWalk
<1>3. ASSUME NEW u \in Uids
      PROVE  WalkIsOnHistory(u)'
  <2>1. WalkIsOnHistory(u)
    BY <1>1
  <2>2. DeliveredOf(u)'
    BY <2>1 DEF WalkIsOnHistory, EndWalk, StoreRests, DeliveredOf, CommittedAs
  <2>3. QED
    BY <2>1, <2>2 DEF EndWalk, StoreRests, WalkIsOnHistory, AtHand, Replayed, CommittedAs
<1>4. QED
  BY <1>1, <1>2, <1>3 DEF LoaderInv, EndWalk, StoreRests

LEMMA WarmCacheKeepsInv ==
  ASSUME LoaderInv, mode = "replay", StoreRests, WarmCache
  PROVE  LoaderInv'
<1>1. /\ LoaderTypeOK /\ shared = {} /\ \A u \in Uids : WalkIsOnHistory(u)
      /\ current \in Uids
  BY DEF LoaderInv, WarmCache
<1>2. LoaderTypeOK' /\ shared' = {}
  BY <1>1 DEF LoaderTypeOK, WarmCache
<1>3. ASSUME NEW u \in Uids
      PROVE  WalkIsOnHistory(u)'
  <2>1. WalkIsOnHistory(u) /\ AtHand(u)' = AtHand(u)
    BY <1>1 DEF WarmCache, AtHand
  <2>2. DeliveredOf(u)'
    BY <2>1 DEF WalkIsOnHistory, WarmCache, StoreRests, DeliveredOf, CommittedAs
  <2>3. QED
    BY <2>1, <2>2 DEF WarmCache, StoreRests, WalkIsOnHistory, Replayed, CommittedAs
<1>4. QED
  BY <1>1, <1>2, <1>3 DEF LoaderInv, WarmCache, StoreRests

(* The rebuilt object is the version committed: a snapshot holds it, and a   *)
(* patch applies to the version before, which is the loader's last state.    *)
LEMMA RebuiltAsCommitted ==
  ASSUME LoaderInv, mode = "replay", NEW u \in Uids, Rebuild(u)
  PROVE  replay' = [replay EXCEPT ![u] = CommittedAs(u, visited[u])]
<1> DEFINE r == visited[u]
           x == record[u][r]
<1>1. /\ LoaderTypeOK /\ WalkIsOnHistory(u) /\ DataTypeOK
      /\ EveryRecordIsSound /\ PreviousIsPredecessor
  BY DEF LoaderInv, TrackerInv, LogInv
<1>2. /\ r \in Nat /\ r < latest[u] /\ latest[u] \in Nat
      /\ r \in Store!Revisions(u)
  <2>1. r \in Nat /\ seen[u] \in Nat /\ latest[u] \in Nat /\ r < seen[u] /\ seen[u] <= latest[u]
    BY <1>1, TrackerAssumption DEF LoaderTypeOK, WalkIsOnHistory, DataTypeOK, Rebuild
  <2>2. QED
    BY <2>1 DEF Store!Revisions
<1>3. \/ x.kind = "snapshot" /\ x.obj = content[u][r]
      \/ /\ x.kind = "patch" /\ x.previous < r
         /\ ApplyTo(content[u][x.previous], x.patch) = content[u][r]
  BY <1>1, <1>2 DEF EveryRecordIsSound
<1>4. (IF x.kind = "snapshot" THEN x.obj ELSE ApplyTo(replay[u].obj, x.patch)) = content[u][r]
  <2>1. CASE x.kind = "snapshot"
    BY <1>3, <2>1
  <2>2. CASE x.kind # "snapshot"
    <3>1. x.previous < r /\ ApplyTo(content[u][x.previous], x.patch) = content[u][r]
      BY <1>3, <2>2
    <3>2. x.previous \in Nat
      <4>1. x \in Records
        BY <1>1, <1>2 DEF DataTypeOK, Store!Revisions
      <4>2. QED
        BY <4>1, RecordFields, TrackerAssumption
    <3>3. r > 0
      BY <1>2, <3>1, <3>2
    <3>4. x.previous = r - 1
      BY <1>1, <1>2, <3>3 DEF PreviousIsPredecessor
    <3>5. replay[u].obj = content[u][r - 1]
      <4>1. ~AtHand(u)
        BY DEF Rebuild, AtHand
      <4>2. replay[u] = CommittedAs(u, r - 1)
        BY <1>1, <3>3, <4>1 DEF WalkIsOnHistory, Replayed
      <4>3. QED
        BY <4>2 DEF CommittedAs
    <3>6. QED
      BY <2>2, <3>1, <3>4, <3>5
  <2>3. QED
    BY <2>1, <2>2
<1>5. QED
  BY <1>4 DEF Rebuild, CommittedAs

LEMMA RebuildKeepsInv ==
  ASSUME LoaderInv, mode = "replay", StoreRests, NEW u \in Uids, Rebuild(u)
  PROVE  LoaderInv'
<1>1. /\ LoaderTypeOK /\ shared = {} /\ \A v \in Uids : WalkIsOnHistory(v)
      /\ DataTypeOK
  BY DEF LoaderInv, TrackerInv
<1>2. visited[u] \in Nat /\ seen[u] \in Nat /\ visited[u] < seen[u] /\ loader = "next"
  BY <1>1 DEF LoaderTypeOK, Rebuild
<1>3. CommittedAs(u, visited[u]) \in [obj : Objects, rev : Nat]
  <2>1. visited[u] \in 0..(latest[u] - 1)
    BY <1>1, <1>2, TrackerAssumption DEF WalkIsOnHistory, DataTypeOK
  <2>2. content[u][visited[u]] \in Objects
    BY <1>1, <2>1 DEF DataTypeOK
  <2>3. QED
    BY <1>2, <2>2 DEF CommittedAs
<1>4. /\ replay' = [replay EXCEPT ![u] = CommittedAs(u, visited[u])]
      /\ loader' = "warm" /\ current' = u /\ shared' = {}
      /\ UNCHANGED <<seen, visited, delivered>>
  BY <1>1, RebuiltAsCommitted DEF Rebuild
<1>5. LoaderTypeOK'
  BY <1>1, <1>3, <1>4 DEF LoaderTypeOK
<1>6. ASSUME NEW v \in Uids
      PROVE  WalkIsOnHistory(v)'
  <2>1. WalkIsOnHistory(v) /\ ~AtHand(v) /\ (AtHand(v)' <=> v = u)
    BY <1>1, <1>2, <1>4 DEF AtHand
  <2>2. DeliveredOf(v)'
    BY <1>4, <2>1 DEF WalkIsOnHistory, StoreRests, DeliveredOf, CommittedAs
  <2>3. CASE v = u
    <3>1. replay'[u] = CommittedAs(u, visited[u])
      BY <1>1, <1>4 DEF LoaderTypeOK
    <3>2. QED
      BY <1>2, <1>4, <2>1, <2>2, <2>3, <3>1 DEF WalkIsOnHistory, Replayed, CommittedAs, StoreRests
  <2>4. CASE v # u
    <3>1. replay'[v] = replay[v]
      BY <1>1, <1>4, <2>4 DEF LoaderTypeOK
    <3>2. QED
      BY <1>2, <1>4, <2>1, <2>2, <2>4, <3>1 DEF WalkIsOnHistory, Replayed, CommittedAs, StoreRests
  <2>5. QED
    BY <2>3, <2>4
<1>7. QED
  BY <1>1, <1>4, <1>5, <1>6 DEF LoaderInv, StoreRests

(* The handler is given the next visible revision, after all before it. *)
LEMMA DeliverExtendsTheHistory ==
  ASSUME LoaderInv, mode = "replay", StoreRests, Deliver
  PROVE  DeliveredOf(current)' /\ LoaderTypeOK'
<1> DEFINE u == current
           n == visited[u]
           S == [obj : Objects, rev : Nat]
           e == CommittedAs(u, n)
           shown == {r \in 0..(n - 1) : content[u][r] \in Visible}
<1>1. /\ u \in Uids /\ LoaderTypeOK /\ WalkIsOnHistory(u) /\ AtHand(u) /\ DataTypeOK
  BY DEF LoaderInv, Deliver, AtHand, TrackerInv
<1>2. n \in Nat /\ replay[u] = e /\ e \in S
  <2>1. n \in Nat /\ replay[u] = e /\ n < seen[u] /\ seen[u] \in Nat /\ seen[u] <= latest[u]
    BY <1>1 DEF LoaderTypeOK, WalkIsOnHistory, Replayed
  <2>2. n \in 0..(latest[u] - 1)
    BY <1>1, <2>1, TrackerAssumption DEF DataTypeOK
  <2>3. content[u][n] \in Objects
    BY <1>1, <2>2 DEF DataTypeOK
  <2>4. QED
    BY <2>1, <2>3 DEF CommittedAs
<1>3. /\ visited' = [visited EXCEPT ![u] = n + 1]
      /\ delivered' = IF content[u][n] \in Visible
                      THEN [delivered EXCEPT ![u] = Append(@, e)] ELSE delivered
      /\ loader' = "next" /\ UNCHANGED <<seen, current, replay, shared>>
  BY <1>2 DEF Deliver, CommittedAs
<1>4. delivered[u] \in Seq(S) /\ visited'[u] = n + 1 /\ content' = content
  BY <1>1, <1>3 DEF LoaderTypeOK, StoreRests
<1>5. /\ Range(delivered[u]) = {CommittedAs(u, r) : r \in shown}
      /\ \A i, j \in DOMAIN delivered[u] : i < j => delivered[u][i].rev < delivered[u][j].rev
  BY <1>1 DEF WalkIsOnHistory, DeliveredOf
<1>6. LoaderTypeOK'
  <2>1. Append(delivered[u], e) \in Seq(S)
    BY <1>2, <1>4, AppendProperties
  <2>2. visited' \in [Uids -> Nat]
    BY <1>1, <1>2, <1>3 DEF LoaderTypeOK
  <2>3. delivered' \in [Uids -> Seq(S)]
    <3>1. delivered \in [Uids -> Seq(S)]
      BY <1>1 DEF LoaderTypeOK
    <3> HIDE DEF S, e, n
    <3>2. QED
      BY <1>1, <1>3, <2>1, <3>1
  <2>4. QED
    BY <1>1, <1>3, <2>2, <2>3 DEF LoaderTypeOK
<1>7. 0..(visited'[u] - 1) = (0..(n - 1)) \union {n}
  BY <1>2, <1>4
<1>8. CASE content[u][n] \notin Visible
  <2>1. {r \in 0..(visited'[u] - 1) : content[u][r] \in Visible} = shown
    BY <1>7, <1>8
  <2>2. delivered' = delivered
    BY <1>3, <1>8
  <2>3. QED
    BY <1>3, <1>4, <1>5, <1>6, <2>1, <2>2 DEF DeliveredOf, CommittedAs
<1>9. CASE content[u][n] \in Visible
  <2> DEFINE s == delivered[u]
             t == Append(s, e)
  <2>1. {r \in 0..(visited'[u] - 1) : content[u][r] \in Visible} = shown \union {n}
    BY <1>7, <1>9
  <2>2. delivered'[u] = t
    BY <1>1, <1>3, <1>9 DEF LoaderTypeOK
  <2>3. /\ Len(s) \in Nat /\ DOMAIN s = 1..Len(s)
        /\ DOMAIN t = 1..(Len(s) + 1)
        /\ \A i \in 1..Len(s) : t[i] = s[i]
        /\ t[Len(s) + 1] = e
    <3>1. t \in Seq(S) /\ Len(t) = Len(s) + 1 /\ t[Len(s) + 1] = e /\ \A i \in 1..Len(s) : t[i] = s[i]
      BY <1>2, <1>4, AppendProperties
    <3>2. Len(s) \in Nat /\ DOMAIN s = 1..Len(s) /\ DOMAIN t = 1..Len(t)
      BY <1>4, <3>1, LenProperties
    <3>3. QED
      BY <3>1, <3>2
  <2> HIDE DEF e, s, t, u, n
  <2>4. DOMAIN t = DOMAIN s \union {Len(s) + 1} /\ \A i \in DOMAIN s : t[i] = s[i]
    BY <2>3
  <2>5. Range(t) = Range(s) \union {e}
    BY <2>3, <2>4 DEF Range
  <2>6. \A i \in DOMAIN s : s[i].rev \in 0..(n - 1)
    <3>1. \A i \in DOMAIN s : s[i] \in {CommittedAs(u, r) : r \in shown}
      BY <1>5 DEF Range, s
    <3>2. QED
      BY <3>1 DEF CommittedAs
  <2>7. e.rev = n
    BY DEF e, CommittedAs
  <2>8. \A i, j \in DOMAIN t : i < j => t[i].rev < t[j].rev
    <3>1. SUFFICES ASSUME NEW i \in DOMAIN t, NEW j \in DOMAIN t, i < j
                   PROVE  t[i].rev < t[j].rev
      OBVIOUS
    <3>2. i \in DOMAIN s
      BY <2>3, <3>1
    <3>3. CASE j \in DOMAIN s
      <4>1. s[i].rev < s[j].rev
        BY <1>5, <3>1, <3>2, <3>3 DEF s
      <4>2. QED
        BY <4>1, <3>2, <3>3, <2>4
    <3>4. CASE j = Len(s) + 1
      BY <2>3, <2>4, <2>6, <2>7, <3>2, <3>4, <1>2
    <3>5. QED
      BY <2>4, <3>3, <3>4
  <2>9. Range(t) = {CommittedAs(u, r) : r \in shown \union {n}}
    <3> HIDE DEF shown
    <3>1. {CommittedAs(u, r) : r \in shown \union {n}} = {CommittedAs(u, r) : r \in shown} \union {e}
      BY DEF e
    <3>2. QED
      BY <1>5, <2>5, <3>1 DEF s
  <2>10. current' = u /\ content' = content /\ visited'[u] = visited'[current']
    BY <1>3, <1>4 DEF u
  <2>11. DeliveredOf(current)'
    <3>1. {r \in 0..(visited'[u] - 1) : content'[u][r] \in Visible} = shown \union {n}
      BY <2>1, <2>10
    <3>2. Range(delivered'[u]) = {[obj |-> content'[u][r], rev |-> r] : r \in shown \union {n}}
      <4> HIDE DEF shown
      <4>1. QED
        BY <2>2, <2>9, <2>10 DEF CommittedAs
    <3>3. QED
      BY <2>2, <2>8, <2>10, <3>1, <3>2 DEF DeliveredOf, CommittedAs
  <2>12. QED
    BY <2>11, <1>6
<1>10. QED
  BY <1>8, <1>9

LEMMA DeliverKeepsInv ==
  ASSUME LoaderInv, mode = "replay", StoreRests, Deliver
  PROVE  LoaderInv'
<1>1. /\ LoaderTypeOK /\ shared = {} /\ \A v \in Uids : WalkIsOnHistory(v)
      /\ current \in Uids
  BY DEF LoaderInv, Deliver
<1>2. /\ visited' = [visited EXCEPT ![current] = visited[current] + 1]
      /\ loader' = "next" /\ UNCHANGED <<seen, current, replay, shared>>
      /\ \A v \in Uids : v # current => delivered'[v] = delivered[v]
  BY <1>1 DEF Deliver, LoaderTypeOK
<1>3. ASSUME NEW v \in Uids
      PROVE  WalkIsOnHistory(v)'
  <2>1. WalkIsOnHistory(v) /\ (AtHand(v) <=> v = current) /\ ~AtHand(v)'
    BY <1>1, <1>2 DEF AtHand, Deliver
  <2>2. visited[v] \in Nat /\ seen[v] \in Nat
    BY <1>1 DEF LoaderTypeOK
  <2>3. CASE v = current
    <3>1. visited'[v] = visited[v] + 1
      BY <1>1, <1>2, <2>3 DEF LoaderTypeOK
    <3>2. DeliveredOf(v)'
      BY <2>3, <1>2, DeliverExtendsTheHistory
    <3>3. QED
      BY <1>2, <2>1, <2>2, <2>3, <3>1, <3>2 DEF WalkIsOnHistory, Replayed, CommittedAs, StoreRests
  <2>4. CASE v # current
    <3>1. visited'[v] = visited[v] /\ delivered'[v] = delivered[v]
      BY <1>1, <1>2, <2>4 DEF LoaderTypeOK
    <3>2. DeliveredOf(v)'
      BY <2>1, <3>1 DEF WalkIsOnHistory, StoreRests, DeliveredOf, CommittedAs
    <3>3. QED
      BY <1>2, <2>1, <2>2, <2>4, <3>1, <3>2 DEF WalkIsOnHistory, Replayed, CommittedAs, StoreRests
  <2>5. QED
    BY <2>3, <2>4
<1>4. LoaderTypeOK'
  BY DeliverExtendsTheHistory
<1>5. QED
  BY <1>1, <1>2, <1>3, <1>4 DEF LoaderInv, StoreRests

-----------------------------------------------------------------------------
LEMMA LoaderInitHasInv ==
  ASSUME LoaderInit, RecordedHeadless
  PROVE  LoaderInv
<1>1. TrackerInv
  BY InitHasInv DEF LoaderInit
<1>2. mode \in Modes
  BY UsesAssumption DEF LoaderInit
<1>3. \A c \in Clients : pc[c] = "idle"
  BY DEF LoaderInit, Init
<1>4. NewSession
  BY DEF LoaderInit, NewSession
<1>5. LoaderTypeOK /\ \A u \in Uids : WalkIsOnHistory(u)
  BY <1>1, <1>4, SessionsStart DEF TrackerInv
<1>6. QED
  BY <1>1, <1>2, <1>3, <1>5 DEF LoaderInv, LoaderInit, Modes

(* A session that is not interactive follows one that is not. *)
LEMMA NextSessionKeepsInv ==
  ASSUME LoaderInv, RecordedHeadless, NextSession
  PROVE  LoaderInv'
<1>1. SUFFICES ASSUME mode' # "interactive" PROVE LoaderInv'
  BY DEF LoaderInv
<1>2. PICK use \in Uses : mode \in use /\ mode' \in use
  BY DEF NextSession
<1>3. mode # "interactive" /\ mode' \in Modes
  BY <1>1, <1>2, UsesAssumption DEF RecordedHeadless
<1>4. TrackerInv'
  BY <1>3, StepKeepsInv DEF LoaderInv, NextSession, Next
<1>5. NewSession' /\ shared' = {} /\ \A c \in Clients : pc'[c] = "idle"
  BY DEF NextSession, NewSession, Restart
<1>6. LoaderTypeOK' /\ \A u \in Uids : WalkIsOnHistory(u)'
  BY <1>4, <1>5, SessionsStartPrime DEF TrackerInv
<1>7. QED
  BY <1>1, <1>3, <1>4, <1>5, <1>6 DEF LoaderInv, Modes, NewSession

LEMMA LoaderStepKeepsInv ==
  ASSUME LoaderInv, RecordedHeadless, [LoaderNext]_allVars
  PROVE  LoaderInv'
<1>1. CASE NextSession
  BY <1>1, NextSessionKeepsInv
<1>2. CASE LoaderNext /\ ~NextSession
  <2>1. mode' = mode
    BY <1>2 DEF LoaderNext, LoaderStep, BeginWalk, Rebuild, WarmCache, Deliver, EndWalk, Collect,
                NeedRemap, CommitStep, EvictEntry, sessionVars
  <2>2. SUFFICES ASSUME mode # "interactive" PROVE LoaderInv'
    BY <2>1 DEF LoaderInv
  <2>3. /\ [Next]_vars /\ TrackerInv'
        /\ mode = "replay" => UNCHANGED <<latest, record, content>>
    <3>1. [Next]_vars /\ TrackerInv
      BY <1>2, <2>2, TrackerSteps DEF LoaderInv
    <3>2. QED
      BY <3>1, StepKeepsInv, <1>2, <2>2, TrackerSteps
  <2>4. CASE LoaderStep
    <3>1. mode = "replay"
      BY <2>2, <2>4 DEF LoaderInv, LoaderStep, BeginWalk, Rebuild, WarmCache, Deliver, EndWalk
    <3>2. pc' = pc
      BY <2>4 DEF LoaderStep, BeginWalk, Rebuild, WarmCache, Deliver, EndWalk, vars, callVars
    <3>3. StoreRests
      BY <2>1, <2>2, <2>3, <3>1, <3>2 DEF StoreRests, LoaderInv
    <3>4. QED
      BY <2>4, <3>1, <3>3, BeginWalkKeepsInv, RebuildKeepsInv, WarmCacheKeepsInv, DeliverKeepsInv,
         EndWalkKeepsInv DEF LoaderStep
  <2>5. CASE ~LoaderStep
    <3>1. /\ mode \in {"headless", "replay"} /\ shared = {}
          /\ mode = "headless" => loader = "off"
          /\ mode = "replay" => \A c \in Clients : pc[c] = "idle"
      BY <2>2 DEF LoaderInv
    <3>2. ASSUME NEW c \in Clients, CommitStep(c)
          PROVE  UNCHANGED loaderVars /\ mode # "replay"
      <4>1. UNCHANGED <<replay, shared>>
        BY <3>1, <3>2 DEF CommitStep
      <4>2. pc[c] # "idle"
        BY <3>2 DEF CommitStep, ColdStart, RestoreGet, RestoreApply, RestoreReturns, WriteFirst,
                    RefuseDuplicate, WriteSnapshot, WritePatch, FailWrite, Abort
      <4>3. QED
        BY <3>1, <3>2, <4>1, <4>2 DEF CommitStep, loaderVars
    <3>3. ASSUME NEW c \in Clients, NEW u \in Uids, NEW o \in Objects, Collect(c, u, o)
          PROVE  UNCHANGED loaderVars /\ mode # "replay"
      BY <3>3 DEF Collect, sessionVars
    <3>4. ASSUME NEW u \in Uids, EvictEntry(u)
          PROVE  UNCHANGED loaderVars /\ pc' = pc
      BY <3>4 DEF EvictEntry, Evict, sessionVars, callVars
    <3>5. ASSUME NEW c \in Clients, NeedRemap(c)
          PROVE  UNCHANGED loaderVars /\ pc' = pc
      BY <3>5 DEF NeedRemap, vars
    <3>6. UNCHANGED loaderVars /\ (mode = "replay" => pc' = pc)
      BY <1>2, <2>5, <3>2, <3>3, <3>4, <3>5 DEF LoaderNext
    <3>7. QED
      BY <2>1, <2>2, <2>3, <3>1, <3>6, LoaderRests
  <2>6. QED
    BY <2>4, <2>5
<1>3. CASE UNCHANGED allVars
  <2>1. SUFFICES ASSUME mode # "interactive" PROVE LoaderInv'
    BY <1>3 DEF LoaderInv, allVars, sessionVars
  <2>2. [Next]_vars /\ UNCHANGED <<mode, loaderVars, latest, record, content, pc>>
    BY <1>3 DEF allVars, sessionVars, vars
  <2>3. TrackerInv'
    BY <2>1, <2>2, StepKeepsInv DEF LoaderInv
  <2>4. mode = "replay" => \A c \in Clients : pc'[c] = "idle"
    BY <2>1, <2>2 DEF LoaderInv
  <2>5. QED
    BY <2>1, <2>2, <2>3, <2>4, LoaderRests
<1>4. QED
  BY <1>1, <1>2, <1>3

(* In captures that are recorded headless the loader is always where the     *)
(* history says it is, in every session and after any crash.                 *)
THEOREM LoaderInvariance == RecordedHeadless => (LoaderSpec => []LoaderInv)
<1> SUFFICES ASSUME RecordedHeadless PROVE LoaderSpec => []LoaderInv
  OBVIOUS
<1>1. LoaderInit => LoaderInv
  BY LoaderInitHasInv
<1>2. LoaderInv /\ [LoaderNext]_allVars => LoaderInv'
  BY LoaderStepKeepsInv
<1>3. QED
  BY <1>1, <1>2, PTL DEF LoaderSpec

(* In every session of a capture that was recorded headless, whatever        *)
(* commits failed and wherever the process was killed while it was recorded, *)
(* the revision handler is given the history as it was committed.            *)
THEOREM HistoryIsDelivered == RecordedHeadless => (LoaderSpec => []DeliveredIsHistory)
<1> SUFFICES ASSUME RecordedHeadless PROVE LoaderSpec => []DeliveredIsHistory
  OBVIOUS
<1>1. LoaderInv => DeliveredIsHistory
  BY DEF LoaderInv, DeliveredIsHistory, WalkIsOnHistory
<1>2. QED
  BY <1>1, LoaderInvariance, PTL

(* In a capture no interactive session records to, every revision restores:  *)
(* the one thing missing in LoaderRestores' counterexample.                  *)
THEOREM HeadlessCapturesRestore ==
  RecordedHeadless => (LoaderSpec => [](mode # "interactive" => EveryRevisionRestores))
<1> SUFFICES ASSUME RecordedHeadless
             PROVE  LoaderSpec => [](mode # "interactive" => EveryRevisionRestores)
  OBVIOUS
<1>1. LoaderInv => (mode # "interactive" => EveryRevisionRestores)
  BY RebuiltIsContent DEF LoaderInv, EveryRevisionRestores
<1>2. QED
  BY <1>1, LoaderInvariance, PTL
=============================================================================
