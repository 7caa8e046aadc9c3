------------------------ MODULE RevisionStoreProofs ------------------------
(***************************************************************************)
(* Proofs about RevisionStore for any number of clients, objects, records  *)
(* and revisions, and for every choice of Durable and SyncInterval.        *)
(***************************************************************************)
EXTENDS RevisionStore, TLAPS

(* The histories an object can have: one record per revision from 0 on. *)
Histories == UNION {[0..(n - 1) -> Records] : n \in 0..MaxRevisions}

(* A history of n revisions followed by one more record. *)
LEMMA HistoryGrows ==
  ASSUME NEW n \in Nat, n < MaxRevisions, NEW h, h \in [0..(n - 1) -> Records],
         NEW x \in Records
  PROVE  [q \in 0..n |-> IF q = n THEN x ELSE h[q]] \in Histories
<1>1. \A q \in 0..n : q = n \/ q \in 0..(n - 1)
  OBVIOUS
<1>2. [q \in 0..n |-> IF q = n THEN x ELSE h[q]] \in [0..n -> Records]
  BY <1>1
<1>3. n + 1 \in 0..MaxRevisions /\ (n + 1) - 1 = n
  BY StoreAssumption
<1>4. QED
  BY <1>2, <1>3 DEF Histories

(* The first m revisions of a history are a history. *)
LEMMA HistoryPrefix ==
  ASSUME NEW n \in 0..MaxRevisions, NEW m \in 0..n, NEW h, h \in [0..(n - 1) -> Records]
  PROVE  [q \in 0..(m - 1) |-> h[q]] \in Histories
<1>1. [q \in 0..(m - 1) |-> h[q]] \in [0..(m - 1) -> Records]
  BY StoreAssumption
<1>2. m \in 0..MaxRevisions
  BY StoreAssumption
<1>3. QED
  BY <1>1, <1>2 DEF Histories

(* With the buckets in agreement, an object's history has latest revisions. *)
LEMMA HistoryLength ==
  ASSUME TypeOK, RevisionsAreContiguous, NEW u \in Uids
  PROVE  snapshots[u] \in [0..(latest[u] - 1) -> Records]
<1>1. snapshots[u] \in UNION {[0..(n - 1) -> Records] : n \in 0..MaxRevisions}
  BY DEF TypeOK
<1>2. PICK n \in 0..MaxRevisions : snapshots[u] \in [0..(n - 1) -> Records]
  BY <1>1
<1>3. DOMAIN snapshots[u] = 0..(n - 1)
  BY <1>2
<1>4. QED
  BY <1>2, <1>3 DEF RevisionsAreContiguous

(* A call that returns leaves the client's local state well typed. *)
LEMMA ReturnTypes ==
  ASSUME TypeOK, NEW c \in Clients, Return(c)
  PROVE  /\ pc' \in [Clients -> Phases]
         /\ want' \in [Clients -> Calls \union {None}]
         /\ next' \in [Clients -> 0..MaxRevisions]
  BY StoreAssumption DEF TypeOK, Return, Phases

LEMMA InitStoreInv == Init => StoreInv
<1> SUFFICES ASSUME Init PROVE StoreInv
  OBVIOUS
<1> USE StoreAssumption DEF Init
<1>1. TypeOK
  <2>1. [r \in {} |-> {}] \in [0..(0 - 1) -> Records]
    BY 0..(0 - 1) = {}
  <2>2. snapshots \in [Uids -> UNION {[0..(n - 1) -> Records] : n \in 0..MaxRevisions}]
    BY <2>1, 0 \in 0..MaxRevisions
  <2>3. latest \in [Uids -> 0..MaxRevisions] /\ next \in [Clients -> 0..MaxRevisions]
    OBVIOUS
  <2>4. QED
    BY <2>2, <2>3 DEF TypeOK, Phases
<1>2. RevisionsAreContiguous
  BY DEF RevisionsAreContiguous
<1>3. CounterAtMostOneAhead /\ ClientsAreConsistent /\ RecoverableIsPast
  BY DEF CounterAtMostOneAhead, ClientsAreConsistent, RecoverableIsPast
<1>4. QED
  BY <1>1, <1>2, <1>3 DEF StoreInv

-----------------------------------------------------------------------------
(* What a commit does to the buckets, in the form the proofs use. *)
LEMMA CommitAppends ==
  ASSUME StoreInv, NEW c \in Clients, CommitUpdate(c)
  PROVE  LET u == want[c].uid
         IN  /\ u \in Uids /\ want[c].rec \in Records /\ writer = c
             /\ latest[u] < MaxRevisions
             /\ latest' = [latest EXCEPT ![u] = latest[u] + 1]
             /\ snapshots' = [snapshots EXCEPT ![u] =
                  [q \in 0..latest[u] |->
                     IF q = latest[u] THEN want[c].rec ELSE snapshots[u][q]]]
<1> DEFINE u == want[c].uid
<1>1. /\ u \in Uids /\ want[c].rec \in Records /\ writer = c
      /\ next[c] = latest[u] + 1 /\ next[c] \in 0..MaxRevisions /\ latest[u] \in Nat
  BY StoreAssumption DEF StoreInv, ClientsAreConsistent, CommitUpdate, TypeOK, Calls
<1>2. next[c] - 1 = latest[u] /\ latest[u] < MaxRevisions
  BY <1>1, StoreAssumption
<1>3. DOMAIN snapshots[u] \union {latest[u]} = 0..latest[u]
  BY <1>1 DEF StoreInv, RevisionsAreContiguous
<1>4. QED
  BY <1>1, <1>2, <1>3 DEF CommitUpdate

(* Every step keeps the types and the agreement of the two buckets. *)
LEMMA StepBuckets ==
  StoreInv /\ [Next]_vars => TypeOK' /\ RevisionsAreContiguous'
<1> SUFFICES ASSUME StoreInv, [Next]_vars PROVE TypeOK' /\ RevisionsAreContiguous'
  OBVIOUS
<1> USE StoreAssumption DEF StoreInv
<1> DEFINE Goal == TypeOK' /\ RevisionsAreContiguous'
<1>1. ASSUME NEW c \in Clients, NEW u \in Uids, NEW x \in Records, CallSet(c, u, x) PROVE Goal
  BY <1>1 DEF CallSet, diskVars, TypeOK, Phases, Calls, RevisionsAreContiguous
<1>2. ASSUME NEW c \in Clients, BeginUpdate(c) PROVE Goal
  <2>1. CASE Return(c)
    BY <1>2, <2>1, ReturnTypes DEF BeginUpdate, diskVars, TypeOK, RevisionsAreContiguous
  <2>2. CASE ~Return(c)
    BY <1>2, <2>2 DEF BeginUpdate, diskVars, TypeOK, Phases, RevisionsAreContiguous
  <2>3. QED
    BY <2>1, <2>2
<1>3. ASSUME NEW c \in Clients, ClaimNextRevision(c) PROVE Goal
  BY <1>3 DEF ClaimNextRevision, diskVars, TypeOK, Phases, Calls, RevisionsAreContiguous,
              ClientsAreConsistent
<1>4. ASSUME NEW c \in Clients, CommitUpdate(c) PROVE Goal
  <2> DEFINE u == want[c].uid
             h == [q \in 0..latest[u] |-> IF q = latest[u] THEN want[c].rec ELSE snapshots[u][q]]
  <2>1. /\ u \in Uids /\ want[c].rec \in Records /\ latest[u] < MaxRevisions
        /\ latest' = [latest EXCEPT ![u] = latest[u] + 1]
        /\ snapshots' = [snapshots EXCEPT ![u] = h]
    BY <1>4, CommitAppends
  <2>2. latest[u] \in Nat
    BY <2>1 DEF TypeOK
  <2>3. h \in Histories /\ DOMAIN h = 0..((latest[u] + 1) - 1)
    <3>1. snapshots[u] \in [0..(latest[u] - 1) -> Records]
      BY <2>1, HistoryLength
    <3>2. h \in Histories
      BY <2>1, <2>2, <3>1, HistoryGrows
    <3>3. QED
      BY <2>2, <3>2
  <2>4. snapshots' \in [Uids -> Histories] /\ latest' \in [Uids -> 0..MaxRevisions]
    BY <2>1, <2>2, <2>3 DEF TypeOK, Histories
  <2>5. recoverable' \in SUBSET [Uids -> 0..MaxRevisions] /\ promised' \in [Uids -> 0..MaxRevisions]
    BY <1>4, <2>4 DEF CommitUpdate, TypeOK
  <2>6. TypeOK'
    BY <1>4, <2>4, <2>5, ReturnTypes DEF CommitUpdate, TypeOK, Histories
  <2>7. RevisionsAreContiguous'
    BY <2>1, <2>3 DEF RevisionsAreContiguous, TypeOK
  <2>8. QED
    BY <2>6, <2>7
<1>5. ASSUME NEW c \in Clients, RollbackUpdate(c) PROVE Goal
  BY <1>5, ReturnTypes DEF RollbackUpdate, diskVars, TypeOK, RevisionsAreContiguous
<1>6. ASSUME NEW c \in Clients, NEW u \in Uids, MissLatest(c, u) PROVE Goal
  BY <1>6 DEF MissLatest, diskVars, TypeOK, Phases, Calls, RevisionsAreContiguous
<1>7. ASSUME NEW c \in Clients, ViewLatest(c) PROVE Goal
  <2>1. CASE Return(c)
    BY <1>7, <2>1, ReturnTypes DEF ViewLatest, diskVars, TypeOK, RevisionsAreContiguous
  <2>2. CASE ~Return(c)
    BY <1>7, <2>2 DEF ViewLatest, diskVars, TypeOK, Phases, Calls, RevisionsAreContiguous,
                      ClientsAreConsistent
  <2>3. QED
    BY <2>1, <2>2
<1>8. ASSUME NEW c \in Clients, FillCounter(c) PROVE Goal
  <2>1. next[c] \in Nat
    BY DEF TypeOK
  <2>2. nextRevisionCounter' \in [Uids -> Nat \union {None}]
    BY <1>8, <2>1 DEF FillCounter, TypeOK
  <2>3. QED
    BY <1>8, <2>2, ReturnTypes DEF FillCounter, diskVars, TypeOK, RevisionsAreContiguous
<1>9. CASE SyncTick \/ CloseSync
  BY <1>9 DEF SyncTick, CloseSync, Synced, clientVars, TypeOK, RevisionsAreContiguous
<1>10. CASE CloseDB
  BY <1>10 DEF CloseDB, diskVars, clientVars, TypeOK, RevisionsAreContiguous
<1>11. CASE CrashAndReopen
  <2>1. PICK survived \in recoverable :
          /\ latest' = survived
          /\ snapshots' = [u \in Uids |-> [r \in 0..(survived[u] - 1) |-> snapshots[u][r]]]
          /\ recoverable' = {survived}
    BY <1>11 DEF CrashAndReopen
  <2>2. survived \in [Uids -> 0..MaxRevisions]
    BY DEF TypeOK
  <2>3. ASSUME NEW u \in Uids PROVE survived[u] \in 0..latest[u] /\ latest[u] \in 0..MaxRevisions
    BY <2>2, <2>3 DEF RecoverableIsPast, TypeOK
  <2>4. ASSUME NEW u \in Uids PROVE [r \in 0..(survived[u] - 1) |-> snapshots[u][r]] \in Histories
    BY <2>3, <2>4, HistoryPrefix, HistoryLength
  <2>5. snapshots' \in [Uids -> Histories]
    BY <2>1, <2>4
  <2>6. TypeOK'
    BY <1>11, <2>1, <2>2, <2>5 DEF CrashAndReopen, TypeOK, Phases, Histories
  <2>7. RevisionsAreContiguous'
    BY <2>1 DEF RevisionsAreContiguous
  <2>8. QED
    BY <2>6, <2>7
<1>12. CASE UNCHANGED vars
  BY <1>12 DEF vars, TypeOK, RevisionsAreContiguous
<1>13. QED
  BY <1>1, <1>2, <1>3, <1>4, <1>5, <1>6, <1>7, <1>8, <1>9, <1>10, <1>11, <1>12
     DEF Next, ClientStep

(* A client's own step and every other step keep what clients rely on: a     *)
(* commit of another client cannot come between, one writer at a time.       *)
LEMMA StepClients == StoreInv /\ [Next]_vars => ClientsAreConsistent'
<1> SUFFICES ASSUME StoreInv, [Next]_vars PROVE ClientsAreConsistent'
  OBVIOUS
<1> USE StoreAssumption DEF StoreInv, TypeOK, Phases, Calls, ClientsAreConsistent
<1>1. ASSUME NEW c \in Clients, NEW u \in Uids, NEW x \in Records, CallSet(c, u, x)
      PROVE ClientsAreConsistent'
  BY <1>1 DEF CallSet, diskVars
<1>2. ASSUME NEW c \in Clients, BeginUpdate(c) PROVE ClientsAreConsistent'
  BY <1>2 DEF BeginUpdate, Return, diskVars
<1>3. ASSUME NEW c \in Clients, ClaimNextRevision(c) PROVE ClientsAreConsistent'
  BY <1>3 DEF ClaimNextRevision, diskVars
<1>4. ASSUME NEW c \in Clients, CommitUpdate(c) PROVE ClientsAreConsistent'
  <2>1. /\ want[c].uid \in Uids /\ writer = c
        /\ latest' = [latest EXCEPT ![want[c].uid] = latest[want[c].uid] + 1]
    BY <1>4, CommitAppends
  <2>2. \A d \in Clients \ {c} : pc[d] \notin {"claim", "commit"}
    BY <2>1
  <2>3. \A d \in Clients \ {c} : pc'[d] = pc[d] /\ want'[d] = want[d] /\ next'[d] = next[d]
    BY <1>4 DEF CommitUpdate, Return
  <2>4. pc'[c] = "idle"
    BY <1>4 DEF CommitUpdate, Return
  <2>5. \A u \in Uids : latest[u] <= latest'[u] /\ latest[u] \in Nat /\ latest'[u] \in Nat
    BY <2>1
  <2>6. QED
    BY <2>2, <2>3, <2>4, <2>5
<1>5. ASSUME NEW c \in Clients, RollbackUpdate(c) PROVE ClientsAreConsistent'
  BY <1>5 DEF RollbackUpdate, Return, diskVars
<1>6. ASSUME NEW c \in Clients, NEW u \in Uids, MissLatest(c, u) PROVE ClientsAreConsistent'
  BY <1>6 DEF MissLatest, diskVars
<1>7. ASSUME NEW c \in Clients, ViewLatest(c) PROVE ClientsAreConsistent'
  BY <1>7 DEF ViewLatest, Return, diskVars
<1>8. ASSUME NEW c \in Clients, FillCounter(c) PROVE ClientsAreConsistent'
  BY <1>8 DEF FillCounter, Return, diskVars
<1>9. CASE SyncTick \/ CloseSync \/ CloseDB
  BY <1>9 DEF SyncTick, CloseSync, CloseDB, Synced, clientVars, diskVars
<1>10. CASE CrashAndReopen
  BY <1>10 DEF CrashAndReopen
<1>11. CASE UNCHANGED vars
  BY <1>11 DEF vars
<1>12. QED
  BY <1>1, <1>2, <1>3, <1>4, <1>5, <1>6, <1>7, <1>8, <1>9, <1>10, <1>11 DEF Next, ClientStep

(* The counter in memory: claimed one ahead, filled with what was committed. *)
LEMMA StepCounter == StoreInv /\ [Next]_vars => CounterAtMostOneAhead'
<1> SUFFICES ASSUME StoreInv, [Next]_vars PROVE CounterAtMostOneAhead'
  OBVIOUS
<1> USE StoreAssumption DEF StoreInv, TypeOK, CounterAtMostOneAhead
<1>1. ASSUME NEW c \in Clients, ClaimNextRevision(c) PROVE CounterAtMostOneAhead'
  BY <1>1 DEF ClaimNextRevision, diskVars, ClientsAreConsistent, Calls
<1>2. ASSUME NEW c \in Clients, CommitUpdate(c) PROVE CounterAtMostOneAhead'
  <2>1. /\ want[c].uid \in Uids
        /\ latest' = [latest EXCEPT ![want[c].uid] = latest[want[c].uid] + 1]
    BY <1>2, CommitAppends
  <2>2. \A u \in Uids : latest[u] <= latest'[u] /\ latest[u] \in Nat /\ latest'[u] \in Nat
    BY <2>1
  <2>3. nextRevisionCounter' = nextRevisionCounter
    BY <1>2 DEF CommitUpdate
  <2>4. QED
    BY <2>2, <2>3
<1>3. ASSUME NEW c \in Clients, FillCounter(c) PROVE CounterAtMostOneAhead'
  <2>1. want[c].uid \in Uids /\ next[c] \in 1..(latest[want[c].uid] + 1)
    BY <1>3 DEF FillCounter, ClientsAreConsistent, Calls
  <2>2. QED
    BY <1>3, <2>1 DEF FillCounter, diskVars
<1>4. ASSUME UNCHANGED <<latest, nextRevisionCounter>> PROVE CounterAtMostOneAhead'
  BY <1>4
<1>5. CASE CrashAndReopen
  BY <1>5 DEF CrashAndReopen
<1>6. QED
  BY <1>1, <1>2, <1>3, <1>4, <1>5
     DEF Next, ClientStep, CallSet, BeginUpdate, RollbackUpdate, MissLatest, ViewLatest,
         SyncTick, CloseSync, CloseDB, Synced, diskVars, vars

(* What a crash may bring back lies between what was promised and what is    *)
(* committed.                                                                *)
LEMMA StepRecoverable == StoreInv /\ [Next]_vars => RecoverableIsPast'
<1> SUFFICES ASSUME StoreInv, [Next]_vars PROVE RecoverableIsPast'
  OBVIOUS
<1> USE StoreAssumption DEF StoreInv, TypeOK, RecoverableIsPast
<1>1. ASSUME NEW c \in Clients, CommitUpdate(c) PROVE RecoverableIsPast'
  <2>1. /\ want[c].uid \in Uids
        /\ latest' = [latest EXCEPT ![want[c].uid] = latest[want[c].uid] + 1]
    BY <1>1, CommitAppends
  <2>2. \A u \in Uids : latest[u] <= latest'[u] /\ latest[u] \in Nat /\ latest'[u] \in Nat
    BY <2>1
  <2>3. \A u \in Uids : promised[u] <= latest[u] /\ promised[u] \in Nat
    OBVIOUS
  <2>4. CASE NoSync
    <3>1. recoverable' = recoverable \union {latest'} /\ promised' = promised
      BY <1>1, <2>4 DEF CommitUpdate
    <3>2. ASSUME NEW h \in recoverable', NEW u \in Uids PROVE promised'[u] <= h[u] /\ h[u] <= latest'[u]
      <4>1. CASE h = latest'
        BY <2>2, <2>3, <3>1, <4>1
      <4>2. CASE h \in recoverable
        <5>1. promised[u] <= h[u] /\ h[u] <= latest[u] /\ h[u] \in Nat
          BY <4>2
        <5>2. QED
          BY <2>2, <3>1, <5>1
      <4>3. QED
        BY <3>1, <4>1, <4>2
    <3>3. QED
      BY <3>1, <3>2
  <2>5. CASE ~NoSync
    <3>1. recoverable' = {latest'} /\ promised' = latest'
      BY <1>1, <2>5 DEF CommitUpdate
    <3>2. QED
      BY <2>2, <3>1
  <2>6. QED
    BY <2>4, <2>5
<1>2. CASE SyncTick \/ CloseSync
  BY <1>2 DEF SyncTick, CloseSync, Synced
<1>3. ASSUME UNCHANGED <<latest, recoverable, promised>> PROVE RecoverableIsPast'
  BY <1>3
<1>4. CASE CrashAndReopen
  <2>1. PICK survived \in recoverable :
          latest' = survived /\ recoverable' = {survived} /\ promised' = promised
    BY <1>4 DEF CrashAndReopen
  <2>2. ASSUME NEW u \in Uids PROVE promised[u] <= survived[u] /\ survived[u] <= survived[u]
    <3>1. survived[u] \in Nat
      BY <2>2
    <3>2. QED
      BY <2>2, <3>1
  <2>3. QED
    BY <2>1, <2>2
<1>5. QED
  BY <1>1, <1>2, <1>3, <1>4
     DEF Next, ClientStep, CallSet, BeginUpdate, ClaimNextRevision, RollbackUpdate, MissLatest,
         ViewLatest, FillCounter, CloseDB, diskVars, vars

-----------------------------------------------------------------------------
(* The inductive invariant holds in every reachable state. *)
THEOREM StoreInvariance == Spec => []StoreInv
<1>1. StoreInv /\ [Next]_vars => StoreInv'
  <2> SUFFICES ASSUME StoreInv, [Next]_vars PROVE StoreInv'
    OBVIOUS
  <2>1. TypeOK' /\ RevisionsAreContiguous'
    BY StepBuckets
  <2>2. ClientsAreConsistent' /\ CounterAtMostOneAhead' /\ RecoverableIsPast'
    BY StepClients, StepCounter, StepRecoverable
  <2>3. QED
    BY <2>1, <2>2 DEF StoreInv
<1>2. QED
  BY InitStoreInv, <1>1, PTL DEF Spec

(* The revisions of every object are numbered 0 to latest - 1 without a gap, *)
(* whatever clients, failing transactions and crashes do.                    *)
THEOREM BucketsAgree == Spec => []RevisionsAreContiguous
<1>1. StoreInv => RevisionsAreContiguous
  BY DEF StoreInv
<1>2. QED
  BY StoreInvariance, <1>1, PTL

(* The counter in memory is never 0 and never more than one ahead.           *)
THEOREM CounterIsClose == Spec => []CounterAtMostOneAhead
<1>1. StoreInv => CounterAtMostOneAhead
  BY DEF StoreInv
<1>2. QED
  BY StoreInvariance, <1>1, PTL

(* No crash loses a revision that a Sync had covered.                        *)
THEOREM CrashLosesOnlyUnsynced == Spec => []PromisedRevisionsSurvive
<1>1. StoreInv => PromisedRevisionsSurvive
  BY DEF StoreInv, RecoverableIsPast, PromisedRevisionsSurvive
<1>2. QED
  BY StoreInvariance, <1>1, PTL

(* The store implements the append-only log: no committed revision is ever   *)
(* rewritten, renumbered or skipped; a crash cuts suffixes.                  *)
THEOREM RefinesRevisionLog == Spec => ImplementsRevisionLog
<1>1. Init => Log!Init
  BY DEF Init, Log!Init
<1>2. ASSUME StoreInv, [Next]_vars PROVE [Log!Next]_<<latest, snapshots>>
  <2> USE <1>2
  <2>1. ASSUME NEW c \in Clients, CommitUpdate(c) PROVE Log!Next
    <3>1. LET u == want[c].uid
          IN  u \in Uids /\ want[c].rec \in Records /\ Log!Append(u, want[c].rec)
      BY <2>1, CommitAppends DEF Log!Append
    <3>2. QED
      BY <3>1 DEF Log!Next
  <2>2. CASE CrashAndReopen
    <3>1. PICK survived \in recoverable :
            /\ latest' = survived
            /\ snapshots' = [u \in Uids |-> [r \in 0..(survived[u] - 1) |-> snapshots[u][r]]]
      BY <2>2 DEF CrashAndReopen
    <3>2. survived \in [Uids -> 0..MaxRevisions]
      BY DEF StoreInv, TypeOK
    <3>3. \A u \in Uids : survived[u] \in 0..latest[u]
      BY <3>2, StoreAssumption DEF StoreInv, TypeOK, RecoverableIsPast
    <3>4. survived \in Log!Cuts
      <4>1. \A u \in Uids : survived[u] \in UNION {0..latest[v] : v \in Uids}
        BY <3>3
      <4>2. survived \in [Uids -> UNION {0..latest[v] : v \in Uids}]
        BY <3>2, <4>1
      <4>3. \A u \in Uids : survived[u] <= latest[u]
        BY <3>3, <3>2 DEF StoreInv, TypeOK
      <4>4. QED
        BY <4>2, <4>3 DEF Log!Cuts
    <3>5. Log!Truncate(survived)
      BY <3>1 DEF Log!Truncate
    <3>6. QED
      BY <3>4, <3>5 DEF Log!Next
  <2>3. CASE UNCHANGED <<latest, snapshots>>
    BY <2>3
  <2>4. QED
    BY <2>1, <2>2, <2>3
       DEF Next, ClientStep, CallSet, BeginUpdate, ClaimNextRevision, RollbackUpdate, MissLatest,
           ViewLatest, FillCounter, SyncTick, CloseSync, CloseDB, Synced, diskVars, vars
<1>3. QED
  BY <1>1, <1>2, StoreInvariance, PTL DEF Spec, ImplementsRevisionLog, Log!Spec, Log!vars
=============================================================================
