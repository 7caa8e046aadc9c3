--------------------------- MODULE RevisionStore ---------------------------
(***************************************************************************)
(* The bbolt store of internal/store/bbolt: revisions in the bucket        *)
(* "snapshots" under <uid>|<revision>, the next revision of each object in *)
(* the bucket "latest", and a copy of that counter in memory that          *)
(* GetLatestRevision reads first.                                          *)
(*                                                                         *)
(* bbolt itself is external: one read-write transaction at a time, which   *)
(* commits both buckets or nothing, and read-only transactions that see    *)
(* the last committed state.  With NoSync, which every SyncInterval turns  *)
(* on, a commit reaches the disk only with the next Sync; a crash brings   *)
(* the file back to one of the states committed since.                     *)
(*                                                                         *)
(* An action is one step of a client: taking bbolt's writer lock, a part   *)
(* of the transaction's function, its commit, or a section under           *)
(* nextRevisionCounterMutex.                                               *)
(***************************************************************************)
EXTENDS Naturals, FiniteSets

CONSTANTS
  Clients,                \* goroutines that use the store
  Uids,                   \* object UIDs
  Records,                \* what is stored: snapshots and patches, encoded
  None,                   \* no client, no counter
  Durable,                \* Options.Durable
  Periodic,               \* Options.SyncInterval > 0
  MaxRevisions            \* bound: revisions of an object

ASSUME StoreAssumption ==
  /\ None \notin Clients
  /\ None \notin Nat
  /\ None \notin Records
  /\ Durable \in BOOLEAN
  /\ Periodic \in BOOLEAN
  /\ MaxRevisions \in Nat

VARIABLES
  snapshots,              \* committed bucket: uid -> revision -> record
  latest,                 \* committed bucket: uid -> next revision, 0 if absent
  nextRevisionCounter,    \* the cache in memory: uid -> next revision, or None
  writer,                 \* the client whose Update transaction is open, or None
  pc,                     \* what each client is doing
  want,                   \* the uid and record of its call, None when idle
  next,                   \* its local variable next
  status,                 \* of the store: "open", "closing", "closed"
  recoverable,            \* the values of latest a crash may bring back
  promised                \* the revisions a crash must not lose (history)

diskVars   == <<snapshots, latest, recoverable, promised>>
clientVars == <<pc, want, next>>
vars == <<snapshots, latest, nextRevisionCounter, writer, pc, want, next, status,
          recoverable, promised>>

(* NewWithOptions: commits are not fsynced one by one. *)
NoSync == ~Durable \/ Periodic

Calls == [uid : Uids, rec : Records \union {None}]

Phases == {"idle", "begin", "claim", "commit", "view", "fill"}

Init ==
  /\ snapshots = [u \in Uids |-> [r \in {} |-> {}]]
  /\ latest = [u \in Uids |-> 0]
  /\ nextRevisionCounter = [u \in Uids |-> None]
  /\ writer = None
  /\ pc = [c \in Clients |-> "idle"]
  /\ want = [c \in Clients |-> None]
  /\ next = [c \in Clients |-> 0]
  /\ status = "open"
  /\ recoverable = {latest}
  /\ promised = latest

(* Get: a read-only transaction looks the key up; ErrNotFound is None. *)
Get(u, r) == IF r \in DOMAIN snapshots[u] THEN snapshots[u][r] ELSE None

(* The call of client c returns. *)
Return(c) ==
  /\ pc' = [pc EXCEPT ![c] = "idle"]
  /\ want' = [want EXCEPT ![c] = None]
  /\ next' = [next EXCEPT ![c] = 0]

-----------------------------------------------------------------------------
(* SetSnapshot or SetPatch is called and waits for bbolt's writer lock. *)
CallSet(c, u, x) ==
  /\ pc[c] = "idle"
  /\ latest[u] < MaxRevisions
  /\ pc' = [pc EXCEPT ![c] = "begin"]
  /\ want' = [want EXCEPT ![c] = [uid |-> u, rec |-> x]]
  /\ UNCHANGED <<diskVars, nextRevisionCounter, writer, next, status>>

(* db.Update begins; on a closed database it returns ErrDatabaseNotOpen. *)
BeginUpdate(c) ==
  /\ pc[c] = "begin"
  /\ writer = None
  /\ \/ /\ status # "closed"
        /\ latest[want[c].uid] < MaxRevisions
        /\ writer' = c
        /\ pc' = [pc EXCEPT ![c] = "claim"]
        /\ UNCHANGED <<want, next>>
     \/ /\ \/ status = "closed"
           \/ latest[want[c].uid] = MaxRevisions    \* the bound
        /\ Return(c)
        /\ writer' = writer
  /\ UNCHANGED <<diskVars, nextRevisionCounter, status>>

(* A plausible bug: the claim starts from the counter in memory. *)
ClaimFromMemory(c) ==
  /\ pc[c] = "claim"
  /\ LET u == want[c].uid
         n == IF nextRevisionCounter[u] = None THEN latest[u] ELSE nextRevisionCounter[u]
     IN  /\ next' = [next EXCEPT ![c] = n + 1]
         /\ nextRevisionCounter' = [nextRevisionCounter EXCEPT ![u] = n + 1]
  /\ pc' = [pc EXCEPT ![c] = "commit"]
  /\ UNCHANGED <<diskVars, writer, want, status>>

(* claimNextRevision: the counter is read from the bucket, incremented in    *)
(* the transaction and, before the transaction commits, in memory.           *)
ClaimNextRevision(c) ==
  /\ pc[c] = "claim"
  /\ next' = [next EXCEPT ![c] = latest[want[c].uid] + 1]
  /\ nextRevisionCounter' =
       [nextRevisionCounter EXCEPT ![want[c].uid] = latest[want[c].uid] + 1]
  /\ pc' = [pc EXCEPT ![c] = "commit"]
  /\ UNCHANGED <<diskVars, writer, want, status>>

(* A plausible bug: the counter is put in a transaction of its own, before. *)
CommitLosesRecord(c) ==
  /\ pc[c] = "commit"
  /\ latest' = [latest EXCEPT ![want[c].uid] = next[c]]
  /\ recoverable' = (IF NoSync THEN recoverable ELSE {}) \union {latest'}
  /\ promised' = IF NoSync THEN promised ELSE latest'
  /\ writer' = None
  /\ Return(c)
  /\ UNCHANGED <<snapshots, nextRevisionCounter, status>>

(* storeRevision puts the record under the claimed revision and the          *)
(* transaction commits: both buckets change at once.                         *)
CommitUpdate(c) ==
  /\ pc[c] = "commit"
  /\ LET u == want[c].uid
         r == next[c] - 1
     IN  /\ latest' = [latest EXCEPT ![u] = next[c]]
         /\ snapshots' = [snapshots EXCEPT ![u] =
              [q \in DOMAIN snapshots[u] \union {r} |->
                 IF q = r THEN want[c].rec ELSE snapshots[u][q]]]
  /\ recoverable' = (IF NoSync THEN recoverable ELSE {}) \union {latest'}
  /\ promised' = IF NoSync THEN promised ELSE latest'
  /\ writer' = None
  /\ Return(c)
  /\ UNCHANGED <<nextRevisionCounter, status>>

(* A plausible bug: a failed transaction that is not rolled back. *)
RollbackKeepsWriter(c) ==
  /\ pc[c] = "commit"
  /\ Return(c)
  /\ UNCHANGED <<diskVars, nextRevisionCounter, writer, status>>

(* Marshal, Put or the commit fails (a full disk): everything the            *)
(* transaction wrote is rolled back, the counter in memory stays.            *)
RollbackUpdate(c) ==
  /\ pc[c] = "commit"
  /\ writer' = None
  /\ Return(c)
  /\ UNCHANGED <<diskVars, nextRevisionCounter, status>>

-----------------------------------------------------------------------------
(* GetLatestRevision finds no counter in memory.  (When it finds one it      *)
(* returns it and changes nothing.)                                          *)
MissLatest(c, u) ==
  /\ pc[c] = "idle"
  /\ nextRevisionCounter[u] = None
  /\ pc' = [pc EXCEPT ![c] = "view"]
  /\ want' = [want EXCEPT ![c] = [uid |-> u, rec |-> None]]
  /\ UNCHANGED <<diskVars, nextRevisionCounter, writer, next, status>>

(* Its read-only transaction: ErrNotFound when the object has no revision. *)
ViewLatest(c) ==
  /\ pc[c] = "view"
  /\ \/ /\ latest[want[c].uid] = 0 \/ status = "closed"
        /\ Return(c)
     \/ /\ latest[want[c].uid] # 0 /\ status # "closed"
        /\ next' = [next EXCEPT ![c] = latest[want[c].uid]]
        /\ pc' = [pc EXCEPT ![c] = "fill"]
        /\ want' = want
  /\ UNCHANGED <<diskVars, nextRevisionCounter, writer, status>>

(* A plausible bug: the revision, not the next one, is put in the cache. *)
FillWithLatest(c) ==
  /\ pc[c] = "fill"
  /\ nextRevisionCounter' = [nextRevisionCounter EXCEPT ![want[c].uid] = next[c] - 1]
  /\ Return(c)
  /\ UNCHANGED <<diskVars, writer, status>>

(* What the transaction saw becomes the counter in memory. *)
FillCounter(c) ==
  /\ pc[c] = "fill"
  /\ nextRevisionCounter' = [nextRevisionCounter EXCEPT ![want[c].uid] = next[c]]
  /\ Return(c)
  /\ UNCHANGED <<diskVars, writer, status>>

-----------------------------------------------------------------------------
(* A plausible bug: db.Sync returns without waiting for the disk. *)
SyncedTooEarly ==
  /\ recoverable' = recoverable
  /\ promised' = latest

(* db.Sync returned: everything committed is on disk. *)
Synced ==
  /\ recoverable' = {latest}
  /\ promised' = latest

(* A tick of syncLoop. *)
SyncTick ==
  /\ Durable /\ Periodic /\ status = "open"
  /\ Synced
  /\ UNCHANGED <<snapshots, latest, nextRevisionCounter, writer, clientVars, status>>

(* Close: syncLoop is stopped, then a last Sync in every mode. *)
CloseSync ==
  /\ status = "open"
  /\ status' = "closing"
  /\ Synced
  /\ UNCHANGED <<snapshots, latest, nextRevisionCounter, writer, clientVars>>

(* db.Close waits for the writer. *)
CloseDB ==
  /\ status = "closing"
  /\ writer = None
  /\ status' = "closed"
  /\ UNCHANGED <<diskVars, nextRevisionCounter, writer, clientVars>>

(* The machine goes down and the store is opened again: what was in memory   *)
(* is gone, the file holds one of the states it may be left in.              *)
CrashAndReopen ==
  /\ \E survived \in recoverable :
       /\ latest' = survived
       /\ snapshots' = [u \in Uids |-> [r \in 0..(survived[u] - 1) |-> snapshots[u][r]]]
       /\ recoverable' = {survived}
  /\ nextRevisionCounter' = [u \in Uids |-> None]
  /\ writer' = None
  /\ pc' = [c \in Clients |-> "idle"]
  /\ want' = [c \in Clients |-> None]
  /\ next' = [c \in Clients |-> 0]
  /\ status' = "open"
  /\ UNCHANGED promised

-----------------------------------------------------------------------------
ClientStep(c) ==
  \/ \E u \in Uids, x \in Records : CallSet(c, u, x)
  \/ BeginUpdate(c) \/ ClaimNextRevision(c) \/ CommitUpdate(c) \/ RollbackUpdate(c)
  \/ \E u \in Uids : MissLatest(c, u)
  \/ ViewLatest(c) \/ FillCounter(c)

Next ==
  \/ \E c \in Clients : ClientStep(c)
  \/ SyncTick \/ CloseSync \/ CloseDB
  \/ CrashAndReopen

Spec == Init /\ [][Next]_vars

(* Every goroutine that can run does, and bbolt's writer lock, a sync.Mutex,  *)
(* is given to each of those who wait for it.                                *)
Fairness ==
  \A c \in Clients :
    /\ WF_vars(ClaimNextRevision(c))
    /\ WF_vars(CommitUpdate(c) \/ RollbackUpdate(c))
    /\ SF_vars(BeginUpdate(c))

FairSpec == Spec /\ Fairness

-----------------------------------------------------------------------------
(* The type of every variable; a counter in memory is a revision number. *)
TypeOK ==
  /\ snapshots \in [Uids -> UNION {[0..(n - 1) -> Records] : n \in 0..MaxRevisions}]
  /\ latest \in [Uids -> 0..MaxRevisions]
  /\ nextRevisionCounter \in [Uids -> Nat \union {None}]
  /\ writer \in Clients \union {None}
  /\ pc \in [Clients -> Phases]
  /\ want \in [Clients -> Calls \union {None}]
  /\ next \in [Clients -> 0..MaxRevisions]
  /\ status \in {"open", "closing", "closed"}
  /\ recoverable \in SUBSET [Uids -> 0..MaxRevisions]
  /\ promised \in [Uids -> 0..MaxRevisions]

(* The two buckets agree: the revisions of an object are 0 to latest - 1,    *)
(* with no gap and none missing, after any mixture of concurrent writers,    *)
(* rolled-back transactions, closes and crashes.  Restore and the history    *)
(* loader walk the chain by these numbers.                                   *)
RevisionsAreContiguous ==
  \A u \in Uids : DOMAIN snapshots[u] = 0..(latest[u] - 1)

(* A revision is not lost once a Sync after its commit, its own fsync when   *)
(* every write is synced, or Close's last Sync has returned ("at most one    *)
(* interval worth of writes may be lost").                                   *)
PromisedRevisionsSurvive ==
  \A u \in Uids : promised[u] <= latest[u]

(* The counter in memory may lag behind the bucket (a reader that looked     *)
(* before a writer claimed stores what it saw) and may run ahead of it (the  *)
(* transaction is open or was rolled back), but by one at most, and it is    *)
(* never 0, so that GetLatestRevision's next - 1 does not wrap around.       *)
CounterAtMostOneAhead ==
  \A u \in Uids :
    nextRevisionCounter[u] # None => nextRevisionCounter[u] \in 1..(latest[u] + 1)

(* A client knows what it works on, and what it has read under the writer    *)
(* lock still holds: nobody else has a transaction open.                     *)
ClientsAreConsistent ==
  \A c \in Clients :
    /\ pc[c] \in {"claim", "commit"} => writer = c
    /\ pc[c] # "idle" => want[c] \in Calls
    /\ pc[c] \in {"begin", "claim", "commit"} => want[c].rec \in Records
    /\ pc[c] = "claim" => latest[want[c].uid] < MaxRevisions
    /\ pc[c] = "commit" => next[c] = latest[want[c].uid] + 1
    /\ pc[c] = "fill" => next[c] \in 1..latest[want[c].uid]

(* What a crash may bring back is no newer than what is committed and no     *)
(* older than what was promised.                                             *)
RecoverableIsPast ==
  /\ latest \in recoverable
  /\ \A h \in recoverable, u \in Uids : promised[u] <= h[u] /\ h[u] <= latest[u]

(* What the proofs show every step to preserve. *)
StoreInv ==
  /\ TypeOK
  /\ RevisionsAreContiguous
  /\ CounterAtMostOneAhead
  /\ ClientsAreConsistent
  /\ RecoverableIsPast

(* The store implements the append-only log of revisions. *)
Log == INSTANCE RevisionLog WITH length <- latest, record <- snapshots

ImplementsRevisionLog == Log!Spec

(* A SetSnapshot or SetPatch that waits for the writer lock returns, though  *)
(* transactions before it fail.                                              *)
WritesReturn == \A c \in Clients : pc[c] = "begin" ~> pc[c] = "idle"

(* "GetLatestRevision returns the highest committed revision for objectID"   *)
(* (operations.go:95), asked when no transaction is open: it answers the     *)
(* counter in memory minus one when there is one.                            *)
LatestRevisionIsCommitted ==
  writer = None =>
    \A u \in Uids :
      nextRevisionCounter[u] # None => Get(u, nextRevisionCounter[u] - 1) # None
=============================================================================
