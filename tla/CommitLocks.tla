---------------------------- MODULE CommitLocks ----------------------------
(***************************************************************************)
(* The per-object commit locks of internal/service/tracker_service.go:     *)
(* lockObject and objLock, which find, create and take the lock of an      *)
(* object; lockJanitor, which drops locks nobody has used for lockTTL; and *)
(* the part of Close that throws the lock table away.                      *)
(*                                                                         *)
(* An action is one step another goroutine can observe: a section under    *)
(* commitLockMutex, or a Lock or Unlock of one lockWrap.  The janitor      *)
(* keeps commitLockMutex write-locked for a whole sweep, which here is     *)
(* several steps, because a lockWrap can be locked and unlocked meanwhile. *)
(*                                                                         *)
(* Time is abstract: the set stale holds the locks whose lastUse lies more *)
(* than lockTTL back, and a lock in the table may become stale at any      *)
(* moment.  Locks are the addresses of lockWrap values: one is free for    *)
(* reuse once neither the table nor a goroutine refers to it.              *)
(***************************************************************************)
EXTENDS Naturals, FiniteSets

CONSTANTS
  Goroutines,             \* callers of Commit and WarmCache
  Objects,                \* object UIDs
  Locks,                  \* addresses of lockWrap values
  None                    \* a nil pointer, no goroutine, no object

ASSUME NoneAssumption ==
  /\ None \notin Goroutines
  /\ None \notin Objects
  /\ None \notin Locks

VARIABLES
  pc,                     \* where each goroutine is in lockObject
  uid,                    \* the object it wants or has locked
  lw,                     \* the lockWrap it refers to
  admitted,               \* lockObject returned while the service was open
  commitLocks,            \* the lock table: uid -> lockWrap or None
  closed,                 \* commitLocks == nil
  holder,                 \* the goroutine that has lw.mu locked, or None
  stale,                  \* locks whose lastUse is older than lockTTL
  sweeping,               \* the janitor has commitLockMutex write-locked
  toVisit                 \* table entries its sweep has not reached

callerVars  == <<pc, uid, lw, admitted>>
janitorVars == <<sweeping, toVisit>>
vars == <<pc, uid, lw, admitted, commitLocks, closed, holder, stale, sweeping, toVisit>>

Phases == {"idle", "lookup", "create", "acquire", "verify", "retry", "critical"}

Init ==
  /\ pc = [g \in Goroutines |-> "idle"]
  /\ uid = [g \in Goroutines |-> None]
  /\ lw = [g \in Goroutines |-> None]
  /\ admitted = [g \in Goroutines |-> FALSE]
  /\ commitLocks = [o \in Objects |-> None]
  /\ closed = FALSE
  /\ holder = [l \in Locks |-> None]
  /\ stale = {}
  /\ sweeping = FALSE
  /\ toVisit = {}

(* No goroutine and no table entry refers to l: the allocator may return it. *)
Unreferenced(l) ==
  /\ \A g \in Goroutines : lw[g] # l
  /\ \A o \in Objects : commitLocks[o] # l

-----------------------------------------------------------------------------
(* A goroutine calls Commit or WarmCache for o, which call lockObject first. *)
Call(g, o) ==
  /\ pc[g] = "idle"
  /\ pc' = [pc EXCEPT ![g] = "lookup"]
  /\ uid' = [uid EXCEPT ![g] = o]
  /\ UNCHANGED <<lw, admitted, commitLocks, closed, holder, stale, janitorVars>>

(* objLock, fast path: the table is read under RLock. *)
Lookup(g) ==
  /\ pc[g] = "lookup"
  /\ ~sweeping
  /\ \/ /\ commitLocks[uid[g]] # None
        /\ lw' = [lw EXCEPT ![g] = commitLocks[uid[g]]]
        /\ pc' = [pc EXCEPT ![g] = "acquire"]
     \/ /\ commitLocks[uid[g]] = None
        /\ pc' = [pc EXCEPT ![g] = "create"]
        /\ lw' = lw
  /\ UNCHANGED <<uid, admitted, commitLocks, closed, holder, stale, janitorVars>>

(* A plausible bug: the table is not looked at again under the write lock. *)
CreateOverwrites(g) ==
  /\ pc[g] = "create"
  /\ ~sweeping
  /\ \E l \in Locks :
       /\ Unreferenced(l)
       /\ lw' = [lw EXCEPT ![g] = l]
       /\ stale' = stale \ {l}
       /\ commitLocks' = IF closed THEN commitLocks
                                   ELSE [commitLocks EXCEPT ![uid[g]] = l]
  /\ pc' = [pc EXCEPT ![g] = "acquire"]
  /\ UNCHANGED <<uid, admitted, closed, holder, janitorVars>>

(* objLock, slow path under the write lock: a fresh lock that is not tracked *)
(* when the service is closed; otherwise the lock another goroutine created  *)
(* since the lookup, or a fresh one that is put in the table.                *)
Create(g) ==
  /\ pc[g] = "create"
  /\ ~sweeping
  /\ \/ /\ ~closed /\ commitLocks[uid[g]] # None
        /\ lw' = [lw EXCEPT ![g] = commitLocks[uid[g]]]
        /\ UNCHANGED <<commitLocks, stale>>
     \/ /\ closed \/ commitLocks[uid[g]] = None
        /\ \E l \in Locks :
             /\ Unreferenced(l)
             /\ lw' = [lw EXCEPT ![g] = l]
             /\ stale' = stale \ {l}
             /\ commitLocks' = IF closed THEN commitLocks
                                         ELSE [commitLocks EXCEPT ![uid[g]] = l]
  /\ pc' = [pc EXCEPT ![g] = "acquire"]
  /\ UNCHANGED <<uid, admitted, closed, holder, janitorVars>>

(* lw.mu.Lock() returns. *)
Acquire(g) ==
  /\ pc[g] = "acquire"
  /\ holder[lw[g]] = None
  /\ holder' = [holder EXCEPT ![lw[g]] = g]
  /\ pc' = [pc EXCEPT ![g] = "verify"]
  /\ UNCHANGED <<uid, lw, admitted, commitLocks, closed, stale, janitorVars>>

(* A plausible bug: whatever was locked is trusted. *)
VerifyTrustsTheLookup(g) ==
  /\ pc[g] = "verify"
  /\ ~sweeping
  /\ pc' = [pc EXCEPT ![g] = "critical"]
  /\ admitted' = [admitted EXCEPT ![g] = ~closed]
  /\ stale' = stale \ {lw[g]}
  /\ UNCHANGED <<uid, lw, commitLocks, closed, holder, janitorVars>>

(* A plausible bug: the loop goes round without unlocking what it grabbed. *)
VerifyKeepsTheEvictedLock(g) ==
  /\ pc[g] = "verify"
  /\ ~sweeping
  /\ \/ /\ closed \/ commitLocks[uid[g]] = lw[g]
        /\ pc' = [pc EXCEPT ![g] = "critical"]
        /\ admitted' = [admitted EXCEPT ![g] = ~closed]
        /\ stale' = stale \ {lw[g]}
        /\ lw' = lw
     \/ /\ ~closed /\ commitLocks[uid[g]] # lw[g]
        /\ pc' = [pc EXCEPT ![g] = "lookup"]
        /\ lw' = lw
        /\ UNCHANGED <<admitted, stale>>
  /\ UNCHANGED <<uid, commitLocks, closed, holder, janitorVars>>

(* lockObject looks again, under RLock, whether the table still holds the    *)
(* lock it has just taken; if so it stamps lastUse and returns.              *)
Verify(g) ==
  /\ pc[g] = "verify"
  /\ ~sweeping
  /\ \/ /\ closed \/ commitLocks[uid[g]] = lw[g]
        /\ pc' = [pc EXCEPT ![g] = "critical"]
        /\ admitted' = [admitted EXCEPT ![g] = ~closed]
        /\ stale' = stale \ {lw[g]}
     \/ /\ ~closed /\ commitLocks[uid[g]] # lw[g]
        /\ pc' = [pc EXCEPT ![g] = "retry"]
        /\ UNCHANGED <<admitted, stale>>
  /\ UNCHANGED <<uid, lw, commitLocks, closed, holder, janitorVars>>

(* The lock was evicted: unlock it and go round the loop. *)
Retry(g) ==
  /\ pc[g] = "retry"
  /\ holder' = [holder EXCEPT ![lw[g]] = None]
  /\ lw' = [lw EXCEPT ![g] = None]
  /\ pc' = [pc EXCEPT ![g] = "lookup"]
  /\ UNCHANGED <<uid, admitted, commitLocks, closed, stale, janitorVars>>

(* Commit or WarmCache returns: the deferred lw.mu.Unlock(). *)
Unlock(g) ==
  /\ pc[g] = "critical"
  /\ holder' = [holder EXCEPT ![lw[g]] = None]
  /\ lw' = [lw EXCEPT ![g] = None]
  /\ uid' = [uid EXCEPT ![g] = None]
  /\ admitted' = [admitted EXCEPT ![g] = FALSE]
  /\ pc' = [pc EXCEPT ![g] = "idle"]
  /\ UNCHANGED <<commitLocks, closed, stale, janitorVars>>

-----------------------------------------------------------------------------
(* lockTTL passes since the last use of a lock in the table. *)
Expire(l) ==
  /\ l \notin stale
  /\ \E o \in Objects : commitLocks[o] = l
  /\ stale' = stale \union {l}
  /\ UNCHANGED <<callerVars, commitLocks, closed, holder, janitorVars>>

(* The ticker fires and the janitor write-locks commitLockMutex. *)
SweepBegin ==
  /\ ~sweeping
  /\ sweeping' = TRUE
  /\ toVisit' = {o \in Objects : commitLocks[o] # None}
  /\ UNCHANGED <<callerVars, commitLocks, closed, holder, stale>>

(* A plausible bug: Lock instead of TryLock, waited for with the table locked. *)
SweepVisitWaitsForHolder(o) ==
  /\ sweeping /\ o \in toVisit
  /\ commitLocks[o] \in stale => holder[commitLocks[o]] = None
  /\ toVisit' = toVisit \ {o}
  /\ commitLocks' = IF commitLocks[o] \in stale
                    THEN [commitLocks EXCEPT ![o] = None]
                    ELSE commitLocks
  /\ UNCHANGED <<callerVars, closed, holder, stale, sweeping>>

(* One entry of the sweep: a stale lock that TryLock gets is deleted.  The   *)
(* TryLock and its Unlock are one step with the deletion: between them       *)
(* others could at most wait for the lock.                                   *)
SweepVisit(o) ==
  /\ sweeping /\ o \in toVisit
  /\ toVisit' = toVisit \ {o}
  /\ commitLocks' = IF commitLocks[o] \in stale /\ holder[commitLocks[o]] = None
                    THEN [commitLocks EXCEPT ![o] = None]
                    ELSE commitLocks
  /\ UNCHANGED <<callerVars, closed, holder, stale, sweeping>>

SweepEnd ==
  /\ sweeping /\ toVisit = {}
  /\ sweeping' = FALSE
  /\ UNCHANGED <<callerVars, commitLocks, closed, holder, stale, toVisit>>

(* Close drops the table under the write lock.  A goroutine inside Commit    *)
(* keeps its lock; later callers get locks of their own.                     *)
Close ==
  /\ ~sweeping /\ ~closed
  /\ closed' = TRUE
  /\ commitLocks' = [o \in Objects |-> None]
  /\ UNCHANGED <<callerVars, holder, stale, janitorVars>>

-----------------------------------------------------------------------------
GoroutineStep(g) ==
  \/ \E o \in Objects : Call(g, o)
  \/ Lookup(g) \/ Create(g) \/ Acquire(g) \/ Verify(g) \/ Retry(g) \/ Unlock(g)

JanitorStep ==
  \/ SweepBegin
  \/ \E o \in Objects : SweepVisit(o)
  \/ SweepEnd

Next ==
  \/ \E g \in Goroutines : GoroutineStep(g)
  \/ \E l \in Locks : Expire(l)
  \/ JanitorStep
  \/ Close

Spec == Init /\ [][Next]_vars

(* The runtime keeps running every goroutine that can run, and a sweep that  *)
(* has begun is finished.  sync.Mutex and sync.RWMutex are starvation-free:  *)
(* a lock released again and again is given to each of its waiters, so the   *)
(* steps that wait for one are strongly fair.                                *)
Fairness ==
  /\ \A g \in Goroutines :
       /\ WF_vars(Retry(g) \/ Unlock(g))
       /\ SF_vars(Lookup(g) \/ Create(g) \/ Verify(g))
       /\ SF_vars(Acquire(g))
  /\ WF_vars(SweepEnd \/ \E o \in Objects : SweepVisit(o))

FairSpec == Spec /\ Fairness

-----------------------------------------------------------------------------
(* The type of every variable, with what each phase of lockObject knows: the *)
(* object from the call on, the lock from the lookup on.                     *)
TypeOK ==
  /\ pc \in [Goroutines -> Phases]
  /\ uid \in [Goroutines -> Objects \union {None}]
  /\ lw \in [Goroutines -> Locks \union {None}]
  /\ admitted \in [Goroutines -> BOOLEAN]
  /\ commitLocks \in [Objects -> Locks \union {None}]
  /\ closed \in BOOLEAN
  /\ holder \in [Locks -> Goroutines \union {None}]
  /\ stale \in SUBSET Locks
  /\ sweeping \in BOOLEAN
  /\ toVisit \in SUBSET Objects
  /\ \A g \in Goroutines :
       /\ pc[g] # "idle" => uid[g] \in Objects
       /\ pc[g] \in {"acquire", "verify", "retry", "critical"} => lw[g] \in Locks

(* A goroutine has locked exactly the lock it refers to, from Lock to Unlock. *)
LockOwnership ==
  \A g \in Goroutines :
    pc[g] \in {"verify", "retry", "critical"} => holder[lw[g]] = g

(* While the service is open, a goroutine inside Commit works under the lock *)
(* the table holds for its object: neither the janitor nor another creator   *)
(* has replaced it.  It is what the re-check in lockObject is for.           *)
AdmittedLockIsTracked ==
  \A g \in Goroutines :
    pc[g] = "critical" /\ admitted[g] /\ ~closed => commitLocks[uid[g]] = lw[g]

(* No two goroutines that lockObject admitted before Close are inside Commit *)
(* or WarmCache for the same object, whatever the janitor evicts and however *)
(* Close comes between ("Without this, two commits for the same object could *)
(* run concurrently on the same cached trackerState").                       *)
MutualExclusion ==
  \A g, h \in Goroutines :
    /\ pc[g] = "critical" /\ admitted[g]
    /\ pc[h] = "critical" /\ admitted[h]
    /\ uid[g] = uid[h]
    => g = h

(* What the proofs show every step to preserve. *)
LockInv == TypeOK /\ LockOwnership /\ AdmittedLockIsTracked /\ MutualExclusion

(* The lock protocol implements a mutex per object: the goroutines admitted  *)
(* while the service is open enter and leave as ObjectMutex allows.          *)
Inside == [g \in Goroutines |->
             IF pc[g] = "critical" /\ admitted[g] THEN uid[g] ELSE None]

Mutex == INSTANCE ObjectMutex WITH inside <- Inside

ImplementsObjectMutex == Mutex!Spec

(* lockTTL passes for the lock of an object somebody is waiting to lock. *)
WaitedForLockExpires ==
  \E g \in Goroutines :
    /\ pc[g] \in {"lookup", "create", "acquire", "verify", "retry"}
    /\ commitLocks[uid[g]] # None
    /\ Expire(commitLocks[uid[g]])

(* Every caller is let in, though the janitor may evict the lock it is about *)
(* to take, as long as callers are not kept waiting for lockTTL (60s) over   *)
(* and over: each eviction costs a waiting caller one more round.            *)
EveryCallerGetsIn ==
  <>[][~WaitedForLockExpires]_vars =>
    \A g \in Goroutines : pc[g] = "lookup" ~> pc[g] = "critical"

(* A sweep ends: the janitor, which keeps the whole table locked while it    *)
(* visits the entries, never waits for a commit that itself needs the table. *)
SweepsEnd == sweeping ~> ~sweeping
=============================================================================
