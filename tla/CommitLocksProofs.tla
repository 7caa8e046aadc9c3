------------------------- MODULE CommitLocksProofs -------------------------
(***************************************************************************)
(* Proofs about CommitLocks for any number of goroutines, objects and      *)
(* locks: its type correctness, mutual exclusion per object, and that it   *)
(* implements ObjectMutex.                                                 *)
(***************************************************************************)
EXTENDS CommitLocks, TLAPS

(* The initial state satisfies the inductive invariant. *)
LEMMA InitLockInv == Init => LockInv
  BY NoneAssumption
     DEF Init, LockInv, TypeOK, Phases, LockOwnership, AdmittedLockIsTracked, MutualExclusion

(* Every step keeps the types. *)
LEMMA StepTypeOK == TypeOK /\ [Next]_vars => TypeOK'
<1> SUFFICES ASSUME TypeOK, [Next]_vars PROVE TypeOK'
  OBVIOUS
<1> USE NoneAssumption DEF TypeOK, Phases
<1>1. ASSUME NEW g \in Goroutines, NEW o \in Objects, Call(g, o) PROVE TypeOK'
  BY <1>1 DEF Call, janitorVars
<1>2. ASSUME NEW g \in Goroutines, Lookup(g) PROVE TypeOK'
  BY <1>2 DEF Lookup, janitorVars
<1>3. ASSUME NEW g \in Goroutines, Create(g) PROVE TypeOK'
  BY <1>3 DEF Create, janitorVars
<1>4. ASSUME NEW g \in Goroutines, Acquire(g) PROVE TypeOK'
  BY <1>4 DEF Acquire, janitorVars
<1>5. ASSUME NEW g \in Goroutines, Verify(g) PROVE TypeOK'
  BY <1>5 DEF Verify, janitorVars
<1>6. ASSUME NEW g \in Goroutines, Retry(g) PROVE TypeOK'
  BY <1>6 DEF Retry, janitorVars
<1>7. ASSUME NEW g \in Goroutines, Unlock(g) PROVE TypeOK'
  BY <1>7 DEF Unlock, janitorVars
<1>8. ASSUME NEW l \in Locks, Expire(l) PROVE TypeOK'
  BY <1>8 DEF Expire, callerVars, janitorVars
<1>9. CASE SweepBegin
  BY <1>9 DEF SweepBegin, callerVars
<1>10. ASSUME NEW o \in Objects, SweepVisit(o) PROVE TypeOK'
  BY <1>10 DEF SweepVisit, callerVars
<1>11. CASE SweepEnd
  BY <1>11 DEF SweepEnd, callerVars
<1>12. CASE Close
  BY <1>12 DEF Close, callerVars, janitorVars
<1>13. CASE UNCHANGED vars
  BY <1>13 DEF vars
<1>14. QED
  BY <1>1, <1>2, <1>3, <1>4, <1>5, <1>6, <1>7, <1>8, <1>9, <1>10, <1>11, <1>12, <1>13
     DEF Next, GoroutineStep, JanitorStep

(* A lock that is locked has one owner, whatever step is taken. *)
LEMMA StepLockOwnership == TypeOK /\ LockOwnership /\ [Next]_vars => LockOwnership'
<1> SUFFICES ASSUME TypeOK, LockOwnership, [Next]_vars PROVE LockOwnership'
  OBVIOUS
<1> USE NoneAssumption DEF TypeOK, Phases, LockOwnership
<1>1. ASSUME NEW g \in Goroutines, NEW o \in Objects, Call(g, o) PROVE LockOwnership'
  BY <1>1 DEF Call, janitorVars
<1>2. ASSUME NEW g \in Goroutines, Lookup(g) PROVE LockOwnership'
  BY <1>2 DEF Lookup, janitorVars
<1>3. ASSUME NEW g \in Goroutines, Create(g) PROVE LockOwnership'
  BY <1>3 DEF Create, janitorVars
<1>4. ASSUME NEW g \in Goroutines, Acquire(g) PROVE LockOwnership'
  BY <1>4 DEF Acquire, janitorVars
<1>5. ASSUME NEW g \in Goroutines, Verify(g) PROVE LockOwnership'
  BY <1>5 DEF Verify, janitorVars
<1>6. ASSUME NEW g \in Goroutines, Retry(g) PROVE LockOwnership'
  BY <1>6 DEF Retry, janitorVars
<1>7. ASSUME NEW g \in Goroutines, Unlock(g) PROVE LockOwnership'
  BY <1>7 DEF Unlock, janitorVars
<1>8. ASSUME NEW l \in Locks, Expire(l) PROVE LockOwnership'
  BY <1>8 DEF Expire, callerVars, janitorVars
<1>9. CASE JanitorStep
  BY <1>9 DEF JanitorStep, SweepBegin, SweepVisit, SweepEnd, callerVars
<1>10. CASE Close
  BY <1>10 DEF Close, callerVars, janitorVars
<1>11. CASE UNCHANGED vars
  BY <1>11 DEF vars
<1>12. QED
  BY <1>1, <1>2, <1>3, <1>4, <1>5, <1>6, <1>7, <1>8, <1>9, <1>10, <1>11
     DEF Next, GoroutineStep

(* The lock of an admitted goroutine stays in the table while the service is *)
(* open: a creator finds it there, and the janitor's TryLock fails.          *)
LEMMA StepAdmittedLockIsTracked == LockInv /\ [Next]_vars => AdmittedLockIsTracked'
<1> SUFFICES ASSUME LockInv, [Next]_vars PROVE AdmittedLockIsTracked'
  OBVIOUS
<1> USE NoneAssumption DEF LockInv, TypeOK, Phases, LockOwnership, AdmittedLockIsTracked
<1>1. ASSUME NEW g \in Goroutines, NEW o \in Objects, Call(g, o) PROVE AdmittedLockIsTracked'
  BY <1>1 DEF Call, janitorVars
<1>2. ASSUME NEW g \in Goroutines, Lookup(g) PROVE AdmittedLockIsTracked'
  BY <1>2 DEF Lookup, janitorVars
<1>3. ASSUME NEW g \in Goroutines, Create(g) PROVE AdmittedLockIsTracked'
  BY <1>3 DEF Create, janitorVars
<1>4. ASSUME NEW g \in Goroutines, Acquire(g) PROVE AdmittedLockIsTracked'
  BY <1>4 DEF Acquire, janitorVars
<1>5. ASSUME NEW g \in Goroutines, Verify(g) PROVE AdmittedLockIsTracked'
  BY <1>5 DEF Verify, janitorVars
<1>6. ASSUME NEW g \in Goroutines, Retry(g) PROVE AdmittedLockIsTracked'
  BY <1>6 DEF Retry, janitorVars
<1>7. ASSUME NEW g \in Goroutines, Unlock(g) PROVE AdmittedLockIsTracked'
  BY <1>7 DEF Unlock, janitorVars
<1>8. ASSUME NEW l \in Locks, Expire(l) PROVE AdmittedLockIsTracked'
  BY <1>8 DEF Expire, callerVars, janitorVars
<1>9. CASE SweepBegin \/ SweepEnd
  BY <1>9 DEF SweepBegin, SweepEnd, callerVars
<1>10. ASSUME NEW o \in Objects, SweepVisit(o) PROVE AdmittedLockIsTracked'
  BY <1>10 DEF SweepVisit, callerVars
<1>11. CASE Close
  BY <1>11 DEF Close, callerVars, janitorVars
<1>12. CASE UNCHANGED vars
  BY <1>12 DEF vars
<1>13. QED
  BY <1>1, <1>2, <1>3, <1>4, <1>5, <1>6, <1>7, <1>8, <1>9, <1>10, <1>11, <1>12
     DEF Next, GoroutineStep, JanitorStep

(* Two goroutines admitted for one object would hold the same lock of the    *)
(* table, and a lock has one holder.                                         *)
LEMMA StepMutualExclusion == LockInv /\ [Next]_vars => MutualExclusion'
<1> SUFFICES ASSUME LockInv, [Next]_vars PROVE MutualExclusion'
  OBVIOUS
<1> USE NoneAssumption
        DEF LockInv, TypeOK, Phases, LockOwnership, AdmittedLockIsTracked, MutualExclusion
<1>1. ASSUME NEW g \in Goroutines, NEW o \in Objects, Call(g, o) PROVE MutualExclusion'
  BY <1>1 DEF Call, janitorVars
<1>2. ASSUME NEW g \in Goroutines, Lookup(g) PROVE MutualExclusion'
  BY <1>2 DEF Lookup, janitorVars
<1>3. ASSUME NEW g \in Goroutines, Create(g) PROVE MutualExclusion'
  BY <1>3 DEF Create, janitorVars
<1>4. ASSUME NEW g \in Goroutines, Acquire(g) PROVE MutualExclusion'
  BY <1>4 DEF Acquire, janitorVars
<1>5. ASSUME NEW g \in Goroutines, Verify(g) PROVE MutualExclusion'
  BY <1>5 DEF Verify, janitorVars
<1>6. ASSUME NEW g \in Goroutines, Retry(g) PROVE MutualExclusion'
  BY <1>6 DEF Retry, janitorVars
<1>7. ASSUME NEW g \in Goroutines, Unlock(g) PROVE MutualExclusion'
  BY <1>7 DEF Unlock, janitorVars
<1>8. ASSUME NEW l \in Locks, Expire(l) PROVE MutualExclusion'
  BY <1>8 DEF Expire, callerVars, janitorVars
<1>9. CASE JanitorStep
  BY <1>9 DEF JanitorStep, SweepBegin, SweepVisit, SweepEnd, callerVars
<1>10. CASE Close
  BY <1>10 DEF Close, callerVars, janitorVars
<1>11. CASE UNCHANGED vars
  BY <1>11 DEF vars
<1>12. QED
  BY <1>1, <1>2, <1>3, <1>4, <1>5, <1>6, <1>7, <1>8, <1>9, <1>10, <1>11
     DEF Next, GoroutineStep

(* The inductive invariant holds in every reachable state. *)
THEOREM LockInvariance == Spec => []LockInv
<1>1. LockInv /\ [Next]_vars => LockInv'
  BY StepTypeOK, StepLockOwnership, StepAdmittedLockIsTracked, StepMutualExclusion DEF LockInv
<1>2. QED
  BY InitLockInv, <1>1, PTL DEF Spec

(* The variables of CommitLocks always have their types. *)
THEOREM TypeCorrect == Spec => []TypeOK
<1>1. LockInv => TypeOK
  BY DEF LockInv
<1>2. QED
  BY LockInvariance, <1>1, PTL

(* Two goroutines admitted before Close are never inside Commit for the same *)
(* object, for any number of goroutines, objects and janitor sweeps.         *)
THEOREM CommitsExcludeEachOther == Spec => []MutualExclusion
<1>1. LockInv => MutualExclusion
  BY DEF LockInv
<1>2. QED
  BY LockInvariance, <1>1, PTL

(* lockObject and Unlock implement a mutex per object. *)
THEOREM RefinesObjectMutex == Spec => ImplementsObjectMutex
<1>1. Init => Mutex!Init
  BY DEF Init, Mutex!Init, Inside
<1>2. ASSUME LockInv, LockInv', [Next]_vars PROVE [Mutex!Next]_Inside
  <2> USE NoneAssumption, <1>2 DEF LockInv, TypeOK, Phases, Inside
  <2>1. ASSUME NEW g \in Goroutines, Verify(g) PROVE Mutex!Enter(g, uid[g]) \/ UNCHANGED Inside
    <3>1. CASE pc'[g] = "critical" /\ ~closed
      <4>1. \A h \in Goroutines : Inside[h] # uid[g]
        BY <2>1, <3>1 DEF Verify, MutualExclusion, janitorVars
      <4>2. Inside' = [Inside EXCEPT ![g] = uid[g]]
        BY <2>1, <3>1 DEF Verify, janitorVars
      <4>3. Inside[g] = None
        BY <2>1 DEF Verify
      <4>4. QED
        BY <4>1, <4>2, <4>3 DEF Mutex!Enter
    <3>2. CASE ~(pc'[g] = "critical" /\ ~closed)
      BY <2>1, <3>2 DEF Verify, janitorVars
    <3>3. QED
      BY <3>1, <3>2
  <2>2. ASSUME NEW g \in Goroutines, Unlock(g) PROVE Mutex!Leave(g) \/ UNCHANGED Inside
    <3>1. Inside' = [Inside EXCEPT ![g] = None]
      BY <2>2 DEF Unlock, janitorVars
    <3>2. CASE admitted[g]
      BY <2>2, <3>1, <3>2 DEF Unlock, Mutex!Leave
    <3>3. CASE ~admitted[g]
      BY <2>2, <3>1, <3>3
    <3>4. QED
      BY <3>2, <3>3
  <2>3. ASSUME NEW g \in Goroutines, NEW o \in Objects, Call(g, o) PROVE UNCHANGED Inside
    BY <2>3 DEF Call, janitorVars
  <2>4. ASSUME NEW g \in Goroutines, Lookup(g) PROVE UNCHANGED Inside
    BY <2>4 DEF Lookup, janitorVars
  <2>5. ASSUME NEW g \in Goroutines, Create(g) PROVE UNCHANGED Inside
    BY <2>5 DEF Create, janitorVars
  <2>6. ASSUME NEW g \in Goroutines, Acquire(g) PROVE UNCHANGED Inside
    BY <2>6 DEF Acquire, janitorVars
  <2>7. ASSUME NEW g \in Goroutines, Retry(g) PROVE UNCHANGED Inside
    BY <2>7 DEF Retry, janitorVars
  <2>8. ASSUME NEW l \in Locks, Expire(l) PROVE UNCHANGED Inside
    BY <2>8 DEF Expire, callerVars
  <2>9. CASE JanitorStep
    BY <2>9 DEF JanitorStep, SweepBegin, SweepVisit, SweepEnd, callerVars
  <2>10. CASE Close
    BY <2>10 DEF Close, callerVars
  <2>11. CASE UNCHANGED vars
    BY <2>11 DEF vars
  <2>12. ASSUME NEW g \in Goroutines, Verify(g) PROVE uid[g] \in Objects
    BY <2>12 DEF Verify
  <2> HIDE DEF LockInv, TypeOK, Phases, Inside
  <2>13. QED
    BY <1>2, <2>1, <2>2, <2>3, <2>4, <2>5, <2>6, <2>7, <2>8, <2>9, <2>10, <2>11, <2>12
       DEF Next, GoroutineStep, Mutex!Next
<1>3. QED
  BY <1>1, <1>2, LockInvariance, PTL DEF Spec, ImplementsObjectMutex, Mutex!Spec
=============================================================================
