---------------------------- MODULE ObjectMutex ----------------------------
(***************************************************************************)
(* What TrackerService.lockObject promises its callers: between lockObject *)
(* and Unlock a goroutine has the object to itself, so that two commits    *)
(* never work on the same cached trackerState.                             *)
(***************************************************************************)
CONSTANTS
  Goroutines,             \* callers of Commit and WarmCache
  Objects,                \* object UIDs
  None                    \* not inside any object

VARIABLE inside           \* the object each goroutine has locked, or None

Init == inside = [g \in Goroutines |-> None]

(* The lock of o is granted to g only while nobody has it. *)
Enter(g, o) ==
  /\ inside[g] = None
  /\ \A h \in Goroutines : inside[h] # o
  /\ inside' = [inside EXCEPT ![g] = o]

Leave(g) ==
  /\ inside[g] # None
  /\ inside' = [inside EXCEPT ![g] = None]

Next ==
  \E g \in Goroutines :
    \/ \E o \in Objects : Enter(g, o)
    \/ Leave(g)

Spec == Init /\ [][Next]_inside
=============================================================================
