---------------------------- MODULE RevisionLog ----------------------------
(***************************************************************************)
(* What store.ResourcePatchStore promises: per object an append-only log   *)
(* of revisions, numbered 0, 1, 2, ... without gaps.  A crash may cut a    *)
(* suffix off the logs, never change or reorder what is left.              *)
(***************************************************************************)
EXTENDS Naturals

CONSTANTS Uids, Records

VARIABLES
  length,                 \* number of revisions of each object
  record                  \* record[u][r]: revision r of u, for r < length[u]

vars == <<length, record>>

Init ==
  /\ length = [u \in Uids |-> 0]
  /\ record = [u \in Uids |-> [r \in {} |-> {}]]

(* The revisions of u that are in the log. *)
Revisions(u) == 0..(length[u] - 1)

(* SetSnapshot or SetPatch: the next revision of u is x. *)
Append(u, x) ==
  /\ length' = [length EXCEPT ![u] = length[u] + 1]
  /\ record' = [record EXCEPT ![u] =
                  [r \in 0..length[u] |-> IF r = length[u] THEN x ELSE record[u][r]]]

(* Where a crash may cut the logs. *)
Cuts == {cut \in [Uids -> UNION {0..length[u] : u \in Uids}] :
           \A u \in Uids : cut[u] <= length[u]}

(* A crash and a restart: the log of each object u is cut to its first       *)
(* cut[u] revisions.                                                         *)
Truncate(cut) ==
  /\ length' = cut
  /\ record' = [u \in Uids |-> [r \in 0..(cut[u] - 1) |-> record[u][r]]]

Next ==
  \/ \E u \in Uids, x \in Records : Append(u, x)
  \/ \E cut \in Cuts : Truncate(cut)

Spec == Init /\ [][Next]_vars
=============================================================================
