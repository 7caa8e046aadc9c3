--------------------------- MODULE TrackerProofs ---------------------------
(***************************************************************************)
(* Proofs about Tracker, for every number of clients, objects and versions *)
(* and every choice of snapshot intervals and cache capacity.              *)
(***************************************************************************)
EXTENDS Tracker, Integers, FiniteSetTheorems, WellFoundedInduction, TLAPS

(* Going one further inside a period adds one to the remainder. *)
LEMMA ModNext ==
  ASSUME NEW n \in Nat \ {0}, NEW m \in Nat, m % n # n - 1
  PROVE  (m + 1) % n = (m % n) + 1
<1> DEFINE q == m \div n
           r == m % n
           p == (m + 1) \div n
           s == (m + 1) % n
<1>1. m = (n * q) + r /\ r \in 0..(n - 1) /\ q \in Int
  OBVIOUS
<1>2. m + 1 = (n * p) + s /\ s \in 0..(n - 1) /\ p \in Int
  OBVIOUS
<1> HIDE DEF q, r, p, s
<1>3. n * (p - q) = (r + 1) - s
  BY <1>1, <1>2
<1>4. (r + 1) - s < n /\ (r + 1) - s > -n
  BY <1>1, <1>2
<1>5. p - q = 0
  <2>1. CASE p - q >= 1
    <3>1. n * (p - q) >= n
      BY <2>1, <1>1, <1>2
    <3>2. QED
      BY <3>1, <1>3, <1>4, <1>1, <1>2
  <2>2. CASE p - q <= -1
    <3>1. n * (p - q) <= -n
      BY <2>2, <1>1, <1>2
    <3>2. QED
      BY <3>1, <1>3, <1>4, <1>1, <1>2
  <2>3. QED
    BY <2>1, <2>2, <1>1, <1>2
<1>6. s = r + 1
  BY <1>5, <1>3, <1>1, <1>2
<1>7. QED
  BY <1>6 DEF r, s

(* A multiple of n leaves no remainder. *)
LEMMA MultipleHasNoRest ==
  ASSUME NEW n \in Nat \ {0}, NEW q \in Int
  PROVE  (n * q) % n = 0
<1> DEFINE p == (n * q) \div n
           s == (n * q) % n
<1>1. n * q = (n * p) + s /\ s \in 0..(n - 1) /\ p \in Int
  OBVIOUS
<1> HIDE DEF p, s
<1>2. n * (q - p) = s
  BY <1>1
<1>3. q - p = 0
  <2>1. CASE q - p >= 1
    <3>1. n * (q - p) >= n
      BY <2>1, <1>1
    <3>2. QED
      BY <3>1, <1>1, <1>2
  <2>2. CASE q - p <= -1
    <3>1. n * (q - p) <= -n
      BY <2>2, <1>1
    <3>2. QED
      BY <3>1, <1>1, <1>2
  <2>3. QED
    BY <2>1, <2>2, <1>1
<1>4. s = 0
  BY <1>1, <1>2, <1>3
<1>5. QED
  BY <1>4 DEF s

(* What divides n divides the multiples of n. *)
LEMMA DivisorsDivide ==
  ASSUME NEW n \in Nat \ {0}, NEW s \in Nat \ {0}, NEW m \in Int, n % s = 0, m % n = 0
  PROVE  m % s = 0
<1>1. /\ n \div s \in Int /\ n = (s * (n \div s)) + (n % s)
      /\ m \div n \in Int /\ m = (n * (m \div n)) + (m % n)
  OBVIOUS
<1>2. PICK a \in Int, b \in Int : a = n \div s /\ b = m \div n
  BY <1>1
<1>3. n = s * a
  BY <1>1, <1>2
<1>4. m = n * b
  BY <1>1, <1>2
<1>5. m = s * (a * b)
  <2>1. (s * a) * b = s * (a * b)
    OBVIOUS
  <2>2. QED
    BY <2>1, <1>3, <1>4
<1>6. a * b \in Int
  OBVIOUS
<1>7. (s * (a * b)) % s = 0
  BY <1>6, MultipleHasNoRest
<1>8. QED
  BY <1>5, <1>7

(* Among n numbers in a row, counted down from m, is a multiple of n. *)
LEMMA MultipleAmong ==
  ASSUME NEW n \in Nat \ {0}, NEW m \in Nat
  PROVE  \E k \in 0..(n - 1) : (m - k) % n = 0
<1> DEFINE q == m \div n
<1>1. q \in Int /\ m = (n * q) + (m % n)
  OBVIOUS
<1> HIDE DEF q
<1>2. m % n \in 0..(n - 1)
  OBVIOUS
<1>3. (n * q) % n = 0
  BY <1>1, MultipleHasNoRest
<1>4. m - (m % n) = n * q
  <2> DEFINE x == n * q
             y == m % n
  <2>1. x \in Int /\ y \in Int /\ m = x + y
    BY <1>1, <1>2
  <2> HIDE DEF x, y
  <2>2. m - y = x
    BY <2>1
  <2>3. QED
    BY <2>2 DEF x, y
<1>5. QED
  BY <1>2, <1>3, <1>4

(* What is in a record. *)
LEMMA RecordFields ==
  ASSUME NEW x \in Records
  PROVE  /\ x.kind \in {"snapshot", "patch"}
         /\ x.previous \in 0..MaxRevisions
         /\ x.kind = "snapshot" => x.obj \in Objects
         /\ x.kind = "patch" => x.patch \in ChangeSets
  BY DEF Records, Snapshots, Patches

(* The records Commit makes. *)
LEMMA NewRecords ==
  ASSUME NEW p \in 0..MaxRevisions, NEW o \in Objects, NEW a \in Objects
  PROVE  /\ NewSnapshot(o, p) \in Records
         /\ NewPatch(p, DiffOf(a, o)) \in Records
  BY DEF NewSnapshot, NewPatch, Records, Snapshots, Patches, ChangeSets

-----------------------------------------------------------------------------
(* The log after a step holds what it held before, possibly more. *)
LogExtends ==
  \A v \in Uids :
    /\ latest'[v] \in Nat
    /\ latest[v] <= latest'[v]
    /\ \A r \in Store!Revisions(v) :
         record'[v][r] = record[v][r] /\ content'[v][r] = content[v][r]

(* Of a call in progress nothing changes. *)
CallUnchanged(d) ==
  /\ pc'[d] = pc[d] /\ uid'[d] = uid[d] /\ newObject'[d] = newObject[d] /\ ts'[d] = ts[d]
  /\ target'[d] = target[d] /\ currentRevision'[d] = currentRevision[d]
  /\ patchChain'[d] = patchChain[d] /\ state'[d] = state[d]

(* A call that others leave alone stays consistent while the log grows, if   *)
(* the log of the object it commits to does not.                             *)
LEMMA OthersUndisturbed ==
  ASSUME TrackerInv, NEW d \in Clients, CallUnchanged(d), LogExtends,
         newObject[d] # None => latest'[uid[d]] = latest[uid[d]]
  PROVE  CallIsConsistent(d)'
<1> DEFINE u == uid[d]
<1>1. CallIsConsistent(d) /\ DataTypeOK
  BY DEF TrackerInv
<1>2. pc[d] # "idle" => u \in Uids
  BY <1>1 DEF DataTypeOK, CallIsConsistent
<1>3. newObject[d] # None => u \in Uids
  BY <1>1, <1>2 DEF CallIsConsistent
<1>4. StartsFromLast(d)'
  <2>1. SUFFICES ASSUME pc[d] = "write" PROVE latest'[u] > 0 /\ ts[d] = LastState(u)'
    BY DEF StartsFromLast, CallUnchanged
  <2>2. latest'[u] = latest[u] /\ latest[u] > 0 /\ ts[d] = LastState(u) /\ u \in Uids
    BY <2>1, <1>1, <1>2 DEF CallIsConsistent, StartsFromLast
  <2>3. latest[u] - 1 \in Store!Revisions(u)
    BY <2>2, <1>1 DEF DataTypeOK, Store!Revisions
  <2>4. content'[u][latest[u] - 1] = content[u][latest[u] - 1]
    BY <2>2, <2>3 DEF LogExtends
  <2>5. QED
    BY <2>2, <2>4 DEF LastState, CallUnchanged
<1>5. ASSUME pc[d] \in {"get", "apply"} PROVE WalkIsOnChain(d)'
  <2>1. WalkIsOnChain(d) /\ u \in Uids
    BY <1>1, <1>2, <1>5 DEF CallIsConsistent
  <2>2. \A r \in Store!Revisions(u) :
          /\ r \in Store!Revisions(u)'
          /\ record'[u][r] = record[u][r] /\ content'[u][r] = content[u][r]
    <3>1. latest[u] \in Nat /\ latest'[u] \in Nat /\ latest[u] <= latest'[u]
      BY <2>1, <1>1, TrackerAssumption DEF LogExtends, DataTypeOK
    <3>2. QED
      BY <2>1, <3>1 DEF LogExtends, Store!Revisions, CallUnchanged
  <2>3. newObject[d] # None => latest'[u] \in {target[d], target[d] + 1}
    BY <2>1 DEF WalkIsOnChain
  <2>4. ASSUME NEW k \in 1..Len(patchChain[d])
        PROVE  /\ patchChain[d][k] \in Store!Revisions(u)'
               /\ record'[u][patchChain[d][k]] = record[u][patchChain[d][k]]
    BY <2>1, <2>2 DEF WalkIsOnChain, CallUnchanged
  <2>5. pc[d] = "apply" =>
          /\ currentRevision[d] \in Store!Revisions(u)'
          /\ state[d] = content'[u][currentRevision[d]]
    BY <2>1, <2>2 DEF WalkIsOnChain, CallUnchanged
  <2>6. QED
    BY <2>1, <2>3, <2>4, <2>5 DEF WalkIsOnChain, CallUnchanged
<1>6. QED
  BY <1>1, <1>2, <1>3, <1>4, <1>5 DEF CallIsConsistent, CallUnchanged

(* Between calls there is nothing to know about a client. *)
LEMMA IdleIsConsistent ==
  ASSUME NEW c \in Clients,
         pc'[c] = "idle" /\ uid'[c] = None /\ newObject'[c] = None /\ patchChain'[c] = <<>>
  PROVE  CallIsConsistent(c)'
BY DEF CallIsConsistent, StartsFromLast

-----------------------------------------------------------------------------
(* The types of the two logs and the counter, which change together. *)
LogTypeOK ==
  /\ latest \in [Uids -> 0..MaxRevisions]
  /\ record = [u \in Uids |-> record[u]]
  /\ content = [u \in Uids |-> content[u]]
  /\ \A u \in Uids :
       /\ record[u] \in [0..(latest[u] - 1) -> Records]
       /\ content[u] \in [0..(latest[u] - 1) -> Objects]
  /\ nextRevisionCounter \in [Uids -> Nat \union {None}]

(* What a transaction that commits a revision does to the store. *)
LEMMA StoreRevisionFacts ==
  ASSUME DataTypeOK, NEW u \in Uids, NEW x \in Records, NEW o \in Objects,
         latest[u] < MaxRevisions, StoreRevision(u, x, o)
  PROVE  /\ LogTypeOK'
         /\ LogExtends
         /\ latest'[u] = latest[u] + 1
         /\ record'[u][latest[u]] = x
         /\ content'[u][latest[u]] = o
         /\ nextRevisionCounter'[u] = latest[u] + 1
         /\ \A v \in Uids \ {u} :
              /\ latest'[v] = latest[v] /\ record'[v] = record[v] /\ content'[v] = content[v]
              /\ nextRevisionCounter'[v] = nextRevisionCounter[v]
<1>1. /\ latest' = [latest EXCEPT ![u] = latest[u] + 1]
      /\ record' = [record EXCEPT ![u] =
                      [r \in 0..latest[u] |-> IF r = latest[u] THEN x ELSE record[u][r]]]
      /\ content' = [content EXCEPT ![u] =
                      [r \in 0..latest[u] |-> IF r = latest[u] THEN o ELSE content[u][r]]]
      /\ nextRevisionCounter' = [nextRevisionCounter EXCEPT ![u] = latest[u] + 1]
  BY DEF StoreRevision, Store!Append, Contents!Append
<1>2. /\ latest \in [Uids -> 0..MaxRevisions]
      /\ record = [v \in Uids |-> record[v]]
      /\ content = [v \in Uids |-> content[v]]
      /\ nextRevisionCounter \in [Uids -> Nat \union {None}]
  BY DEF DataTypeOK
<1>3. \A v \in Uids : latest[v] \in 0..MaxRevisions
  BY <1>2
<1>4. /\ latest' \in [Uids -> 0..MaxRevisions]
      /\ latest'[u] = latest[u] + 1
      /\ \A v \in Uids \ {u} : latest'[v] = latest[v]
  BY <1>1, <1>2, <1>3, TrackerAssumption
<1>5. /\ record'[u] = [r \in 0..latest[u] |-> IF r = latest[u] THEN x ELSE record[u][r]]
      /\ record' = [v \in Uids |-> record'[v]]
      /\ \A v \in Uids \ {u} : record'[v] = record[v]
  BY <1>1, <1>2
<1>6. /\ content'[u] = [r \in 0..latest[u] |-> IF r = latest[u] THEN o ELSE content[u][r]]
      /\ content' = [v \in Uids |-> content'[v]]
      /\ \A v \in Uids \ {u} : content'[v] = content[v]
  BY <1>1, <1>2
<1>7. /\ nextRevisionCounter' \in [Uids -> Nat \union {None}]
      /\ nextRevisionCounter'[u] = latest[u] + 1
      /\ \A v \in Uids \ {u} : nextRevisionCounter'[v] = nextRevisionCounter[v]
  BY <1>1, <1>2, <1>3
<1>8. ASSUME NEW v \in Uids
      PROVE  /\ record'[v] \in [0..(latest'[v] - 1) -> Records]
             /\ content'[v] \in [0..(latest'[v] - 1) -> Objects]
  <2>1. /\ record[v] \in [0..(latest[v] - 1) -> Records]
        /\ content[v] \in [0..(latest[v] - 1) -> Objects]
    BY DEF DataTypeOK
  <2>2. CASE v # u
    BY <2>1, <2>2, <1>4, <1>5, <1>6
  <2>3. CASE v = u
    <3>1. 0..(latest'[u] - 1) = 0..latest[u]
      BY <1>3, <1>4
    <3>2. \A r \in 0..latest[u] : r = latest[u] \/ r \in 0..(latest[u] - 1)
      BY <1>3
    <3>3. \A r \in 0..latest[u] : r # latest[u] => record[u][r] \in Records /\ content[u][r] \in Objects
      BY <2>1, <2>3, <3>2
    <3>4. record'[u] \in [0..latest[u] -> Records]
      <4>1. \A r \in 0..latest[u] : (IF r = latest[u] THEN x ELSE record[u][r]) \in Records
        BY <3>3
      <4>2. QED
        BY <4>1, <1>5
    <3>5. content'[u] \in [0..latest[u] -> Objects]
      <4>1. \A r \in 0..latest[u] : (IF r = latest[u] THEN o ELSE content[u][r]) \in Objects
        BY <3>3
      <4>2. QED
        BY <4>1, <1>6
    <3>6. QED
      BY <2>3, <3>1, <3>4, <3>5
  <2>4. QED
    BY <2>2, <2>3
<1>9. LogExtends
  <2>1. ASSUME NEW v \in Uids, NEW r \in 0..(latest[v] - 1)
        PROVE  record'[v][r] = record[v][r] /\ content'[v][r] = content[v][r]
    <3>1. r # latest[v] /\ r \in 0..latest[v]
      BY <1>3
    <3>2. CASE v = u
      BY <3>1, <3>2, <1>5, <1>6
    <3>3. QED
      BY <3>2, <1>5, <1>6
  <2>2. \A v \in Uids : latest'[v] \in Nat /\ latest[v] <= latest'[v]
    BY <1>3, <1>4
  <2>3. QED
    BY <2>1, <2>2 DEF LogExtends, Store!Revisions
<1>10. record'[u][latest[u]] = x /\ content'[u][latest[u]] = o
  BY <1>3, <1>5, <1>6
<1>11. QED
  BY <1>4, <1>5, <1>6, <1>7, <1>8, <1>9, <1>10 DEF LogTypeOK

(* A record that is sound on top of the log keeps the log sound. *)
LEMMA SoundRecordKeepsTheLog ==
  ASSUME DataTypeOK, LogInv,
         NEW u \in Uids, NEW x \in Records, NEW o \in Objects,
         latest[u] < MaxRevisions, StoreRevision(u, x, o),
         \/ x.kind = "snapshot" /\ x.obj = o
         \/ /\ x.kind = "patch" /\ latest[u] > 0
            /\ ApplyTo(content[u][latest[u] - 1], x.patch) = o,
         latest[u] > 0 => x.previous = latest[u] - 1 /\ ~IsDuplicate(LastState(u), o)
  PROVE  LogInv'
<1>1. /\ latest[u] \in Nat /\ latest'[u] = latest[u] + 1
      /\ record'[u][latest[u]] = x /\ content'[u][latest[u]] = o
  BY StoreRevisionFacts DEF DataTypeOK
<1>2. \A v \in Uids : \A r \in Store!Revisions(v) :
        record'[v][r] = record[v][r] /\ content'[v][r] = content[v][r]
  BY StoreRevisionFacts DEF LogExtends
<1>3. \A v \in Uids : \A r \in 0..(latest'[v] - 1) :
        r \in Store!Revisions(v) \/ (v = u /\ r = latest[u])
  <2>1. \A v \in Uids : v # u => latest'[v] = latest[v]
    BY StoreRevisionFacts
  <2>2. \A r \in 0..(latest'[u] - 1) : r \in 0..(latest[u] - 1) \/ r = latest[u]
    BY <1>1
  <2>3. QED
    BY <2>1, <2>2 DEF Store!Revisions
<1>4. \A v \in Uids : \A r \in Store!Revisions(v) : r \in Nat /\ r > 0 => r - 1 \in Store!Revisions(v)
  BY DEF DataTypeOK, Store!Revisions
<1>5. latest[u] > 0 => latest[u] - 1 \in Store!Revisions(u)
  BY <1>1 DEF Store!Revisions
<1>6. EveryRecordIsSound'
  <2>1. SUFFICES ASSUME NEW v \in Uids, NEW r \in 0..(latest'[v] - 1)
                 PROVE  \/ /\ record'[v][r].kind = "snapshot"
                           /\ record'[v][r].obj = content'[v][r]
                        \/ /\ record'[v][r].kind = "patch"
                           /\ record'[v][r].previous < r
                           /\ ApplyTo(content'[v][record'[v][r].previous], record'[v][r].patch)
                                = content'[v][r]
    BY DEF EveryRecordIsSound, Store!Revisions
  <2>2. CASE r \in Store!Revisions(v)
    <3>1. \/ record[v][r].kind = "snapshot" /\ record[v][r].obj = content[v][r]
          \/ /\ record[v][r].kind = "patch"
             /\ record[v][r].previous < r
             /\ ApplyTo(content[v][record[v][r].previous], record[v][r].patch) = content[v][r]
      BY <2>2 DEF LogInv, EveryRecordIsSound
    <3>2. record[v][r].previous < r => record[v][r].previous \in Store!Revisions(v)
      <4>1. record[v][r] \in Records
        BY <2>2 DEF DataTypeOK, Store!Revisions
      <4>2. record[v][r].previous \in 0..MaxRevisions
        BY <4>1, RecordFields
      <4>3. latest[v] \in Nat
        BY DEF DataTypeOK
      <4>4. QED
        BY <4>2, <4>3, <2>2, TrackerAssumption DEF Store!Revisions
    <3>3. QED
      BY <3>1, <3>2, <2>2, <1>2
  <2>3. CASE v = u /\ r = latest[u]
    <3>1. CASE x.kind = "snapshot" /\ x.obj = o
      BY <2>3, <1>1, <3>1
    <3>2. CASE /\ x.kind = "patch" /\ latest[u] > 0
               /\ ApplyTo(content[u][latest[u] - 1], x.patch) = o
      <4>1. x.previous = latest[u] - 1 /\ content'[u][latest[u] - 1] = content[u][latest[u] - 1]
        BY <3>2, <1>2, <1>5
      <4>2. x.previous < latest[u]
        BY <4>1, <1>1
      <4>3. QED
        BY <2>3, <1>1, <3>2, <4>1, <4>2
    <3>3. QED
      BY <3>1, <3>2
  <2>4. QED
    BY <2>2, <2>3, <1>3
<1>7. PreviousIsPredecessor'
  <2>1. SUFFICES ASSUME NEW v \in Uids, NEW r \in 0..(latest'[v] - 1), r > 0
                 PROVE  record'[v][r].previous = r - 1
    BY DEF PreviousIsPredecessor, Store!Revisions
  <2>2. CASE r \in Store!Revisions(v)
    BY <2>1, <2>2, <1>2 DEF LogInv, PreviousIsPredecessor
  <2>3. CASE v = u /\ r = latest[u]
    BY <2>1, <2>3, <1>1
  <2>4. QED
    BY <2>2, <2>3, <1>3
<1>8. NoResourceVersionTwice'
  <2>1. SUFFICES ASSUME NEW v \in Uids, NEW r \in 0..(latest'[v] - 1), r > 0
                 PROVE  ~SameVersion(content'[v][r - 1], content'[v][r])
    BY DEF NoResourceVersionTwice, SameVersion, Store!Revisions
  <2>2. CASE r \in Store!Revisions(v)
    <3>1. ~SameVersion(content[v][r - 1], content[v][r])
      BY <2>1, <2>2 DEF LogInv, NoResourceVersionTwice
    <3>2. r - 1 \in Store!Revisions(v)
      BY <2>1, <2>2, <1>4
    <3>3. QED
      BY <3>1, <3>2, <2>2, <1>2
  <2>3. CASE v = u /\ r = latest[u]
    BY <2>1, <2>3, <1>1, <1>2, <1>5 DEF LastState, IsDuplicate
  <2>4. QED
    BY <2>2, <2>3, <1>3
<1>9. QED
  BY <1>6, <1>7, <1>8 DEF LogInv

-----------------------------------------------------------------------------
(* The types of what belongs to the calls. *)
CallTypeOK ==
  /\ pc \in [Clients -> Phases]
  /\ uid \in [Clients -> Uids \union {None}]
  /\ newObject \in [Clients -> Objects \union {None}]
  /\ ts \in [Clients -> TrackerStates \union {None}]
  /\ target \in [Clients -> Nat]
  /\ currentRevision \in [Clients -> Nat]
  /\ patchChain \in [Clients -> Seq(Nat)]
  /\ state \in [Clients -> Objects \union {None}]

CallsInv == OneCommitPerObject /\ \A d \in Clients : CallIsConsistent(d)

CacheIsCoherent ==
  /\ cache \in [Uids -> TrackerStates \union {None}]
  /\ \A u \in Uids : cache[u] # None => latest[u] > 0 /\ cache[u] = LastState(u)

(* The parts of the invariant that are proved one by one below. *)
LEMMA InvInParts ==
  TrackerInv <=>
    LogTypeOK /\ CallTypeOK /\ CacheIsCoherent /\ LogInv /\ CounterIsClose /\ CallsInv
  BY DEF TrackerInv, DataTypeOK, LogTypeOK, CallTypeOK, CacheIsCoherent, CallsInv,
         HotStateIsLastRevision, CallIsConsistent

LEMMA InvInPartsPrime ==
  TrackerInv' <=>
    /\ LogTypeOK' /\ CallTypeOK' /\ CacheIsCoherent'
    /\ LogInv' /\ CounterIsClose' /\ CallsInv'
  BY DEF TrackerInv, DataTypeOK, LogTypeOK, CallTypeOK, CacheIsCoherent, CallsInv,
         HotStateIsLastRevision, CallIsConsistent

(* A step that leaves the logs alone. *)
LEMMA SameLog ==
  ASSUME TrackerInv, UNCHANGED <<latest, record, content>>
  PROVE  /\ LogExtends
         /\ LogInv'
         /\ nextRevisionCounter' \in [Uids -> Nat \union {None}] => LogTypeOK'
         /\ nextRevisionCounter' = nextRevisionCounter => CounterIsClose'
         /\ cache' = cache => CacheIsCoherent'
<1>1. LogExtends
  <2>1. \A v \in Uids : latest[v] \in Nat /\ latest[v] <= latest[v]
    BY TrackerAssumption DEF TrackerInv, DataTypeOK
  <2>2. QED
    BY <2>1 DEF LogExtends
<1>2. LogInv'
  BY DEF TrackerInv, LogInv, EveryRecordIsSound, PreviousIsPredecessor, NoResourceVersionTwice,
         Store!Revisions, SameVersion
<1>3. LogTypeOK /\ CacheIsCoherent /\ CounterIsClose
  BY InvInParts
<1>4. QED
  BY <1>1, <1>2, <1>3 DEF LogTypeOK, CacheIsCoherent, CounterIsClose, LastState

(* One client's step, seen from the others: they stay as they were. *)
LEMMA OthersStayConsistent ==
  ASSUME TrackerInv, NEW c \in Clients, LogExtends,
         \A d \in Clients \ {c} :
           /\ CallUnchanged(d)
           /\ newObject[d] # None => latest'[uid[d]] = latest[uid[d]],
         newObject'[c] # None =>
           \A d \in Clients \ {c} : newObject[d] # None => uid[d] # uid'[c],
         CallIsConsistent(c)'
  PROVE  CallsInv'
<1>1. \A d \in Clients : CallIsConsistent(d)'
  BY OthersUndisturbed
<1>2. OneCommitPerObject'
  BY DEF TrackerInv, OneCommitPerObject, CallUnchanged
<1>3. QED
  BY <1>1, <1>2 DEF CallsInv

(* A call that returns. *)
LEMMA ReturnKeepsCalls ==
  ASSUME TrackerInv, NEW c \in Clients, Return(c), LogExtends,
         \A d \in Clients \ {c} : newObject[d] # None => latest'[uid[d]] = latest[uid[d]]
  PROVE  CallTypeOK' /\ CallsInv'
<1>1. DataTypeOK
  BY DEF TrackerInv
<1>2. /\ pc'[c] = "idle" /\ uid'[c] = None /\ newObject'[c] = None /\ patchChain'[c] = <<>>
      /\ \A d \in Clients \ {c} : CallUnchanged(d)
  BY <1>1 DEF DataTypeOK, Return, CallUnchanged
<1>3. CallIsConsistent(c)'
  BY <1>2, IdleIsConsistent
<1>4. CallsInv'
  BY <1>2, <1>3, OthersStayConsistent
<1>5. CallTypeOK'
  <2>1. <<>> \in Seq(Nat)
    OBVIOUS
  <2>2. QED
    BY <1>1, <2>1 DEF DataTypeOK, CallTypeOK, Return, Phases
<1>6. QED
  BY <1>4, <1>5

-----------------------------------------------------------------------------
(* One lemma per action. *)

LEMMA BeginCommitKeepsInv ==
  ASSUME TrackerInv, NEW c \in Clients, NEW u \in Uids, NEW o \in Objects, BeginCommit(c, u, o)
  PROVE  TrackerInv'
<1>1. DataTypeOK /\ CallIsConsistent(c) /\ CacheIsCoherent
  BY InvInParts DEF TrackerInv
<1>2. /\ uid' = [uid EXCEPT ![c] = u]
      /\ newObject' = [newObject EXCEPT ![c] = o]
      /\ UNCHANGED <<latest, record, content, nextRevisionCounter, cache>>
      /\ UNCHANGED <<target, currentRevision, patchChain, state>>
  BY DEF BeginCommit, storeVars, fileVars, walkVars
<1>3. LogExtends /\ LogInv' /\ LogTypeOK' /\ CounterIsClose' /\ CacheIsCoherent'
  BY <1>1, <1>2, SameLog DEF DataTypeOK
<1>4. CASE cache[u] # None /\ ts' = [ts EXCEPT ![c] = cache[u]] /\ pc' = [pc EXCEPT ![c] = "write"]
  <2>1. cache[u] \in TrackerStates /\ latest[u] > 0 /\ cache[u] = LastState(u)
    BY <1>1, <1>4 DEF CacheIsCoherent
  <2>2. CallTypeOK'
    BY <1>1, <1>2, <1>4, <2>1 DEF DataTypeOK, CallTypeOK, Phases
  <2>3. CallIsConsistent(c)'
    <3>1. pc'[c] = "write" /\ uid'[c] = u /\ newObject'[c] = o /\ ts'[c] = cache[u]
      BY <1>1, <1>2, <1>4 DEF DataTypeOK
    <3>2. u # None /\ o # None /\ latest[u] < MaxRevisions
      BY TrackerAssumption DEF BeginCommit
    <3>3. patchChain'[c] = <<>>
      BY <1>1, <1>2 DEF CallIsConsistent, BeginCommit
    <3>4. StartsFromLast(c)'
      BY <3>1, <2>1, <1>2 DEF StartsFromLast, LastState
    <3>5. QED
      BY <3>1, <3>2, <3>3, <3>4, <1>2 DEF CallIsConsistent
  <2>4. CallsInv'
    <3>1. \A d \in Clients \ {c} : CallUnchanged(d)
      BY <1>1, <1>2, <1>4 DEF DataTypeOK, CallUnchanged
    <3>2. \A d \in Clients \ {c} : newObject[d] # None => uid[d] # uid'[c]
      BY <1>1, <1>2 DEF BeginCommit, Unlocked, DataTypeOK
    <3>3. QED
      BY <1>2, <1>3, <2>3, <3>1, <3>2, OthersStayConsistent
  <2>5. QED
    BY <1>3, <2>2, <2>4, InvInPartsPrime
<1>5. CASE ts' = ts /\ pc' = [pc EXCEPT ![c] = "cold"]
  <2>1. CallTypeOK'
    BY <1>1, <1>2, <1>5 DEF DataTypeOK, CallTypeOK, Phases
  <2>2. CallIsConsistent(c)'
    <3>1. pc'[c] = "cold" /\ uid'[c] = u /\ newObject'[c] = o
      BY <1>1, <1>2, <1>5 DEF DataTypeOK
    <3>2. u # None /\ o # None /\ latest[u] < MaxRevisions
      BY TrackerAssumption DEF BeginCommit
    <3>3. patchChain'[c] = <<>>
      BY <1>1, <1>2 DEF CallIsConsistent, BeginCommit
    <3>4. QED
      BY <3>1, <3>2, <3>3, <1>2 DEF CallIsConsistent, StartsFromLast
  <2>3. CallsInv'
    <3>1. \A d \in Clients \ {c} : CallUnchanged(d)
      BY <1>1, <1>2, <1>5 DEF DataTypeOK, CallUnchanged
    <3>2. \A d \in Clients \ {c} : newObject[d] # None => uid[d] # uid'[c]
      BY <1>1, <1>2 DEF BeginCommit, Unlocked, DataTypeOK
    <3>3. QED
      BY <1>2, <1>3, <2>2, <3>1, <3>2, OthersStayConsistent
  <2>4. QED
    BY <1>3, <2>1, <2>3, InvInPartsPrime
<1>6. QED
  BY <1>4, <1>5 DEF BeginCommit

(* What a call that starts to walk at revision r knows. *)
LEMMA StartRestoreKeepsCalls ==
  ASSUME TrackerInv, NEW c \in Clients, NEW u \in Uids, NEW r \in Nat,
         StartRestore(c, r), LogExtends,
         UNCHANGED <<latest, record, content, newObject, ts>>,
         uid' = [uid EXCEPT ![c] = u],
         newObject[c] # None =>
           uid[c] = u /\ latest[u] < MaxRevisions /\ latest[u] \in {r, r + 1},
         patchChain[c] = <<>>
  PROVE  CallTypeOK' /\ CallsInv'
<1>1. DataTypeOK
  BY DEF TrackerInv
<1>2. /\ pc' = [pc EXCEPT ![c] = "get"]
      /\ target' = [target EXCEPT ![c] = r]
      /\ currentRevision' = [currentRevision EXCEPT ![c] = r]
      /\ UNCHANGED <<patchChain, state>>
  BY DEF StartRestore
<1>3. /\ pc'[c] = "get" /\ uid'[c] = u /\ newObject'[c] = newObject[c]
      /\ target'[c] = r /\ currentRevision'[c] = r /\ patchChain'[c] = <<>>
  BY <1>1, <1>2 DEF DataTypeOK
<1>4. CallTypeOK'
  BY <1>1, <1>2 DEF DataTypeOK, CallTypeOK, Phases
<1>5. Len(<<>>) = 0
  OBVIOUS
<1>6. WalkIsOnChain(c)'
  BY <1>3, <1>5 DEF WalkIsOnChain
<1>7. CallIsConsistent(c)'
  BY <1>3, <1>6, TrackerAssumption DEF CallIsConsistent, StartsFromLast
<1>8. \A d \in Clients \ {c} : CallUnchanged(d)
  BY <1>1, <1>2 DEF DataTypeOK, CallUnchanged
<1>9. newObject'[c] # None =>
        \A d \in Clients \ {c} : newObject[d] # None => uid[d] # uid'[c]
  BY <1>3 DEF TrackerInv, OneCommitPerObject
<1>10. CallsInv'
  BY <1>7, <1>8, <1>9, OthersStayConsistent
<1>11. QED
  BY <1>4, <1>10

LEMMA ColdStartKeepsInv ==
  ASSUME TrackerInv, NEW c \in Clients, ColdStart(c)
  PROVE  TrackerInv'
<1> DEFINE u == uid[c]
           next == IF nextRevisionCounter[u] # None THEN nextRevisionCounter[u] ELSE latest[u]
<1>1. DataTypeOK /\ CallIsConsistent(c) /\ CounterIsClose
  BY DEF TrackerInv
<1>2. pc[c] = "cold" /\ UNCHANGED <<latest, record, content, cache, uid, newObject, ts>>
  BY DEF ColdStart, fileVars
<1>3. /\ u \in Uids /\ newObject[c] # None /\ latest[u] < MaxRevisions
      /\ patchChain[c] = <<>> /\ latest[u] \in Nat
  BY <1>1, <1>2, TrackerAssumption DEF DataTypeOK, CallIsConsistent
<1>4. next \in Nat /\ next \in {latest[u], latest[u] + 1} /\ (next = 0 => latest[u] = 0)
  BY <1>1, <1>3 DEF CounterIsClose
<1> HIDE DEF next
<1>5. CASE next = 0 /\ pc' = [pc EXCEPT ![c] = "first"] /\ UNCHANGED <<nextRevisionCounter, walkVars>>
  <2>1. UNCHANGED <<target, currentRevision, patchChain, state>>
    BY <1>5 DEF walkVars
  <2>2. LogExtends /\ LogInv' /\ LogTypeOK' /\ CounterIsClose' /\ CacheIsCoherent'
    BY <1>1, <1>2, <1>5, SameLog DEF DataTypeOK
  <2>3. CallTypeOK'
    BY <1>1, <1>2, <1>5, <2>1 DEF DataTypeOK, CallTypeOK, Phases
  <2>4. CallIsConsistent(c)'
    <3>1. pc'[c] = "first"
      BY <1>1, <1>5 DEF DataTypeOK
    <3>2. QED
      BY <3>1, <2>1, <1>1, <1>2, <1>3, <1>4, <1>5, TrackerAssumption
         DEF CallIsConsistent, StartsFromLast
  <2>5. \A d \in Clients \ {c} : CallUnchanged(d)
    BY <1>1, <1>2, <1>5, <2>1 DEF DataTypeOK, CallUnchanged
  <2>6. \A d \in Clients \ {c} : newObject[d] # None => uid[d] # uid'[c]
    BY <1>2, <1>3 DEF TrackerInv, OneCommitPerObject
  <2>7. CallsInv'
    BY <1>2, <2>2, <2>4, <2>5, <2>6, OthersStayConsistent
  <2>8. QED
    BY <2>2, <2>3, <2>7, InvInPartsPrime
<1>6. CASE /\ next # 0
           /\ nextRevisionCounter' = [nextRevisionCounter EXCEPT ![u] = next]
           /\ StartRestore(c, next - 1)
  <2>1. nextRevisionCounter' \in [Uids -> Nat \union {None}]
    BY <1>1, <1>4, <1>6 DEF DataTypeOK
  <2>2. LogExtends /\ LogInv' /\ LogTypeOK' /\ CacheIsCoherent'
    BY <1>2, <2>1, SameLog
  <2>3. CounterIsClose'
    <3>1. \A v \in Uids : nextRevisionCounter'[v] =
            IF v = u THEN next ELSE nextRevisionCounter[v]
      BY <1>1, <1>6 DEF DataTypeOK
    <3>2. QED
      BY <1>1, <1>2, <1>4, <1>6, <3>1 DEF CounterIsClose
  <2>4. next - 1 \in Nat /\ latest[u] \in {next - 1, (next - 1) + 1}
    BY <1>3, <1>4, <1>6
  <2>5. uid' = [uid EXCEPT ![c] = u]
    BY <1>1, <1>2 DEF DataTypeOK
  <2>6. CallTypeOK' /\ CallsInv'
    BY <1>2, <1>3, <1>6, <2>2, <2>4, <2>5, StartRestoreKeepsCalls
  <2>7. QED
    BY <2>2, <2>3, <2>6, InvInPartsPrime
<1>7. QED
  BY <1>5, <1>6 DEF ColdStart, next

LEMMA CallRestoreKeepsInv ==
  ASSUME TrackerInv, NEW c \in Clients, NEW u \in Uids, NEW r \in 0..latest[u],
         CallRestore(c, u, r)
  PROVE  TrackerInv'
<1>1. DataTypeOK /\ CallIsConsistent(c)
  BY DEF TrackerInv
<1>2. /\ pc[c] = "idle" /\ uid' = [uid EXCEPT ![c] = u] /\ StartRestore(c, r)
      /\ UNCHANGED <<latest, record, content, nextRevisionCounter, cache, newObject, ts>>
  BY DEF CallRestore, storeVars, fileVars
<1>3. newObject[c] = None /\ patchChain[c] = <<>>
  BY <1>1, <1>2 DEF CallIsConsistent
<1>4. LogExtends /\ LogInv' /\ LogTypeOK' /\ CounterIsClose' /\ CacheIsCoherent'
  BY <1>1, <1>2, SameLog DEF DataTypeOK
<1>5. r \in Nat
  OBVIOUS
<1>6. CallTypeOK' /\ CallsInv'
  BY <1>2, <1>3, <1>4, <1>5, StartRestoreKeepsCalls
<1>7. QED
  BY <1>4, <1>6, InvInPartsPrime

(* A step of a walk: the client stays in its call and takes no lock. *)
LEMMA WalkStepKeepsInv ==
  ASSUME TrackerInv, NEW c \in Clients,
         UNCHANGED <<latest, record, content, nextRevisionCounter, cache>>,
         UNCHANGED <<uid, newObject, ts, target>>,
         pc[c] \in {"get", "apply"},
         NEW p \in {"get", "apply"}, NEW n \in Nat, NEW q \in Seq(Nat),
         NEW o \in Objects \union {None},
         pc' = [pc EXCEPT ![c] = p],
         currentRevision' = [currentRevision EXCEPT ![c] = n],
         patchChain' = [patchChain EXCEPT ![c] = q],
         state' = [state EXCEPT ![c] = o],
         WalkIsOnChain(c)'
  PROVE  TrackerInv'
<1>1. DataTypeOK /\ CallIsConsistent(c)
  BY DEF TrackerInv
<1>2. LogExtends /\ LogInv' /\ LogTypeOK' /\ CounterIsClose' /\ CacheIsCoherent'
  BY <1>1, SameLog DEF DataTypeOK
<1>3. CallTypeOK'
  BY <1>1 DEF DataTypeOK, CallTypeOK, Phases
<1>4. pc'[c] = p /\ patchChain'[c] = q
  BY <1>1 DEF DataTypeOK
<1>5. CallIsConsistent(c)'
  BY <1>1, <1>4 DEF CallIsConsistent, StartsFromLast
<1>6. \A d \in Clients \ {c} : CallUnchanged(d)
  BY <1>1 DEF DataTypeOK, CallUnchanged
<1>7. newObject'[c] # None =>
        \A d \in Clients \ {c} : newObject[d] # None => uid[d] # uid'[c]
  BY DEF TrackerInv, OneCommitPerObject
<1>8. CallsInv'
  BY <1>2, <1>5, <1>6, <1>7, OthersStayConsistent
<1>9. QED
  BY <1>2, <1>3, <1>8, InvInPartsPrime

LEMMA RestoreGetKeepsInv ==
  ASSUME TrackerInv, NEW c \in Clients, RestoreGet(c)
  PROVE  TrackerInv'
<1> DEFINE u == uid[c]
           r == currentRevision[c]
           chain == patchChain[c]
<1>1. DataTypeOK /\ CallIsConsistent(c) /\ LogInv
  BY DEF TrackerInv
<1>2. pc[c] = "get" /\ UNCHANGED <<latest, record, content, nextRevisionCounter, cache>>
  BY DEF RestoreGet, storeVars, fileVars
<1>3. u \in Uids /\ r \in Nat /\ chain \in Seq(Nat) /\ WalkIsOnChain(c)
  BY <1>1, <1>2 DEF DataTypeOK, CallIsConsistent
<1>4. CASE Return(c)
  <2>1. LogExtends /\ LogInv' /\ LogTypeOK' /\ CounterIsClose' /\ CacheIsCoherent'
    BY <1>1, <1>2, SameLog DEF DataTypeOK
  <2>2. CallTypeOK' /\ CallsInv'
    BY <1>2, <1>4, <2>1, ReturnKeepsCalls
  <2>3. QED
    BY <2>1, <2>2, InvInPartsPrime
<1>5. CASE /\ Usable(u, r)
           /\ record[u][r].kind = "patch"
           /\ patchChain' = [patchChain EXCEPT ![c] = Append(chain, r)]
           /\ currentRevision' = [currentRevision EXCEPT ![c] = record[u][r].previous]
           /\ UNCHANGED <<callVars, target, state>>
  <2>1. r \in Store!Revisions(u) /\ record[u][r].previous < r
    BY <1>5 DEF Usable
  <2>2. record[u][r] \in Records /\ record[u][r].previous \in Nat
    <3>1. record[u][r] \in Records
      BY <1>1, <1>3, <2>1 DEF DataTypeOK, Store!Revisions
    <3>2. QED
      BY <3>1, RecordFields, TrackerAssumption
  <2>3. r > 0 /\ record[u][r].previous = r - 1
    <3>1. r > 0
      BY <2>1, <2>2, <1>3
    <3>2. QED
      BY <3>1, <2>1, <1>1, <1>3, <1>5 DEF LogInv, PreviousIsPredecessor
  <2>5. Append(chain, r) \in Seq(Nat) /\ Len(Append(chain, r)) = Len(chain) + 1
    BY <1>3
  <2>8. UNCHANGED <<uid, newObject, ts, target, state, pc>>
    BY <1>5 DEF callVars
  <2>9. /\ pc'[c] = "get" /\ patchChain'[c] = Append(chain, r)
        /\ currentRevision'[c] = record[u][r].previous
    BY <1>1, <1>2, <1>5, <2>8 DEF DataTypeOK
  <2>10. WalkIsOnChain(c)'
    <3>1. ASSUME NEW k \in 1..Len(Append(chain, r))
          PROVE  /\ Append(chain, r)[k] \in Store!Revisions(u)
                 /\ record[u][Append(chain, r)[k]].kind = "patch"
                 /\ record[u][Append(chain, r)[k]].previous =
                      IF k = Len(Append(chain, r)) THEN record[u][r].previous
                                                  ELSE Append(chain, r)[k + 1]
      <4>1. CASE k = Len(chain) + 1
        <5>1. Append(chain, r)[k] = r
          BY <4>1, <1>3
        <5>2. QED
          BY <5>1, <4>1, <2>1, <2>5, <1>5
      <4>2. CASE k \in 1..Len(chain)
        <5>1. Append(chain, r)[k] = chain[k] /\ k # Len(Append(chain, r))
          BY <4>2, <1>3
        <5>2. Append(chain, r)[k + 1] = IF k = Len(chain) THEN r ELSE chain[k + 1]
          BY <4>2, <1>3
        <5>3. QED
          BY <5>1, <5>2, <4>2, <1>3 DEF WalkIsOnChain
      <4>3. k = Len(chain) + 1 \/ k \in 1..Len(chain)
        <5>1. Len(chain) \in Nat /\ k \in 1..(Len(chain) + 1)
          BY <2>5, <1>3
        <5>2. QED
          BY <5>1
      <4>4. QED
        BY <4>1, <4>2, <4>3
    <3>2. Append(chain, r) # <<>> /\ target[c] = Append(chain, r)[1]
      <4>1. CASE chain = <<>>
        <5>1. Append(chain, r) = <<r>>
          BY <4>1
        <5>2. target[c] = r
          BY <4>1, <1>3 DEF WalkIsOnChain
        <5>3. QED
          BY <5>1, <5>2
      <4>2. CASE chain # <<>>
        <5>1. Append(chain, r)[1] = chain[1] /\ Append(chain, r) # <<>>
          BY <4>2, <1>3
        <5>2. QED
          BY <5>1, <4>2, <1>3 DEF WalkIsOnChain
      <4>3. QED
        BY <4>1, <4>2
    <3>3. newObject[c] # None => latest[u] \in {target[c], target[c] + 1}
      BY <1>3 DEF WalkIsOnChain
    <3>4. QED
      BY <3>1, <3>2, <3>3, <2>8, <2>9, <1>2 DEF WalkIsOnChain, Store!Revisions
  <2>11. pc' = [pc EXCEPT ![c] = "get"] /\ state' = [state EXCEPT ![c] = state[c]]
    BY <2>8, <1>1, <1>2 DEF DataTypeOK
  <2>12. state[c] \in Objects \union {None}
    BY <1>1 DEF DataTypeOK
  <2>13. QED
    BY <1>2, <1>5, <2>2, <2>5, <2>8, <2>10, <2>11, <2>12, WalkStepKeepsInv
<1>6. CASE /\ Usable(u, r)
           /\ record[u][r].kind = "snapshot"
           /\ state' = [state EXCEPT ![c] = record[u][r].obj]
           /\ pc' = [pc EXCEPT ![c] = "apply"]
           /\ UNCHANGED <<uid, newObject, ts, target, currentRevision, patchChain>>
  <2>1. r \in Store!Revisions(u)
    BY <1>6 DEF Usable
  <2>2. record[u][r].obj = content[u][r]
    BY <2>1, <1>1, <1>3, <1>6 DEF LogInv, EveryRecordIsSound
  <2>3. record[u][r].obj \in Objects
    BY <2>1, <2>2, <1>1, <1>3 DEF DataTypeOK, Store!Revisions
  <2>4. pc'[c] = "apply" /\ state'[c] = record[u][r].obj
    BY <1>1, <1>6 DEF DataTypeOK
  <2>5. WalkIsOnChain(c)'
    BY <1>2, <1>3, <1>6, <2>1, <2>2, <2>4 DEF WalkIsOnChain, Store!Revisions
  <2>7. /\ currentRevision' = [currentRevision EXCEPT ![c] = r]
        /\ patchChain' = [patchChain EXCEPT ![c] = chain]
    BY <1>1, <1>6 DEF DataTypeOK
  <2>8. QED
    BY <1>2, <1>3, <1>6, <2>3, <2>5, <2>7, WalkStepKeepsInv
<1>7. QED
  BY <1>4, <1>5, <1>6 DEF RestoreGet

LEMMA RestoreApplyKeepsInv ==
  ASSUME TrackerInv, NEW c \in Clients, RestoreApply(c)
  PROVE  TrackerInv'
<1> DEFINE u == uid[c]
           chain == patchChain[c]
           n == Len(chain)
           r == chain[n]
           rest == SubSeq(chain, 1, n - 1)
<1>1. DataTypeOK /\ CallIsConsistent(c) /\ LogInv
  BY DEF TrackerInv
<1>2. /\ pc[c] = "apply" /\ n > 0
      /\ state' = [state EXCEPT ![c] = ApplyTo(state[c], record[u][r].patch)]
      /\ currentRevision' = [currentRevision EXCEPT ![c] = r]
      /\ patchChain' = [patchChain EXCEPT ![c] = rest]
      /\ UNCHANGED <<latest, record, content, nextRevisionCounter, cache>>
      /\ UNCHANGED <<pc, uid, newObject, ts, target>>
  BY DEF RestoreApply, storeVars, fileVars, callVars
<1>3. u \in Uids /\ chain \in Seq(Nat) /\ WalkIsOnChain(c)
  BY <1>1, <1>2 DEF DataTypeOK, CallIsConsistent
<1>4. n \in Nat /\ n \in 1..n
  BY <1>2, <1>3
<1>5. /\ r \in Store!Revisions(u) /\ record[u][r].kind = "patch"
      /\ record[u][r].previous = currentRevision[c]
      /\ state[c] = content[u][currentRevision[c]]
  BY <1>2, <1>3, <1>4 DEF WalkIsOnChain
<1>6. ApplyTo(state[c], record[u][r].patch) = content[u][r]
  BY <1>1, <1>3, <1>5 DEF LogInv, EveryRecordIsSound
<1>7. content[u][r] \in Objects /\ r \in Nat
  BY <1>1, <1>3, <1>5 DEF DataTypeOK, Store!Revisions
<1>8. rest \in Seq(Nat) /\ Len(rest) = n - 1 /\ \A k \in 1..(n - 1) : rest[k] = chain[k]
  BY <1>3, <1>4
<1>10. /\ pc'[c] = "apply" /\ patchChain'[c] = rest /\ currentRevision'[c] = r
       /\ state'[c] = content[u][r]
  BY <1>1, <1>2, <1>6 DEF DataTypeOK
<1>11. WalkIsOnChain(c)'
  <2>1. ASSUME NEW k \in 1..(n - 1)
        PROVE  /\ rest[k] \in Store!Revisions(u)
               /\ record[u][rest[k]].kind = "patch"
               /\ record[u][rest[k]].previous = IF k = n - 1 THEN r ELSE rest[k + 1]
    <3>1. k \in 1..n /\ k # n /\ rest[k] = chain[k]
      BY <1>4, <1>8
    <3>2. record[u][chain[k]].previous = chain[k + 1]
      BY <3>1, <1>3 DEF WalkIsOnChain
    <3>3. chain[k + 1] = IF k = n - 1 THEN r ELSE rest[k + 1]
      BY <3>1, <1>4, <1>8
    <3>4. QED
      BY <3>1, <3>2, <3>3, <1>3 DEF WalkIsOnChain
  <2>2. target[c] = chain[1]
    BY <1>2, <1>3 DEF WalkIsOnChain
  <2>3. target[c] = IF rest = <<>> THEN r ELSE rest[1]
    <3>1. CASE n = 1
      <4>1. rest = <<>>
        BY <3>1, <1>8
      <4>2. QED
        BY <4>1, <3>1, <2>2
    <3>2. CASE n > 1
      <4>1. 1 \in 1..(n - 1) /\ Len(rest) # 0
        <5>1. n \in Nat /\ n > 1 /\ Len(rest) = n - 1
          BY <3>2, <1>4, <1>8
        <5> HIDE DEF n, rest
        <5>2. QED
          BY <5>1
      <4>2. rest[1] = chain[1]
        BY <4>1, <1>8
      <4>3. rest # <<>>
        BY <4>1
      <4>4. QED
        BY <4>2, <4>3, <2>2
    <3>3. n = 1 \/ n > 1
      <4>1. n \in Nat /\ n > 0
        BY <1>2, <1>4
      <4> HIDE DEF n
      <4>2. QED
        BY <4>1
    <3>4. QED
      BY <3>1, <3>2, <3>3
  <2>4. newObject[c] # None => latest[u] \in {target[c], target[c] + 1}
    BY <1>3 DEF WalkIsOnChain
  <2>5. /\ uid'[c] = u /\ latest' = latest /\ record' = record /\ content' = content
        /\ target'[c] = target[c] /\ newObject'[c] = newObject[c]
    BY <1>2
  <2>6. Len(rest) = n - 1
    BY <1>8
  <2> HIDE DEF rest, r, n, u
  <2>7. QED
    BY <1>5, <1>10, <2>1, <2>3, <2>4, <2>5, <2>6 DEF WalkIsOnChain, Store!Revisions
<1>12. pc' = [pc EXCEPT ![c] = "apply"]
  BY <1>1, <1>2 DEF DataTypeOK
<1>13. QED
  BY <1>2, <1>6, <1>7, <1>8, <1>11, <1>12, WalkStepKeepsInv

(* What cache.set makes of the cache when the entry is the last state. *)
LEMMA CacheSetIsCoherent ==
  ASSUME TrackerInv, NEW u \in Uids, NEW e \in TrackerStates,
         latest'[u] > 0, e = LastState(u)',
         \A v \in Uids \ {u} : latest'[v] = latest[v] /\ content'[v] = content[v],
         \/ cache' = [cache EXCEPT ![u] = e]
         \/ cache' = cache /\ cache[u] = None
  PROVE  CacheIsCoherent'
<1>1. CacheIsCoherent
  BY InvInParts
<1>2. cache' \in [Uids -> TrackerStates \union {None}]
  BY <1>1 DEF CacheIsCoherent
<1>3. ASSUME NEW v \in Uids, cache'[v] # None
      PROVE  latest'[v] > 0 /\ cache'[v] = LastState(v)'
  <2>1. CASE v = u
    BY <1>1, <1>3, <2>1 DEF CacheIsCoherent
  <2>2. CASE v # u
    <3>1. cache'[v] = cache[v]
      BY <1>1, <2>2 DEF CacheIsCoherent
    <3>2. latest[v] > 0 /\ cache[v] = LastState(v)
      BY <1>1, <1>3, <3>1 DEF CacheIsCoherent
    <3>3. QED
      BY <3>1, <3>2, <2>2 DEF LastState
  <2>3. QED
    BY <2>1, <2>2
<1>4. QED
  BY <1>2, <1>3 DEF CacheIsCoherent

LEMMA RestoreReturnsKeepsInv ==
  ASSUME TrackerInv, NEW c \in Clients, RestoreReturns(c)
  PROVE  TrackerInv'
<1> DEFINE u == uid[c]
           e == [obj |-> state[c], rev |-> target[c]]
<1>1. DataTypeOK /\ CallIsConsistent(c)
  BY DEF TrackerInv
<1>2. /\ pc[c] = "apply" /\ patchChain[c] = <<>>
      /\ UNCHANGED <<latest, record, content, nextRevisionCounter>>
  BY DEF RestoreReturns, storeVars, fileVars
<1>3. u \in Uids /\ WalkIsOnChain(c)
  BY <1>1, <1>2 DEF DataTypeOK, CallIsConsistent
<1>4. LogExtends /\ LogInv' /\ LogTypeOK' /\ CounterIsClose' /\ (cache' = cache => CacheIsCoherent')
  BY <1>1, <1>2, SameLog DEF DataTypeOK
<1>5. CASE Return(c) /\ cache' = cache
  <2>1. CallTypeOK' /\ CallsInv'
    BY <1>2, <1>4, <1>5, ReturnKeepsCalls
  <2>2. QED
    BY <1>4, <1>5, <2>1, InvInPartsPrime
<1>6. CASE /\ newObject[c] # None
           /\ ts' = [ts EXCEPT ![c] = e]
           /\ cache' = CacheSet(u, e)
           /\ pc' = [pc EXCEPT ![c] = "write"]
           /\ state' = [state EXCEPT ![c] = None]
           /\ UNCHANGED <<uid, newObject, target, currentRevision, patchChain>>
  <2>1. target[c] \in Store!Revisions(u) /\ state[c] = content[u][target[c]]
    BY <1>2, <1>3 DEF WalkIsOnChain
  <2>2. latest[u] \in {target[c], target[c] + 1} /\ latest[u] \in 0..MaxRevisions /\ target[c] \in Nat
    BY <1>1, <1>3, <1>6 DEF WalkIsOnChain, DataTypeOK
  <2>3. latest[u] = target[c] + 1
    BY <2>1, <2>2, TrackerAssumption DEF Store!Revisions
  <2>4. latest[u] > 0 /\ target[c] = latest[u] - 1 /\ target[c] \in 0..MaxRevisions
    BY <2>2, <2>3, TrackerAssumption
  <2>5. e = LastState(u)
    BY <2>1, <2>4 DEF LastState
  <2>6. e \in TrackerStates
    <3>1. state[c] \in Objects
      BY <2>1, <1>1, <1>3 DEF DataTypeOK, Store!Revisions
    <3>2. QED
      BY <3>1, <2>4 DEF TrackerStates
  <2>7. e = LastState(u)'
    BY <2>5, <1>2, <1>6 DEF LastState
  <2> HIDE DEF e
  <2>8. CacheIsCoherent'
    <3>1. cache' = [cache EXCEPT ![u] = e] \/ (cache' = cache /\ cache[u] = None)
      BY <1>6 DEF CacheSet
    <3>2. e = LastState(uid[c])' /\ uid' = uid
      BY <2>7, <1>6
    <3>3. \A w \in Uids : w = u => e = [obj |-> content'[w][latest'[w] - 1], rev |-> latest'[w] - 1]
      BY <3>2 DEF LastState
    <3>4. PICK w \in Uids : w = u
      BY <1>3
    <3>5. e = LastState(w)'
      BY <3>3, <3>4 DEF LastState
    <3>6. latest'[w] > 0
      BY <3>4, <2>4, <1>2
    <3>7. QED
      BY <3>1, <3>4, <3>5, <3>6, <2>6, <1>2, CacheSetIsCoherent
  <2>9. CallTypeOK'
    BY <1>1, <1>6, <2>6 DEF DataTypeOK, CallTypeOK, Phases
  <2>10. CallIsConsistent(c)'
    <3>1. pc'[c] = "write" /\ ts'[c] = e
      BY <1>1, <1>6 DEF DataTypeOK
    <3>2. StartsFromLast(c)'
      BY <3>1, <2>4, <2>7, <1>2, <1>6 DEF StartsFromLast
    <3>3. QED
      BY <3>1, <3>2, <1>1, <1>2, <1>6, TrackerAssumption DEF CallIsConsistent
  <2>11. \A d \in Clients \ {c} : CallUnchanged(d)
    BY <1>1, <1>6 DEF DataTypeOK, CallUnchanged
  <2>12. \A d \in Clients \ {c} : newObject[d] # None => uid[d] # uid'[c]
    BY <1>6 DEF TrackerInv, OneCommitPerObject
  <2>13. CallsInv'
    BY <1>2, <1>4, <2>10, <2>11, <2>12, OthersStayConsistent
  <2>14. QED
    BY <1>4, <2>8, <2>9, <2>13, InvInPartsPrime
<1>7. QED
  BY <1>5, <1>6 DEF RestoreReturns

(* A commit that writes: the record is sound, the hot state moves with it.   *)
LEMMA CommitKeepsInv ==
  ASSUME TrackerInv, NEW c \in Clients, NEW u \in Uids, u = uid[c], newObject[c] # None,
         NEW x \in Records, NEW o \in Objects, StoreRevision(u, x, o),
         \/ x.kind = "snapshot" /\ x.obj = o
         \/ /\ x.kind = "patch" /\ latest[u] > 0
            /\ ApplyTo(content[u][latest[u] - 1], x.patch) = o,
         latest[u] > 0 => x.previous = latest[u] - 1 /\ ~IsDuplicate(LastState(u), o),
         \/ cache' = [cache EXCEPT ![u] = [obj |-> o, rev |-> latest[u]]]
         \/ cache' = cache /\ cache[u] = None,
         Return(c)
  PROVE  TrackerInv'
<1>1. DataTypeOK /\ CallIsConsistent(c) /\ LogInv /\ CounterIsClose /\ OneCommitPerObject
  BY DEF TrackerInv
<1>2. latest[u] < MaxRevisions /\ latest[u] \in Nat
  BY <1>1, TrackerAssumption DEF CallIsConsistent, DataTypeOK
<1>3. /\ LogTypeOK'
      /\ LogExtends
      /\ latest'[u] = latest[u] + 1
      /\ content'[u][latest[u]] = o
      /\ nextRevisionCounter'[u] = latest[u] + 1
      /\ \A v \in Uids \ {u} :
           /\ latest'[v] = latest[v] /\ record'[v] = record[v] /\ content'[v] = content[v]
           /\ nextRevisionCounter'[v] = nextRevisionCounter[v]
  BY <1>1, <1>2, StoreRevisionFacts
<1>4. LogInv'
  BY <1>1, <1>2, SoundRecordKeepsTheLog
<1>5. CounterIsClose'
  BY <1>1, <1>2, <1>3 DEF CounterIsClose
<1>6. CacheIsCoherent'
  <2> DEFINE e == [obj |-> o, rev |-> latest[u]]
  <2>1. e \in TrackerStates
    BY <1>2, TrackerAssumption DEF TrackerStates
  <2>2. latest'[u] > 0 /\ latest'[u] - 1 = latest[u]
    BY <1>2, <1>3
  <2>3. e = LastState(u)'
    BY <2>2, <1>3 DEF LastState
  <2> HIDE DEF e
  <2>4. cache' = [cache EXCEPT ![u] = e] \/ (cache' = cache /\ cache[u] = None)
    BY DEF e
  <2>5. QED
    BY <1>3, <2>1, <2>2, <2>3, <2>4, CacheSetIsCoherent
<1>7. \A d \in Clients \ {c} : newObject[d] # None => latest'[uid[d]] = latest[uid[d]]
  <2>1. SUFFICES ASSUME NEW d \in Clients \ {c}, newObject[d] # None
                 PROVE  latest'[uid[d]] = latest[uid[d]]
    OBVIOUS
  <2>2. uid[d] # u
    BY <2>1, <1>1 DEF OneCommitPerObject
  <2>3. CallIsConsistent(d)
    BY DEF TrackerInv
  <2>4. uid[d] \in Uids
    BY <2>1, <2>3, <1>1 DEF CallIsConsistent, DataTypeOK
  <2>5. QED
    BY <2>2, <2>4, <1>3
<1>8. CallTypeOK' /\ CallsInv'
  BY <1>3, <1>7, ReturnKeepsCalls
<1>9. QED
  BY <1>3, <1>4, <1>5, <1>6, <1>8, InvInPartsPrime

LEMMA WriteFirstKeepsInv ==
  ASSUME TrackerInv, NEW c \in Clients, WriteFirst(c)
  PROVE  TrackerInv'
<1> DEFINE x == NewSnapshot(newObject[c], 0)
<1>1. DataTypeOK /\ CallIsConsistent(c) /\ pc[c] = "first"
  BY DEF TrackerInv, WriteFirst
<1>2. PICK u \in Uids : u = uid[c]
  BY <1>1 DEF DataTypeOK, CallIsConsistent
<1>3. newObject[c] \in Objects /\ newObject[c] # None /\ latest[u] = 0
  BY <1>1, <1>2 DEF DataTypeOK, CallIsConsistent
<1>4. x \in Records /\ x.kind = "snapshot" /\ x.obj = newObject[c]
  <2>1. 0 \in 0..MaxRevisions
    BY TrackerAssumption
  <2>2. QED
    BY <2>1, <1>3, NewRecords DEF NewSnapshot
<1>5. StoreRevision(u, x, newObject[c]) /\ Return(c)
  BY <1>2 DEF WriteFirst
<1>6. \/ cache' = [cache EXCEPT ![u] = [obj |-> newObject[c], rev |-> latest[u]]]
      \/ cache' = cache /\ cache[u] = None
  BY <1>2 DEF WriteFirst, CacheSet
<1>7. ~(latest[u] > 0)
  BY <1>3
<1> HIDE DEF x
<1>8. QED
  BY <1>2, <1>3, <1>4, <1>5, <1>6, <1>7, CommitKeepsInv

LEMMA WriteSnapshotKeepsInv ==
  ASSUME TrackerInv, NEW c \in Clients, WriteSnapshot(c)
  PROVE  TrackerInv'
<1> DEFINE x == NewSnapshot(newObject[c], ts[c].rev)
<1>1. DataTypeOK /\ CallIsConsistent(c) /\ pc[c] = "write"
  BY DEF TrackerInv, WriteSnapshot
<1>2. PICK u \in Uids : u = uid[c]
  BY <1>1 DEF DataTypeOK, CallIsConsistent
<1>3. newObject[c] \in Objects /\ newObject[c] # None /\ latest[u] > 0 /\ ts[c] = LastState(u)
  BY <1>1, <1>2 DEF DataTypeOK, CallIsConsistent, StartsFromLast
<1>4. latest[u] \in 0..MaxRevisions /\ ts[c].rev = latest[u] - 1
  BY <1>1, <1>3 DEF DataTypeOK, LastState
<1>5. ts[c].rev \in 0..MaxRevisions
  BY <1>3, <1>4, TrackerAssumption
<1>6. x \in Records /\ x.kind = "snapshot" /\ x.obj = newObject[c] /\ x.previous = latest[u] - 1
  BY <1>3, <1>4, <1>5, NewRecords DEF NewSnapshot
<1>7. /\ StoreRevision(u, x, newObject[c]) /\ Return(c)
      /\ ~IsDuplicate(LastState(u), newObject[c])
  BY <1>2, <1>3 DEF WriteSnapshot
<1>8. \/ cache' = [cache EXCEPT ![u] = [obj |-> newObject[c], rev |-> latest[u]]]
      \/ cache' = cache /\ cache[u] = None
  BY <1>2 DEF WriteSnapshot, UpdateEntry
<1> HIDE DEF x
<1>9. QED
  BY <1>2, <1>3, <1>6, <1>7, <1>8, CommitKeepsInv

LEMMA WritePatchKeepsInv ==
  ASSUME TrackerInv, NEW c \in Clients, WritePatch(c)
  PROVE  TrackerInv'
<1> DEFINE chg == DiffOf(ts[c].obj, newObject[c])
           x == NewPatch(ts[c].rev, chg)
<1>1. DataTypeOK /\ CallIsConsistent(c) /\ pc[c] = "write"
  BY DEF TrackerInv, WritePatch
<1>2. PICK u \in Uids : u = uid[c]
  BY <1>1 DEF DataTypeOK, CallIsConsistent
<1>3. newObject[c] \in Objects /\ newObject[c] # None /\ latest[u] > 0 /\ ts[c] = LastState(u)
  BY <1>1, <1>2 DEF DataTypeOK, CallIsConsistent, StartsFromLast
<1>4. /\ latest[u] \in 0..MaxRevisions
      /\ ts[c].rev = latest[u] - 1 /\ ts[c].obj = content[u][latest[u] - 1]
  BY <1>1, <1>3 DEF DataTypeOK, LastState
<1>5. ts[c].rev \in 0..MaxRevisions /\ latest[u] - 1 \in 0..(latest[u] - 1)
  BY <1>3, <1>4, TrackerAssumption
<1>6. ts[c].obj \in Objects
  BY <1>1, <1>4, <1>5 DEF DataTypeOK
<1>7. ApplyTo(ts[c].obj, chg) = newObject[c]
  BY <1>3, <1>6, RoundTrip
<1>8. x \in Records
  BY <1>3, <1>5, <1>6, NewRecords
<1>9. x.kind = "patch" /\ x.previous = latest[u] - 1 /\ x.patch = chg
  BY <1>4 DEF NewPatch
<1>10. ApplyTo(content[u][latest[u] - 1], x.patch) = newObject[c]
  BY <1>4, <1>7, <1>9
<1>11. /\ StoreRevision(u, x, newObject[c]) /\ Return(c)
       /\ ~IsDuplicate(LastState(u), newObject[c])
  BY <1>2, <1>3 DEF WritePatch
<1>12. \/ cache' = [cache EXCEPT ![u] = [obj |-> newObject[c], rev |-> latest[u]]]
       \/ cache' = cache /\ cache[u] = None
  BY <1>2, <1>7 DEF WritePatch, UpdateEntry
<1> HIDE DEF x, chg
<1>13. QED
  BY <1>2, <1>3, <1>8, <1>9, <1>10, <1>11, <1>12, CommitKeepsInv

(* A call that returns without having written. *)
LEMMA EmptyHandedKeepsInv ==
  ASSUME TrackerInv, NEW c \in Clients, Return(c), UNCHANGED <<latest, record, content, cache>>,
         \/ nextRevisionCounter' = nextRevisionCounter
         \/ /\ uid[c] \in Uids
            /\ nextRevisionCounter' = [nextRevisionCounter EXCEPT ![uid[c]] = latest[uid[c]] + 1]
  PROVE  TrackerInv'
<1>1. DataTypeOK /\ CounterIsClose
  BY DEF TrackerInv
<1>2. nextRevisionCounter' \in [Uids -> Nat \union {None}] /\ CounterIsClose'
  <2>1. CASE nextRevisionCounter' = nextRevisionCounter
    BY <2>1, <1>1, SameLog DEF DataTypeOK
  <2>2. CASE /\ uid[c] \in Uids
             /\ nextRevisionCounter' = [nextRevisionCounter EXCEPT ![uid[c]] = latest[uid[c]] + 1]
    <3>1. latest[uid[c]] \in Nat
      BY <2>2, <1>1, TrackerAssumption DEF DataTypeOK
    <3>2. nextRevisionCounter' \in [Uids -> Nat \union {None}]
      BY <2>2, <3>1, <1>1 DEF DataTypeOK
    <3>3. \A v \in Uids : nextRevisionCounter'[v] =
            IF v = uid[c] THEN latest[v] + 1 ELSE nextRevisionCounter[v]
      BY <2>2, <1>1 DEF DataTypeOK
    <3>4. CounterIsClose'
      BY <3>1, <3>3, <1>1 DEF CounterIsClose
    <3>5. QED
      BY <3>2, <3>4
  <2>3. QED
    BY <2>1, <2>2
<1>3. LogExtends /\ LogInv' /\ LogTypeOK' /\ CacheIsCoherent'
  BY <1>2, SameLog
<1>4. CallTypeOK' /\ CallsInv'
  BY <1>3, ReturnKeepsCalls
<1>5. QED
  BY <1>2, <1>3, <1>4, InvInPartsPrime

LEMMA EvictKeepsInv ==
  ASSUME TrackerInv, NEW u \in Uids, Evict(u)
  PROVE  TrackerInv'
<1>1. DataTypeOK /\ CacheIsCoherent /\ CallsInv /\ CallTypeOK
  BY InvInParts DEF TrackerInv
<1>2. /\ cache' = [cache EXCEPT ![u] = None]
      /\ UNCHANGED <<latest, record, content, nextRevisionCounter>>
      /\ UNCHANGED <<pc, uid, newObject, ts, target, currentRevision, patchChain, state>>
  BY DEF Evict, storeVars, fileVars, callVars, walkVars
<1>3. LogExtends /\ LogInv' /\ LogTypeOK' /\ CounterIsClose'
  BY <1>1, <1>2, SameLog DEF DataTypeOK
<1>4. CacheIsCoherent'
  <2>1. cache' \in [Uids -> TrackerStates \union {None}]
    BY <1>1, <1>2 DEF CacheIsCoherent
  <2>2. \A v \in Uids : cache'[v] = IF v = u THEN None ELSE cache[v]
    BY <1>1, <1>2 DEF CacheIsCoherent
  <2>3. QED
    BY <2>1, <2>2, <1>1, <1>2 DEF CacheIsCoherent, LastState
<1>5. CallTypeOK'
  BY <1>1, <1>2 DEF CallTypeOK
<1>6. CallsInv'
  <2>1. \A d \in Clients : CallUnchanged(d)
    BY <1>2 DEF CallUnchanged
  <2>2. \A d \in Clients : CallIsConsistent(d)'
    BY <1>2, <1>3, <2>1, OthersUndisturbed
  <2>3. QED
    BY <1>1, <1>2, <2>2 DEF CallsInv, OneCommitPerObject
<1>7. QED
  BY <1>3, <1>4, <1>5, <1>6, InvInPartsPrime

LEMMA RestartKeepsInv ==
  ASSUME TrackerInv, Restart
  PROVE  TrackerInv'
<1>1. DataTypeOK /\ LogInv
  BY DEF TrackerInv
<1>2. PICK cut \in Store!Cuts :
        /\ latest' = cut
        /\ record' = [u \in Uids |-> [r \in 0..(cut[u] - 1) |-> record[u][r]]]
        /\ content' = [u \in Uids |-> [r \in 0..(cut[u] - 1) |-> content[u][r]]]
  BY DEF Restart, Store!Truncate, Contents!Truncate
<1>3. \A u \in Uids : latest[u] \in 0..MaxRevisions
  BY <1>1 DEF DataTypeOK
<1>4. \A u \in Uids : cut[u] \in 0..MaxRevisions /\ cut[u] <= latest[u]
  <2>1. \A u \in Uids : cut[u] \in UNION {0..latest[v] : v \in Uids} /\ cut[u] <= latest[u]
    BY DEF Store!Cuts
  <2>2. \A n \in UNION {0..latest[v] : v \in Uids} : n \in Nat
    BY <1>3
  <2>3. QED
    BY <2>1, <2>2, <1>3, TrackerAssumption
<1>5. \A u \in Uids : \A r \in 0..(cut[u] - 1) :
        /\ r \in Store!Revisions(u) /\ r \in Nat
        /\ record'[u][r] = record[u][r] /\ content'[u][r] = content[u][r]
        /\ \A q \in 0..r : q \in 0..(cut[u] - 1)
  BY <1>2, <1>3, <1>4 DEF Store!Revisions
<1>6. LogTypeOK'
  <2>1. latest' \in [Uids -> 0..MaxRevisions]
    <3>1. latest' = [u \in Uids |-> cut[u]]
      BY <1>2 DEF Store!Cuts
    <3>2. QED
      BY <3>1, <1>4
  <2>2. record' = [u \in Uids |-> record'[u]] /\ content' = [u \in Uids |-> content'[u]]
    BY <1>2
  <2>3. ASSUME NEW u \in Uids
        PROVE  /\ record'[u] \in [0..(latest'[u] - 1) -> Records]
               /\ content'[u] \in [0..(latest'[u] - 1) -> Objects]
    <3>1. \A r \in 0..(cut[u] - 1) : record[u][r] \in Records /\ content[u][r] \in Objects
      BY <1>1, <1>5 DEF DataTypeOK, Store!Revisions
    <3>2. QED
      BY <3>1, <1>2
  <2>4. nextRevisionCounter' \in [Uids -> Nat \union {None}]
    BY DEF Restart
  <2>5. QED
    BY <2>1, <2>2, <2>3, <2>4 DEF LogTypeOK
<1>7. LogInv'
  <2>1. EveryRecordIsSound'
    <3>1. SUFFICES ASSUME NEW v \in Uids, NEW r \in 0..(cut[v] - 1)
                   PROVE  \/ /\ record'[v][r].kind = "snapshot"
                             /\ record'[v][r].obj = content'[v][r]
                          \/ /\ record'[v][r].kind = "patch"
                             /\ record'[v][r].previous < r
                             /\ ApplyTo(content'[v][record'[v][r].previous], record'[v][r].patch)
                                  = content'[v][r]
      BY <1>2 DEF EveryRecordIsSound, Store!Revisions
    <3>2. record[v][r].previous \in Nat
      BY <1>1, <1>5, RecordFields, TrackerAssumption DEF DataTypeOK, Store!Revisions
    <3>3. record[v][r].previous < r => record[v][r].previous \in 0..(cut[v] - 1)
      BY <3>2, <1>5
    <3>4. \/ record[v][r].kind = "snapshot" /\ record[v][r].obj = content[v][r]
          \/ /\ record[v][r].kind = "patch"
             /\ record[v][r].previous < r
             /\ ApplyTo(content[v][record[v][r].previous], record[v][r].patch) = content[v][r]
      BY <1>1, <1>5 DEF LogInv, EveryRecordIsSound
    <3>5. QED
      BY <3>3, <3>4, <1>5
  <2>2. PreviousIsPredecessor'
    BY <1>1, <1>2, <1>5 DEF LogInv, PreviousIsPredecessor, Store!Revisions
  <2>3. NoResourceVersionTwice'
    <3>1. SUFFICES ASSUME NEW v \in Uids, NEW r \in 0..(cut[v] - 1), r > 0
                   PROVE  ~SameVersion(content'[v][r - 1], content'[v][r])
      BY <1>2 DEF NoResourceVersionTwice, SameVersion, Store!Revisions
    <3>2. ~SameVersion(content[v][r - 1], content[v][r])
      BY <3>1, <1>1, <1>5 DEF LogInv, NoResourceVersionTwice
    <3>3. r - 1 \in 0..(cut[v] - 1)
      BY <3>1, <1>5
    <3>4. QED
      BY <3>2, <3>3, <1>5
  <2>4. QED
    BY <2>1, <2>2, <2>3 DEF LogInv
<1>8. CacheIsCoherent' /\ CounterIsClose'
  BY DEF Restart, CacheIsCoherent, CounterIsClose
<1>9. CallTypeOK'
  <2>1. <<>> \in Seq(Nat)
    OBVIOUS
  <2>2. QED
    BY <2>1 DEF Restart, CallTypeOK, Phases
<1>10. CallsInv'
  <2>1. \A d \in Clients : CallIsConsistent(d)'
    BY IdleIsConsistent DEF Restart
  <2>2. QED
    BY <2>1 DEF Restart, CallsInv, OneCommitPerObject
<1>11. QED
  BY <1>6, <1>7, <1>8, <1>9, <1>10, InvInPartsPrime

LEMMA InitHasInv ==
  ASSUME Init
  PROVE  TrackerInv
<1>1. /\ latest = [u \in Uids |-> 0]
      /\ record = [u \in Uids |-> [r \in {} |-> {}]]
      /\ content = [u \in Uids |-> [r \in {} |-> {}]]
  BY DEF Init, Store!Init, Contents!Init
<1>2. 0..(0 - 1) = {}
  OBVIOUS
<1>3. LogTypeOK
  BY <1>1, <1>2, TrackerAssumption DEF LogTypeOK, Init
<1>4. LogInv
  BY <1>1, <1>2
     DEF LogInv, EveryRecordIsSound, PreviousIsPredecessor, NoResourceVersionTwice,
         Store!Revisions
<1>5. CacheIsCoherent /\ CounterIsClose
  BY DEF Init, CacheIsCoherent, CounterIsClose
<1>6. CallTypeOK
  <2>1. <<>> \in Seq(Nat)
    OBVIOUS
  <2>2. QED
    BY <2>1 DEF Init, CallTypeOK, Phases
<1>7. CallsInv
  BY DEF Init, CallsInv, OneCommitPerObject, CallIsConsistent, StartsFromLast
<1>8. QED
  BY <1>3, <1>4, <1>5, <1>6, <1>7, InvInParts

-----------------------------------------------------------------------------
(* Every step keeps the invariant. *)
LEMMA StepKeepsInv ==
  ASSUME TrackerInv, [Next]_vars
  PROVE  TrackerInv'
<1>1. ASSUME NEW c \in Clients, NEW u \in Uids, NEW o \in Objects, BeginCommit(c, u, o)
      PROVE  TrackerInv'
  BY <1>1, BeginCommitKeepsInv
<1>2. ASSUME NEW c \in Clients, NEW u \in Uids, NEW r \in 0..latest[u], CallRestore(c, u, r)
      PROVE  TrackerInv'
  BY <1>2, CallRestoreKeepsInv
<1>3. ASSUME NEW c \in Clients, CallStep(c)
      PROVE  TrackerInv'
  <2>1. CASE ColdStart(c)
    BY <2>1, ColdStartKeepsInv
  <2>2. CASE RestoreGet(c)
    BY <2>2, RestoreGetKeepsInv
  <2>3. CASE RestoreApply(c)
    BY <2>3, RestoreApplyKeepsInv
  <2>4. CASE RestoreReturns(c)
    BY <2>4, RestoreReturnsKeepsInv
  <2>5. CASE WriteFirst(c)
    BY <2>5, WriteFirstKeepsInv
  <2>6. CASE WriteSnapshot(c)
    BY <2>6, WriteSnapshotKeepsInv
  <2>7. CASE WritePatch(c)
    BY <2>7, WritePatchKeepsInv
  <2>8. CASE RefuseDuplicate(c) \/ Abort(c)
    BY <2>8, EmptyHandedKeepsInv DEF RefuseDuplicate, Abort, storeVars, fileVars
  <2>9. CASE FailWrite(c)
    <3>1. uid[c] \in Uids
      BY <2>9 DEF FailWrite, TrackerInv, DataTypeOK, CallIsConsistent
    <3>2. QED
      BY <2>9, <3>1, EmptyHandedKeepsInv DEF FailWrite, fileVars
  <2>10. QED
    BY <1>3, <2>1, <2>2, <2>3, <2>4, <2>5, <2>6, <2>7, <2>8, <2>9 DEF CallStep
<1>4. ASSUME NEW u \in Uids, Evict(u)
      PROVE  TrackerInv'
  BY <1>4, EvictKeepsInv
<1>5. CASE Restart
  BY <1>5, RestartKeepsInv
<1>6. CASE UNCHANGED vars
  <2>1. UNCHANGED <<latest, record, content, nextRevisionCounter, cache>>
    BY <1>6 DEF vars
  <2>2. LogExtends /\ LogInv' /\ LogTypeOK' /\ CounterIsClose' /\ CacheIsCoherent'
    BY <2>1, SameLog DEF TrackerInv, DataTypeOK
  <2>3. CallTypeOK'
    BY <1>6 DEF vars, TrackerInv, DataTypeOK, CallTypeOK
  <2>4. \A d \in Clients : CallIsConsistent(d)'
    BY <1>6, <2>2, OthersUndisturbed DEF vars, CallUnchanged
  <2>5. OneCommitPerObject'
    BY <1>6 DEF vars, TrackerInv, OneCommitPerObject
  <2>6. QED
    BY <2>2, <2>3, <2>4, <2>5, InvInPartsPrime DEF CallsInv
<1>7. QED
  BY <1>1, <1>2, <1>3, <1>4, <1>5, <1>6 DEF Next

(* The invariant of the tracker: initially and after every step. *)
THEOREM TrackerInvariance == Spec => []TrackerInv
<1>1. Init => TrackerInv
  BY InitHasInv
<1>2. TrackerInv /\ [Next]_vars => TrackerInv'
  BY StepKeepsInv
<1>3. QED
  BY <1>1, <1>2, PTL DEF Spec

(* Type correctness. *)
LEMMA DataTypesAreKept == Spec => []DataTypeOK
<1>1. TrackerInv => DataTypeOK
  BY DEF TrackerInv
<1>2. QED
  BY <1>1, TrackerInvariance, PTL

(* Commit always works on the last committed state, from the cache or from   *)
(* the store: the cache cannot be told from no cache at all.                 *)
THEOREM HotStatesAreLast == Spec => []HotStateIsLastRevision
<1>1. TrackerInv => HotStateIsLastRevision
  BY DEF TrackerInv
<1>2. QED
  BY <1>1, TrackerInvariance, PTL

(* Every record is sound, for every algorithm with the round trip of Diff    *)
(* and Apply.                                                                *)
THEOREM RecordsAreSound == Spec => []EveryRecordIsSound
<1>1. TrackerInv => EveryRecordIsSound
  BY DEF TrackerInv, LogInv
<1>2. QED
  BY <1>1, TrackerInvariance, PTL

(* A PreviousID never skips a revision. *)
THEOREM PreviousIDsAreConsecutive == Spec => []PreviousIsPredecessor
<1>1. TrackerInv => PreviousIsPredecessor
  BY DEF TrackerInv, LogInv
<1>2. QED
  BY <1>1, TrackerInvariance, PTL

(* No resourceVersion twice in a row. *)
THEOREM DuplicatesAreRefused == Spec => []NoResourceVersionTwice
<1>1. TrackerInv => NoResourceVersionTwice
  BY DEF TrackerInv, LogInv
<1>2. QED
  BY <1>1, TrackerInvariance, PTL

(* Restore, which takes no lock, returns what was committed. *)
THEOREM RestoreIsCorrect == Spec => []RestoredIsCommitted
<1>1. TrackerInv => RestoredIsCommitted
  <2>1. SUFFICES ASSUME TrackerInv, NEW c \in Clients, pc[c] = "apply", patchChain[c] = <<>>
                 PROVE  /\ target[c] \in Store!Revisions(uid[c])
                        /\ state[c] = content[uid[c]][target[c]]
    BY DEF RestoredIsCommitted
  <2>2. WalkIsOnChain(c)
    BY <2>1 DEF TrackerInv, CallIsConsistent
  <2>3. QED
    BY <2>1, <2>2 DEF WalkIsOnChain
<1>2. QED
  BY <1>1, TrackerInvariance, PTL

-----------------------------------------------------------------------------
(* The snapshot intervals.  A record is appended under the interval of the   *)
(* session; a patch only where that interval allows one.                     *)
LEMMA AppendKeepsPeriods ==
  ASSUME TrackerInv, PeriodInv, NEW u \in Uids, NEW x \in Records, NEW o \in Objects,
         latest[u] < MaxRevisions, StoreRevision(u, x, o),
         x.kind = "patch" => latest[u] > 0 /\ ~EndOfPeriod(latest[u] - 1)
  PROVE  IntervalTypeOK' /\ PatchesAreWithinPeriods'
<1>1. DataTypeOK /\ IntervalTypeOK /\ PatchesAreWithinPeriods
  BY DEF TrackerInv, PeriodInv
<1>2. /\ recordedEvery' = [recordedEvery EXCEPT ![u] =
            [r \in 0..latest[u] |-> IF r = latest[u] THEN snapshotEvery ELSE recordedEvery[u][r]]]
      /\ snapshotEvery' = snapshotEvery
  BY DEF StoreRevision, Periods!Append
<1>3. \A v \in Uids : latest[v] \in Nat
  BY <1>1, TrackerAssumption DEF DataTypeOK
<1>4. /\ LogExtends /\ latest'[u] = latest[u] + 1
      /\ record'[u][latest[u]] = x
      /\ \A v \in Uids \ {u} : latest'[v] = latest[v] /\ record'[v] = record[v]
  BY <1>1, StoreRevisionFacts
<1>5. /\ recordedEvery'[u] =
           [r \in 0..latest[u] |-> IF r = latest[u] THEN snapshotEvery ELSE recordedEvery[u][r]]
      /\ recordedEvery' = [v \in Uids |-> recordedEvery'[v]]
      /\ \A v \in Uids \ {u} : recordedEvery'[v] = recordedEvery[v]
  BY <1>1, <1>2 DEF IntervalTypeOK
<1>6. snapshotEvery \in Intervals /\ snapshotEvery \in Nat \ {0}
  BY <1>1, TrackerAssumption DEF IntervalTypeOK
<1>7. \A r \in 0..latest[u] : r = latest[u] \/ r \in 0..(latest[u] - 1)
  BY <1>3
<1>8. IntervalTypeOK'
  <2>1. recordedEvery'[u] \in [0..(latest'[u] - 1) -> Intervals]
    <3>1. 0..(latest'[u] - 1) = 0..latest[u]
      BY <1>3, <1>4
    <3>2. \A r \in 0..latest[u] :
            (IF r = latest[u] THEN snapshotEvery ELSE recordedEvery[u][r]) \in Intervals
      BY <1>1, <1>6, <1>7 DEF IntervalTypeOK
    <3>3. QED
      BY <3>1, <3>2, <1>5
  <2>2. \A v \in Uids \ {u} : recordedEvery'[v] \in [0..(latest'[v] - 1) -> Intervals]
    BY <1>1, <1>4, <1>5 DEF IntervalTypeOK
  <2>3. QED
    BY <2>1, <2>2, <1>2, <1>5, <1>6 DEF IntervalTypeOK
<1>9. x.kind = "patch" => latest[u] % snapshotEvery # 0
  <2>1. SUFFICES ASSUME x.kind = "patch"
                 PROVE  latest[u] % snapshotEvery # 0
    OBVIOUS
  <2>2. PICK m \in Nat : m = latest[u] - 1
    BY <2>1, <1>3
  <2>3. m % snapshotEvery # snapshotEvery - 1
    BY <2>1, <2>2 DEF EndOfPeriod
  <2>4. (m + 1) % snapshotEvery = (m % snapshotEvery) + 1
    BY <2>3, <1>6, ModNext
  <2>5. m % snapshotEvery \in 0..(snapshotEvery - 1)
    BY <1>6
  <2>6. (m + 1) % snapshotEvery # 0
    BY <2>4, <2>5, <1>6
  <2>7. m + 1 = latest[u]
    BY <2>2, <1>3
  <2>8. QED
    BY <2>6, <2>7
<1>10. PatchesAreWithinPeriods'
  <2>1. SUFFICES ASSUME NEW v \in Uids, NEW r \in 0..(latest'[v] - 1), record'[v][r].kind = "patch"
                 PROVE  r % recordedEvery'[v][r] # 0
    BY DEF PatchesAreWithinPeriods, Store!Revisions
  <2>2. CASE v # u
    BY <2>1, <2>2, <1>1, <1>4, <1>5 DEF PatchesAreWithinPeriods, Store!Revisions
  <2>3. CASE v = u /\ r = latest[u]
    <3>1. recordedEvery'[u][latest[u]] = snapshotEvery
      BY <1>3, <1>5
    <3>2. QED
      BY <3>1, <2>1, <2>3, <1>4, <1>9
  <2>4. CASE v = u /\ r # latest[u]
    <3>1. r \in 0..latest[u] /\ r \in 0..(latest[u] - 1)
      BY <2>1, <2>4, <1>3, <1>4
    <3>2. record'[u][r] = record[u][r]
      BY <3>1, <1>4 DEF LogExtends, Store!Revisions
    <3>3. recordedEvery'[u][r] = recordedEvery[u][r]
      BY <3>1, <2>4, <1>5
    <3>4. QED
      BY <3>1, <3>2, <3>3, <2>1, <2>4, <1>1 DEF PatchesAreWithinPeriods, Store!Revisions
  <2>5. QED
    BY <2>2, <2>3, <2>4
<1>11. QED
  BY <1>8, <1>10

(* A restart cuts the intervals off with the records. *)
LEMMA RestartKeepsPeriods ==
  ASSUME TrackerInv, PeriodInv, Restart
  PROVE  PeriodInv'
<1>1. DataTypeOK /\ IntervalTypeOK /\ PatchesAreWithinPeriods
  BY DEF TrackerInv, PeriodInv
<1>2. PICK cut \in Store!Cuts :
        /\ latest' = cut
        /\ record' = [u \in Uids |-> [r \in 0..(cut[u] - 1) |-> record[u][r]]]
        /\ recordedEvery' = [u \in Uids |-> [r \in 0..(cut[u] - 1) |-> recordedEvery[u][r]]]
  BY DEF Restart, Store!Truncate, Periods!Truncate
<1>3. \A u \in Uids : latest[u] \in Nat
  BY <1>1, TrackerAssumption DEF DataTypeOK
<1>4. \A u \in Uids : cut[u] \in Nat /\ cut[u] <= latest[u]
  <2>1. \A u \in Uids : cut[u] \in UNION {0..latest[v] : v \in Uids} /\ cut[u] <= latest[u]
    BY DEF Store!Cuts
  <2>2. \A n \in UNION {0..latest[v] : v \in Uids} : n \in Nat
    BY <1>3
  <2>3. QED
    BY <2>1, <2>2
<1>5. \A u \in Uids : \A r \in 0..(cut[u] - 1) :
        /\ r \in 0..(latest[u] - 1)
        /\ record'[u][r] = record[u][r] /\ recordedEvery'[u][r] = recordedEvery[u][r]
  BY <1>2, <1>3, <1>4
<1>6. IntervalTypeOK'
  <2>1. snapshotEvery' \in Intervals
    BY DEF Restart
  <2>2. recordedEvery' = [u \in Uids |-> recordedEvery'[u]]
    BY <1>2
  <2>3. ASSUME NEW u \in Uids
        PROVE  recordedEvery'[u] \in [0..(latest'[u] - 1) -> Intervals]
    <3>1. \A r \in 0..(cut[u] - 1) : recordedEvery[u][r] \in Intervals
      BY <1>1, <1>5 DEF IntervalTypeOK
    <3>2. QED
      BY <3>1, <1>2
  <2>4. QED
    BY <2>1, <2>2, <2>3 DEF IntervalTypeOK
<1>7. PatchesAreWithinPeriods'
  BY <1>1, <1>2, <1>5 DEF PatchesAreWithinPeriods, Store!Revisions
<1>8. \A c \in Clients : ChainIsConsecutive(c)'
  BY DEF Restart, ChainIsConsecutive
<1>9. QED
  BY <1>6, <1>7, <1>8 DEF PeriodInv

(* The chains after the step of one client. *)
LEMMA ChainsStayConsecutive ==
  ASSUME PeriodInv, NEW c \in Clients, ChainIsConsecutive(c)',
         \A d \in Clients \ {c} :
           patchChain'[d] = patchChain[d] /\ currentRevision'[d] = currentRevision[d]
  PROVE  \A d \in Clients : ChainIsConsecutive(d)'
<1>1. \A d \in Clients : ChainIsConsecutive(d)
  BY DEF PeriodInv
<1>2. QED
  BY <1>1 DEF ChainIsConsecutive

LEMMA ReturnKeepsChains ==
  ASSUME TrackerInv, PeriodInv, NEW c \in Clients, Return(c)
  PROVE  \A d \in Clients : ChainIsConsecutive(d)'
<1>1. /\ patchChain'[c] = <<>>
      /\ \A d \in Clients \ {c} :
           patchChain'[d] = patchChain[d] /\ currentRevision'[d] = currentRevision[d]
  BY DEF TrackerInv, DataTypeOK, Return
<1>2. ChainIsConsecutive(c)'
  BY <1>1 DEF ChainIsConsecutive
<1>3. QED
  BY <1>1, <1>2, ChainsStayConsecutive

LEMMA StartRestoreKeepsChains ==
  ASSUME TrackerInv, PeriodInv, NEW c \in Clients, NEW r \in Int, StartRestore(c, r),
         pc[c] \in {"idle", "cold"}
  PROVE  \A d \in Clients : ChainIsConsecutive(d)'
<1>1. patchChain[c] = <<>>
  BY DEF TrackerInv, CallIsConsistent
<1>2. /\ patchChain'[c] = <<>>
      /\ \A d \in Clients \ {c} :
           patchChain'[d] = patchChain[d] /\ currentRevision'[d] = currentRevision[d]
  BY <1>1 DEF TrackerInv, DataTypeOK, StartRestore
<1>3. ChainIsConsecutive(c)'
  BY <1>2 DEF ChainIsConsecutive
<1>4. QED
  BY <1>2, <1>3, ChainsStayConsecutive

(* The walk down adds the revision it is at, and goes to the one before. *)
LEMMA RestoreGetKeepsChains ==
  ASSUME TrackerInv, PeriodInv, NEW c \in Clients, RestoreGet(c)
  PROVE  \A d \in Clients : ChainIsConsecutive(d)'
<1> DEFINE u == uid[c]
           r == currentRevision[c]
           n == Len(patchChain[c])
<1>1. DataTypeOK /\ PreviousIsPredecessor /\ CallIsConsistent(c) /\ pc[c] = "get"
  BY DEF TrackerInv, LogInv, RestoreGet
<1>2. u \in Uids /\ r \in Nat /\ patchChain[c] \in Seq(Nat) /\ n \in Nat
  BY <1>1 DEF DataTypeOK, CallIsConsistent
<1>3. CASE Return(c)
  BY <1>3, ReturnKeepsChains
<1>4. CASE UNCHANGED <<currentRevision, patchChain>>
  BY <1>4 DEF PeriodInv, ChainIsConsecutive
<1>5. CASE /\ Usable(u, r)
           /\ record[u][r].kind = "patch"
           /\ patchChain' = [patchChain EXCEPT ![c] = Append(patchChain[c], r)]
           /\ currentRevision' = [currentRevision EXCEPT ![c] = record[u][r].previous]
  <2>1. r \in Store!Revisions(u) /\ record[u][r].previous < r
    BY <1>5 DEF Usable
  <2>2. record[u][r].previous \in Nat
    <3>1. record[u][r] \in Records
      BY <2>1, <1>1, <1>2 DEF DataTypeOK, Store!Revisions
    <3>2. QED
      BY <3>1, RecordFields, TrackerAssumption
  <2>3. r > 0
    BY <2>1, <2>2, <1>2
  <2>4. record[u][r].previous = r - 1
    BY <2>1, <2>3, <1>1, <1>2 DEF PreviousIsPredecessor
  <2>5. /\ patchChain'[c] = Append(patchChain[c], r)
        /\ currentRevision'[c] = r - 1
        /\ \A d \in Clients \ {c} :
             patchChain'[d] = patchChain[d] /\ currentRevision'[d] = currentRevision[d]
    BY <2>4, <1>1, <1>5 DEF DataTypeOK
  <2>6. \A k \in 1..n : patchChain[c][k] = r + n + 1 - k
    BY DEF PeriodInv, ChainIsConsecutive
  <2>7. /\ Len(patchChain'[c]) = n + 1
        /\ patchChain'[c][n + 1] = r
        /\ \A k \in 1..n : patchChain'[c][k] = patchChain[c][k]
    BY <2>5, <1>2
  <2> HIDE DEF u, r, n
  <2>8. \A k \in 1..(n + 1) : patchChain'[c][k] = (r - 1) + (n + 1) + 1 - k
    BY <2>6, <2>7, <1>2
  <2>9. ChainIsConsecutive(c)'
    BY <2>5, <2>7, <2>8 DEF ChainIsConsecutive
  <2>10. QED
    BY <2>5, <2>9, ChainsStayConsecutive
<1>6. QED
  BY <1>3, <1>4, <1>5 DEF RestoreGet

(* The way back drops the last of the chain, and is there. *)
LEMMA RestoreApplyKeepsChains ==
  ASSUME TrackerInv, PeriodInv, NEW c \in Clients, RestoreApply(c)
  PROVE  \A d \in Clients : ChainIsConsecutive(d)'
<1> DEFINE r == currentRevision[c]
           chain == patchChain[c]
           n == Len(chain)
           rest == SubSeq(chain, 1, n - 1)
<1>1. /\ n > 0
      /\ currentRevision' = [currentRevision EXCEPT ![c] = chain[n]]
      /\ patchChain' = [patchChain EXCEPT ![c] = rest]
  BY DEF RestoreApply
<1>2. chain \in Seq(Nat) /\ n \in Nat /\ r \in Nat
  BY DEF TrackerInv, DataTypeOK
<1>3. \A k \in 1..n : chain[k] = r + n + 1 - k
  BY DEF PeriodInv, ChainIsConsecutive
<1>4. Len(rest) = n - 1 /\ \A k \in 1..(n - 1) : rest[k] = chain[k]
  BY <1>1, <1>2
<1>5. /\ patchChain'[c] = rest
      /\ currentRevision'[c] = chain[n]
      /\ \A d \in Clients \ {c} :
           patchChain'[d] = patchChain[d] /\ currentRevision'[d] = currentRevision[d]
  BY <1>1 DEF TrackerInv, DataTypeOK
<1> HIDE DEF rest, n, chain, r
<1>6. chain[n] = r + 1
  BY <1>1, <1>2, <1>3
<1>7. \A k \in 1..(n - 1) : rest[k] = (r + 1) + (n - 1) + 1 - k
  BY <1>1, <1>2, <1>3, <1>4
<1>8. ChainIsConsecutive(c)'
  BY <1>4, <1>5, <1>6, <1>7 DEF ChainIsConsecutive
<1>9. QED
  BY <1>5, <1>8, ChainsStayConsecutive

(* Every step keeps the intervals and the chains. *)
LEMMA InitHasPeriodInv ==
  ASSUME Init
  PROVE  PeriodInv
<1>1. /\ latest = [u \in Uids |-> 0]
      /\ recordedEvery = [u \in Uids |-> [r \in {} |-> {}]]
      /\ snapshotEvery \in Intervals
  BY DEF Init, Store!Init, Periods!Init
<1>2. 0..(0 - 1) = {}
  OBVIOUS
<1>3. IntervalTypeOK
  BY <1>1, <1>2 DEF IntervalTypeOK
<1>4. PatchesAreWithinPeriods
  BY <1>1, <1>2 DEF PatchesAreWithinPeriods, Store!Revisions
<1>5. \A c \in Clients : ChainIsConsecutive(c)
  BY DEF Init, ChainIsConsecutive
<1>6. QED
  BY <1>3, <1>4, <1>5 DEF PeriodInv

LEMMA FileStaysPeriodic ==
  ASSUME PeriodInv, UNCHANGED fileVars
  PROVE  IntervalTypeOK' /\ PatchesAreWithinPeriods'
BY DEF PeriodInv, fileVars, IntervalTypeOK, PatchesAreWithinPeriods, Store!Revisions

LEMMA WriteKeepsPeriods ==
  ASSUME TrackerInv, PeriodInv, NEW c \in Clients,
         WriteFirst(c) \/ WriteSnapshot(c) \/ WritePatch(c)
  PROVE  IntervalTypeOK' /\ PatchesAreWithinPeriods' /\ Return(c)
<1> DEFINE u == uid[c]
           o == newObject[c]
<1>1. DataTypeOK /\ CallIsConsistent(c) /\ pc[c] \in {"first", "write"}
  BY DEF TrackerInv, WriteFirst, WriteSnapshot, WritePatch
<1>2. u \in Uids /\ o \in Objects /\ latest[u] < MaxRevisions /\ latest[u] \in 0..MaxRevisions
  BY <1>1 DEF DataTypeOK, CallIsConsistent
<1>3. pc[c] = "write" => latest[u] > 0 /\ ts[c] = LastState(u) /\ ts[c] \in TrackerStates
  <2>1. SUFFICES ASSUME pc[c] = "write"
                 PROVE  latest[u] > 0 /\ ts[c] = LastState(u) /\ ts[c] \in TrackerStates
    OBVIOUS
  <2>2. latest[u] > 0 /\ ts[c] = LastState(u)
    BY <2>1, <1>1 DEF CallIsConsistent, StartsFromLast
  <2>3. latest[u] - 1 \in 0..(latest[u] - 1) /\ latest[u] - 1 \in 0..MaxRevisions
    BY <2>2, <1>2, TrackerAssumption
  <2>4. content[u][latest[u] - 1] \in Objects
    BY <2>3, <1>1, <1>2 DEF DataTypeOK
  <2>5. QED
    BY <2>2, <2>3, <2>4 DEF LastState, TrackerStates
<1>4. CASE WriteFirst(c)
  <2>1. StoreRevision(u, NewSnapshot(o, 0), o)
    BY <1>4 DEF WriteFirst
  <2>2. NewSnapshot(o, 0) \in Records /\ NewSnapshot(o, 0).kind = "snapshot"
    BY <1>2, NewRecords, TrackerAssumption DEF NewSnapshot
  <2>3. QED
    BY <2>1, <2>2, <1>2, <1>4, AppendKeepsPeriods DEF WriteFirst
<1>5. CASE WriteSnapshot(c)
  <2>1. StoreRevision(u, NewSnapshot(o, ts[c].rev), o) /\ pc[c] = "write"
    BY <1>5 DEF WriteSnapshot
  <2>2. ts[c].rev \in 0..MaxRevisions
    BY <2>1, <1>3 DEF TrackerStates
  <2>3. NewSnapshot(o, ts[c].rev) \in Records /\ NewSnapshot(o, ts[c].rev).kind = "snapshot"
    BY <2>2, <1>2, NewRecords DEF NewSnapshot
  <2>4. QED
    BY <2>1, <2>3, <1>2, <1>5, AppendKeepsPeriods DEF WriteSnapshot
<1>6. CASE WritePatch(c)
  <2>1. /\ StoreRevision(u, NewPatch(ts[c].rev, DiffOf(ts[c].obj, o)), o)
        /\ pc[c] = "write" /\ ~EndOfPeriod(ts[c].rev)
    BY <1>6 DEF WritePatch
  <2>2. ts[c].rev \in 0..MaxRevisions /\ ts[c].obj \in Objects /\ ts[c].rev = latest[u] - 1
    BY <2>1, <1>3 DEF TrackerStates, LastState
  <2>3. NewPatch(ts[c].rev, DiffOf(ts[c].obj, o)) \in Records
    BY <2>2, <1>2, NewRecords
  <2>4. latest[u] > 0 /\ ~EndOfPeriod(latest[u] - 1)
    BY <2>1, <2>2, <1>3
  <2>5. QED
    BY <2>1, <2>3, <2>4, <1>2, <1>6, AppendKeepsPeriods DEF WritePatch
<1>7. QED
  BY <1>4, <1>5, <1>6

LEMMA StepKeepsPeriodInv ==
  ASSUME TrackerInv, PeriodInv, [Next]_vars
  PROVE  PeriodInv'
<1>1. SUFFICES ASSUME ~Restart
               PROVE  /\ IntervalTypeOK' /\ PatchesAreWithinPeriods'
                      /\ \A d \in Clients : ChainIsConsecutive(d)'
  BY RestartKeepsPeriods DEF PeriodInv
<1>2. UNCHANGED <<currentRevision, patchChain>> => \A d \in Clients : ChainIsConsecutive(d)'
  BY DEF PeriodInv, ChainIsConsecutive
<1>3. ASSUME NEW c \in Clients, NEW u \in Uids, NEW o \in Objects, BeginCommit(c, u, o)
      PROVE  UNCHANGED fileVars /\ UNCHANGED <<currentRevision, patchChain>>
  BY <1>3 DEF BeginCommit, storeVars, walkVars
<1>4. ASSUME NEW c \in Clients, NEW u \in Uids, NEW r \in 0..latest[u], CallRestore(c, u, r)
      PROVE  UNCHANGED fileVars /\ \A d \in Clients : ChainIsConsecutive(d)'
  BY <1>4, StartRestoreKeepsChains DEF CallRestore, storeVars
<1>5. ASSUME NEW c \in Clients, CallStep(c)
      PROVE  /\ IntervalTypeOK' /\ PatchesAreWithinPeriods'
             /\ \A d \in Clients : ChainIsConsecutive(d)'
  <2>1. CASE ColdStart(c)
    <3>1. UNCHANGED fileVars /\ pc[c] = "cold"
      BY <2>1 DEF ColdStart
    <3>2. UNCHANGED walkVars \/ \E r \in Int : StartRestore(c, r)
      <4>1. CASE UNCHANGED walkVars
        BY <4>1
      <4>2. CASE ~UNCHANGED walkVars
        <5>1. DataTypeOK /\ CallIsConsistent(c)
          BY DEF TrackerInv
        <5>2. uid[c] \in Uids
          BY <5>1, <3>1 DEF DataTypeOK, CallIsConsistent
        <5>3. /\ latest[uid[c]] \in Int
              /\ nextRevisionCounter[uid[c]] # None => nextRevisionCounter[uid[c]] \in Int
          BY <5>1, <5>2, TrackerAssumption DEF DataTypeOK
        <5>4. \E n \in Int : StartRestore(c, n - 1)
          BY <2>1, <4>2, <5>3 DEF ColdStart
        <5>5. \A n \in Int : n - 1 \in Int
          OBVIOUS
        <5>6. QED
          BY <5>4, <5>5
      <4>3. QED
        BY <4>1, <4>2
    <3>3. \A d \in Clients : ChainIsConsecutive(d)'
      BY <3>1, <3>2, <1>2, StartRestoreKeepsChains DEF walkVars
    <3>4. QED
      BY <3>1, <3>3, FileStaysPeriodic
  <2>2. CASE RestoreGet(c)
    <3>1. UNCHANGED fileVars
      BY <2>2 DEF RestoreGet, storeVars
    <3>2. QED
      BY <3>1, <2>2, FileStaysPeriodic, RestoreGetKeepsChains
  <2>3. CASE RestoreApply(c)
    <3>1. UNCHANGED fileVars
      BY <2>3 DEF RestoreApply, storeVars
    <3>2. QED
      BY <3>1, <2>3, FileStaysPeriodic, RestoreApplyKeepsChains
  <2>4. CASE RestoreReturns(c)
    <3>1. UNCHANGED fileVars /\ (Return(c) \/ UNCHANGED <<currentRevision, patchChain>>)
      BY <2>4 DEF RestoreReturns, storeVars
    <3>2. QED
      BY <3>1, <1>2, FileStaysPeriodic, ReturnKeepsChains
  <2>5. CASE WriteFirst(c) \/ WriteSnapshot(c) \/ WritePatch(c)
    BY <2>5, WriteKeepsPeriods, ReturnKeepsChains
  <2>6. CASE RefuseDuplicate(c) \/ FailWrite(c) \/ Abort(c)
    <3>1. UNCHANGED fileVars /\ Return(c)
      BY <2>6 DEF RefuseDuplicate, FailWrite, Abort, storeVars
    <3>2. QED
      BY <3>1, FileStaysPeriodic, ReturnKeepsChains
  <2>7. QED
    BY <1>5, <2>1, <2>2, <2>3, <2>4, <2>5, <2>6 DEF CallStep
<1>6. ASSUME NEW u \in Uids, Evict(u)
      PROVE  UNCHANGED fileVars /\ UNCHANGED <<currentRevision, patchChain>>
  BY <1>6 DEF Evict, storeVars, walkVars
<1>7. UNCHANGED vars => UNCHANGED fileVars /\ UNCHANGED <<currentRevision, patchChain>>
  BY DEF vars, fileVars
<1>8. QED
  BY <1>1, <1>2, <1>3, <1>4, <1>5, <1>6, <1>7, FileStaysPeriodic DEF Next

(* Patches stay off the multiples of the interval they were written under,   *)
(* and every chain in hand is consecutive.                                   *)
LEMMA PeriodInvariance == Spec => []PeriodInv
<1>1. Init => PeriodInv
  BY InitHasPeriodInv
<1>2. TrackerInv /\ PeriodInv /\ [Next]_vars => PeriodInv'
  BY StepKeepsPeriodInv
<1>3. QED
  BY <1>1, <1>2, TrackerInvariance, PTL DEF Spec

(* The type of every variable. *)
THEOREM TypeCorrect == Spec => []TypeOK
<1>1. DataTypeOK /\ PeriodInv => TypeOK
  BY DEF PeriodInv, TypeOK
<1>2. QED
  BY <1>1, DataTypesAreKept, PeriodInvariance, PTL

(* A chain of consecutive patches as long as a common multiple of their      *)
(* intervals would hold a revision that is a multiple of it, and so of the   *)
(* interval it was written under.                                            *)
LEMMA ChainsAreShort ==
  ASSUME TrackerInv, PeriodInv
  PROVE  RestoreIsBounded
<1>1. SUFFICES ASSUME NEW c \in Clients, NEW n \in 1..Len(patchChain[c]),
                      \A r \in Range(patchChain[c]) : n % recordedEvery[uid[c]][r] = 0
               PROVE  FALSE
  BY DEF RestoreIsBounded
<1> DEFINE u == uid[c]
           chain == patchChain[c]
           m == currentRevision[c] + Len(chain)
<1>2. DataTypeOK /\ IntervalTypeOK /\ PatchesAreWithinPeriods /\ CallIsConsistent(c)
  BY DEF TrackerInv, PeriodInv
<1>3. chain \in Seq(Nat) /\ Len(chain) \in Nat /\ currentRevision[c] \in Nat
  BY <1>2 DEF DataTypeOK
<1>4. pc[c] \in {"get", "apply"} /\ WalkIsOnChain(c)
  BY <1>2, <1>3 DEF CallIsConsistent
<1>5. u \in Uids
  BY <1>2, <1>4 DEF DataTypeOK, CallIsConsistent
<1>6. n \in Nat \ {0} /\ m \in Nat
  BY <1>3
<1>7. PICK k \in 0..(n - 1) : (m - k) % n = 0
  BY <1>6, MultipleAmong
<1>8. PICK j \in 1..Len(chain) : j = k + 1
  BY <1>3, <1>6
<1>9. PICK r \in Nat : r = chain[j]
  BY <1>3
<1>10. r = m - k
  <2>1. r = currentRevision[c] + Len(chain) + 1 - j
    BY <1>9 DEF PeriodInv, ChainIsConsecutive
  <2>2. QED
    BY <2>1, <1>3, <1>8
<1>11. r \in Range(chain)
  BY <1>3, <1>9 DEF Range
<1>12. r \in Store!Revisions(u) /\ record[u][r].kind = "patch"
  BY <1>4, <1>9 DEF WalkIsOnChain
<1>13. PICK s \in Nat \ {0} : s = recordedEvery[u][r]
  BY <1>2, <1>5, <1>12, TrackerAssumption DEF IntervalTypeOK, Store!Revisions
<1>14. n % s = 0 /\ r % n = 0
  BY <1>1, <1>7, <1>10, <1>11, <1>13
<1>15. r % s = 0
  <2>1. r \in Int
    BY <1>9
  <2>2. QED
    BY <2>1, <1>6, <1>14, DivisorsDivide
<1>16. QED
  BY <1>2, <1>5, <1>12, <1>13, <1>15 DEF PatchesAreWithinPeriods

(* Restore's chain is shorter than every common multiple of the intervals    *)
(* its patches were written under, whatever intervals the sessions on the    *)
(* file are started with.                                                    *)
THEOREM RestoreChainIsBounded == Spec => []RestoreIsBounded
<1>1. TrackerInv /\ PeriodInv => RestoreIsBounded
  BY ChainsAreShort
<1>2. QED
  BY <1>1, TrackerInvariance, PeriodInvariance, PTL

-----------------------------------------------------------------------------
(* What a step makes of the set of cached objects: none is added but by      *)
(* cache.set, which looks at the count first.                                *)
CacheGrowsWithRoom ==
  \/ Cached' \subseteq Cached
  \/ \E u \in Uids : Cached' = Cached \union {u} /\ ~(Cardinality(Cached) >= CacheCapacity)

LEMMA CacheSetGrowsWithRoom ==
  ASSUME DataTypeOK, NEW u, NEW e, cache' = CacheSet(u, e)
  PROVE  CacheGrowsWithRoom
<1>1. CASE cache' = cache
  BY <1>1 DEF CacheGrowsWithRoom, Cached
<1>2. CASE cache' # cache
  <2>1. /\ cache' = [cache EXCEPT ![u] = e]
        /\ cache[u] # None \/ ~(Cardinality(Cached) >= CacheCapacity)
    BY <1>2 DEF CacheSet
  <2>2. u \in Uids
    BY <1>2, <2>1 DEF DataTypeOK
  <2>3. \A v \in Uids : cache'[v] = IF v = u THEN e ELSE cache[v]
    BY <2>1 DEF DataTypeOK
  <2>4. CASE cache[u] # None \/ e = None
    BY <2>3, <2>4 DEF CacheGrowsWithRoom, Cached
  <2>5. CASE cache[u] = None /\ e # None
    <3>1. Cached' = Cached \union {u}
      BY <2>2, <2>3, <2>5 DEF Cached
    <3>2. QED
      BY <2>1, <2>2, <2>5, <3>1 DEF CacheGrowsWithRoom
  <2>6. QED
    BY <2>4, <2>5
<1>3. QED
  BY <1>1, <1>2

LEMMA UpdateEntryAddsNone ==
  ASSUME DataTypeOK, NEW u, NEW e, cache' = UpdateEntry(u, e)
  PROVE  CacheGrowsWithRoom
<1>1. \A v \in Uids : cache'[v] # None => cache[v] # None
  BY DEF UpdateEntry, DataTypeOK
<1>2. QED
  BY <1>1 DEF CacheGrowsWithRoom, Cached

LEMMA StepGrowsWithRoom ==
  ASSUME DataTypeOK, [Next]_vars
  PROVE  CacheGrowsWithRoom
<1>1. ASSUME NEW c \in Clients, CallStep(c)
      PROVE  CacheGrowsWithRoom
  <2>1. CASE \E u, e : cache' = CacheSet(u, e)
    BY <2>1, CacheSetGrowsWithRoom
  <2>2. CASE \E u, e : cache' = UpdateEntry(u, e)
    BY <2>2, UpdateEntryAddsNone
  <2>3. CASE cache' = cache
    BY <2>3 DEF CacheGrowsWithRoom, Cached
  <2>4. \/ \E u, e : cache' = CacheSet(u, e)
        \/ \E u, e : cache' = UpdateEntry(u, e)
        \/ cache' = cache
    <3>1. RestoreReturns(c) \/ WriteFirst(c) => (\E u, e : cache' = CacheSet(u, e)) \/ cache' = cache
      BY DEF RestoreReturns, WriteFirst
    <3>2. RefuseDuplicate(c) \/ WriteSnapshot(c) \/ WritePatch(c) =>
            (\E u, e : cache' = UpdateEntry(u, e)) \/ cache' = cache
      BY DEF RefuseDuplicate, WriteSnapshot, WritePatch
    <3>3. ColdStart(c) \/ RestoreGet(c) \/ RestoreApply(c) \/ FailWrite(c) \/ Abort(c) => cache' = cache
      BY DEF ColdStart, RestoreGet, RestoreApply, FailWrite, Abort
    <3>4. QED
      BY <1>1, <3>1, <3>2, <3>3 DEF CallStep
  <2>5. QED
    BY <2>1, <2>2, <2>3, <2>4
<1>2. ASSUME NEW u \in Uids, Evict(u)
      PROVE  CacheGrowsWithRoom
  BY <1>2 DEF Evict, DataTypeOK, CacheGrowsWithRoom, Cached
<1>3. CASE Restart
  BY <1>3 DEF Restart, CacheGrowsWithRoom, Cached
<1>4. CASE \/ \E c \in Clients, u \in Uids, o \in Objects : BeginCommit(c, u, o)
           \/ \E c \in Clients, u \in Uids : \E r \in 0..latest[u] : CallRestore(c, u, r)
           \/ UNCHANGED vars
  <2>1. cache' = cache
    BY <1>4 DEF BeginCommit, CallRestore, vars
  <2>2. QED
    BY <2>1 DEF CacheGrowsWithRoom, Cached
<1>5. QED
  BY <1>1, <1>2, <1>3, <1>4 DEF Next

(* The cache keeps to its capacity, for any number of objects, of commits    *)
(* that find it full and of evictions.                                       *)
THEOREM CacheKeepsToItsCapacity == Spec => []CacheIsBounded
<1> DEFINE Inv == IsFiniteSet(Cached) /\ CacheIsBounded
<1>1. Init => Inv
  <2> SUFFICES ASSUME Init PROVE Inv
    OBVIOUS
  <2>1. Cached = {}
    BY DEF Init, Cached
  <2>2. QED
    BY <2>1, FS_EmptySet, TrackerAssumption DEF CacheIsBounded
<1>2. DataTypeOK /\ Inv /\ [Next]_vars => Inv'
  <2> SUFFICES ASSUME DataTypeOK, Inv, [Next]_vars
               PROVE  IsFiniteSet(Cached') /\ Cardinality(Cached') <= CacheCapacity
    BY DEF CacheIsBounded
  <2>0. Cardinality(Cached) \in Nat /\ Cardinality(Cached) <= CacheCapacity /\ CacheCapacity \in Nat
    BY FS_CardinalityType, TrackerAssumption DEF CacheIsBounded
  <2>1. CASE Cached' \subseteq Cached
    <3>1. IsFiniteSet(Cached') /\ Cardinality(Cached') <= Cardinality(Cached) /\ Cardinality(Cached') \in Nat
      BY <2>1, FS_Subset, FS_CardinalityType
    <3>2. QED
      BY <2>0, <3>1
  <2>2. ASSUME NEW u \in Uids, Cached' = Cached \union {u}, ~(Cardinality(Cached) >= CacheCapacity)
        PROVE  IsFiniteSet(Cached') /\ Cardinality(Cached') <= CacheCapacity
    <3>1. /\ IsFiniteSet(Cached \union {u})
          /\ Cardinality(Cached \union {u}) \in {Cardinality(Cached), Cardinality(Cached) + 1}
      BY FS_AddElement
    <3>2. QED
      BY <2>0, <2>2, <3>1
  <2>3. QED
    BY <2>1, <2>2, StepGrowsWithRoom DEF CacheGrowsWithRoom
<1>3. QED
  BY <1>1, <1>2, DataTypesAreKept, PTL DEF Spec
-----------------------------------------------------------------------------
(* A set of natural numbers that is not empty has a least element. *)
LEMMA LeastOf ==
  ASSUME NEW S \in SUBSET Nat, S # {}
  PROVE  \E n \in S : \A m \in S : n <= m
<1> DEFINE R == {p \in Nat \X Nat : p[1] < p[2]}
<1>1. IsWellFoundedOn(R, Nat)
  BY NatLessThanWellFounded, Zenon DEF OpToRel
<1>2. PICK n \in S : \A m \in S : ~(<<m, n>> \in R)
  <2> HIDE DEF R
  <2> QED BY <1>1, WFMin
<1>3. ASSUME NEW m \in S
      PROVE  n <= m
  <2>1. <<m, n>> \notin R
    BY <1>2
  <2>2. ~(m < n)
    BY <2>1
  <2>3. m \in Nat /\ n \in Nat
    OBVIOUS
  <2> QED
    BY <2>2, <2>3
<1>4. QED
  BY <1>3

(* What the records rebuild is what was committed: the versions committed    *)
(* satisfy the equation of the recursion, and two functions that do differ   *)
(* at no least revision, because a patch points to an earlier one.           *)
LEMMA RebuiltIsContent ==
  ASSUME TrackerInv, NEW u \in Uids
  PROVE  Rebuilt(u) = content[u]
<1> DEFINE R == Store!Revisions(u)
           Unfold(f) == [r \in R |->
                          IF record[u][r].kind = "snapshot"
                          THEN record[u][r].obj
                          ELSE ApplyTo(f[record[u][r].previous], record[u][r].patch)]
<1>1. /\ latest[u] \in Nat
      /\ R = 0..(latest[u] - 1)
      /\ content[u] \in [R -> Objects]
      /\ \A r \in R : record[u][r].kind \in {"snapshot", "patch"} /\ record[u][r].previous \in Nat
  BY RecordFields, TrackerAssumption DEF TrackerInv, DataTypeOK, Store!Revisions
<1>2. \A r \in R :
        \/ record[u][r].kind = "snapshot" /\ record[u][r].obj = content[u][r]
        \/ /\ record[u][r].kind = "patch" /\ record[u][r].previous < r
           /\ ApplyTo(content[u][record[u][r].previous], record[u][r].patch) = content[u][r]
  BY DEF TrackerInv, LogInv, EveryRecordIsSound
<1>3. content[u] = Unfold(content[u])
  <2>1. \A r \in R : content[u][r] = Unfold(content[u])[r]
    BY <1>2
  <2>2. QED
    BY <1>1, <2>1
<1>4. ASSUME NEW f, f = Unfold(f)
      PROVE  f = content[u]
  <2> DEFINE Wrong == {r \in R : f[r] # content[u][r]}
  <2>0. f = [r \in R |-> f[r]] /\ content[u] = [r \in R |-> content[u][r]]
    <3>1. f = [r \in R |-> f[r]]
      BY ONLY <1>4
    <3> QED BY <3>1, <1>1
  <2>1. SUFFICES ASSUME Wrong # {} PROVE FALSE
    <3> HIDE DEF R
    <3> QED BY <2>0
  <2>2. PICK r \in Wrong : \A q \in Wrong : r <= q
    <3>1. Wrong \in SUBSET Nat
      BY <1>1
    <3>2. QED
      BY <2>1, <3>1, LeastOf
  <2>3. f[r] = IF record[u][r].kind = "snapshot"
               THEN record[u][r].obj
               ELSE ApplyTo(f[record[u][r].previous], record[u][r].patch)
    BY <1>4
  <2>4. CASE record[u][r].kind = "snapshot"
    BY <2>3, <2>4, <1>2
  <2>5. CASE record[u][r].kind # "snapshot"
    <3>1. /\ record[u][r].previous < r
          /\ ApplyTo(content[u][record[u][r].previous], record[u][r].patch) = content[u][r]
      BY <1>2, <2>5
    <3>2. record[u][r].previous \in R /\ record[u][r].previous \notin Wrong
      BY <1>1, <2>2, <3>1
    <3>3. QED
      BY <2>3, <2>5, <3>1, <3>2
  <2>6. QED
    BY <2>4, <2>5
<1>5. Rebuilt(u) = CHOOSE f : f = Unfold(f)
  BY DEF Rebuilt
<1> HIDE DEF Unfold
<1>6. QED
  BY <1>3, <1>4, <1>5

(* So the log that Tracker maps to is the log of what was committed. *)
LEMMA HistoryIsContent ==
  ASSUME TrackerInv
  PROVE  [u \in Uids |-> Rebuilt(u)] = content
<1>1. content = [u \in Uids |-> content[u]]
  BY DEF TrackerInv, DataTypeOK
<1>2. \A u \in Uids : Rebuilt(u) = content[u]
  BY RebuiltIsContent
<1> HIDE DEF Rebuilt
<1>3. QED
  BY <1>1, <1>2

(* The initial states are initial states of the log. *)
LEMMA InitIsEmptyHistory ==
  ASSUME Init
  PROVE  History!Init
<1>1. [u \in Uids |-> Rebuilt(u)] = content
  BY InitHasInv, HistoryIsContent
<1>2. QED
  BY <1>1 DEF Init, Store!Init, Contents!Init, History!Init

(* A commit appends to the log, a restart cuts it, and any other step leaves *)
(* it as it is.                                                              *)
LEMMA StepIsHistoryStep ==
  ASSUME TrackerInv, TrackerInv', [Next]_vars,
         [u \in Uids |-> Rebuilt(u)] = content,
         [u \in Uids |-> Rebuilt(u)]' = content'
  PROVE  [History!Next]_<<latest, [u \in Uids |-> Rebuilt(u)]>>
<1> DEFINE h == [u \in Uids |-> Rebuilt(u)]
<1>0. h = content /\ h' = content'
  OBVIOUS
<1>1. CASE UNCHANGED <<latest, content>>
  <2>1. h' = h
    BY <1>0, <1>1
  <2>2. QED
    BY <2>1, <1>1
<1>2. ASSUME NEW u \in Uids, NEW o \in Objects, Contents!Append(u, o)
      PROVE  History!Next
  <2>1. latest' = [latest EXCEPT ![u] = latest[u] + 1]
    BY <1>2 DEF Contents!Append
  <2>2. h' = [h EXCEPT ![u] = [r \in 0..latest[u] |-> IF r = latest[u] THEN o ELSE h[u][r]]]
    <3> HIDE DEF h
    <3>1. content' = [content EXCEPT ![u] = [r \in 0..latest[u] |-> IF r = latest[u] THEN o ELSE content[u][r]]]
      BY <1>2 DEF Contents!Append
    <3>2. QED
      BY <1>0, <3>1
  <2>3. History!Append(u, o)
    BY <2>1, <2>2, Zenon DEF History!Append
  <2>4. QED
    BY <2>3, Zenon DEF History!Next
<1>3. ASSUME NEW cut \in Store!Cuts, Contents!Truncate(cut)
      PROVE  History!Next
  <2>1. latest' = cut
    BY <1>3 DEF Contents!Truncate
  <2>2. h' = [u \in Uids |-> [r \in 0..(cut[u] - 1) |-> h[u][r]]]
    <3> HIDE DEF h
    <3>1. content' = [u \in Uids |-> [r \in 0..(cut[u] - 1) |-> content[u][r]]]
      BY <1>3 DEF Contents!Truncate
    <3>2. QED
      BY <1>0, <3>1
  <2>3. History!Truncate(cut)
    BY <2>1, <2>2, Zenon DEF History!Truncate
  <2>4. cut \in History!Cuts
    BY DEF Store!Cuts, History!Cuts
  <2>5. QED
    BY <2>3, <2>4, Zenon DEF History!Next
<1>4. \/ UNCHANGED <<latest, content>>
      \/ \E u \in Uids, o \in Objects : Contents!Append(u, o)
      \/ \E cut \in Store!Cuts : Contents!Truncate(cut)
  <2>1. ASSUME NEW c \in Clients, WriteFirst(c) \/ WriteSnapshot(c) \/ WritePatch(c)
        PROVE  \E u \in Uids, o \in Objects : Contents!Append(u, o)
    <3>1. uid[c] \in Uids /\ newObject[c] \in Objects
      BY <2>1 DEF WriteFirst, WriteSnapshot, WritePatch, TrackerInv, DataTypeOK, CallIsConsistent
    <3>2. Contents!Append(uid[c], newObject[c])
      BY <2>1 DEF WriteFirst, WriteSnapshot, WritePatch, StoreRevision
    <3>3. QED
      BY <3>1, <3>2
  <2>2. ASSUME NEW c \in Clients, CallStep(c), ~(WriteFirst(c) \/ WriteSnapshot(c) \/ WritePatch(c))
        PROVE  UNCHANGED <<latest, content>>
    BY <2>2 DEF CallStep, ColdStart, RestoreGet, RestoreApply, RestoreReturns, RefuseDuplicate, FailWrite,
                Abort, storeVars, fileVars
  <2>3. ASSUME NEW c \in Clients, NEW u \in Uids,
               (\E o \in Objects : BeginCommit(c, u, o)) \/ (\E r \in 0..latest[u] : CallRestore(c, u, r))
        PROVE  UNCHANGED <<latest, content>>
    BY <2>3 DEF BeginCommit, CallRestore, storeVars, fileVars
  <2>4. ASSUME NEW u \in Uids, Evict(u)
        PROVE  UNCHANGED <<latest, content>>
    BY <2>4 DEF Evict, storeVars, fileVars
  <2>5. CASE Restart
    BY <2>5 DEF Restart
  <2>6. CASE UNCHANGED vars
    BY <2>6 DEF vars
  <2>7. QED
    BY <2>1, <2>2, <2>3, <2>4, <2>5, <2>6 DEF Next
<1>5. QED
  BY <1>1, <1>2, <1>3, <1>4

(* The tracker implements the append-only log of full objects, for every     *)
(* number of clients, objects and versions and every snapshotEvery: what the *)
(* records rebuild of a revision never changes after its commit.             *)
THEOREM TrackerIsAHistory == Spec => ImplementsHistory
<1>1. Init => History!Init
  BY InitIsEmptyHistory
<1>2. TrackerInv => [u \in Uids |-> Rebuilt(u)] = content
  BY HistoryIsContent
<1>3. /\ TrackerInv /\ TrackerInv' /\ [Next]_vars
      /\ [u \in Uids |-> Rebuilt(u)] = content
      /\ ([u \in Uids |-> Rebuilt(u)] = content)'
      => [History!Next]_<<latest, [u \in Uids |-> Rebuilt(u)]>>
  BY StepIsHistoryStep
<1>4. QED
  BY <1>1, <1>2, <1>3, TrackerInvariance, PTL DEF Spec, ImplementsHistory, History!Spec, History!vars
=============================================================================
