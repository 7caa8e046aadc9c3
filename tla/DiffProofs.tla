----------------------------- MODULE DiffProofs -----------------------------
(***************************************************************************)
(* Proofs about pkg/diffmap, for all objects that end within MaxDepth      *)
(* levels and hold no explicit null: equalFast is equality, applying the   *)
(* change-set of two versions to the first gives the second, and nothing   *)
(* in a change-set is superfluous.                                         *)
(*                                                                         *)
(* Each of the functions that call themselves is described first: that it  *)
(* exists on the values inside its arguments and obeys its body there, by   *)
(* induction on the level these end at, then what one call writes.  What    *)
(* all its calls return is again by induction on the level.                 *)
(***************************************************************************)
EXTENDS DiffChain, FiniteSetTheorems, SequenceTheorems, WellFoundedInduction, TLAPS

(* A nonempty set of numbers has a least one. *)
LEMMA LeastOf ==
  ASSUME NEW S \in SUBSET Nat, S # {}
  PROVE  \E n \in S : \A m \in S : n <= m
<1> DEFINE R == {p \in Nat \X Nat : p[1] < p[2]}
<1>1. IsWellFoundedOn(R, Nat)
  BY NatLessThanWellFounded, Zenon DEF OpToRel
<1>2. PICK n \in S : \A m \in S : ~(<<m, n>> \in R)
  <2> HIDE DEF R
  <2> QED BY <1>1, WFMin
<1>3. ASSUME NEW m \in S
      PROVE  n <= m
  <2>1. <<m, n>> \notin R
    BY <1>2
  <2>2. ~(m < n)
    BY <2>1
  <2>3. m \in Nat /\ n \in Nat
    OBVIOUS
  <2> QED
    BY <2>2, <2>3
<1>4. QED
  BY <1>3

(* What holds at level n when it holds a level earlier holds at every level. *)
LEMMA DepthInduction ==
  ASSUME NEW S, \A n \in 0..MaxDepth : (n # 0 => n - 1 \in S) => n \in S
  PROVE  0..MaxDepth \subseteq S
<1> DEFINE Wrong == (0..MaxDepth) \ S
<1>1. SUFFICES ASSUME Wrong # {} PROVE FALSE
  OBVIOUS
<1>2. MaxDepth \in Nat
  BY DepthAssumption
<1>3. PICK n \in Wrong : \A m \in Wrong : n <= m
  <2>1. Wrong \in SUBSET Nat
    BY <1>2
  <2> HIDE DEF Wrong
  <2>2. QED
    BY <1>1, <2>1, LeastOf
<1>4. n \in 0..MaxDepth /\ n \notin S
  OBVIOUS
<1>5. n # 0 => n - 1 \in 0..MaxDepth /\ ~(n <= n - 1)
  BY <1>2, <1>4
<1>6. n # 0 => n - 1 \in S
  BY <1>3, <1>5
<1>7. QED
  BY <1>4, <1>6

-----------------------------------------------------------------------------
(* The levels of a value are what their definition says: for every n there   *)
(* is a function that obeys it on the first n levels.                        *)
LEMMA LevelEquation ==
  ASSUME NEW v
  PROVE  /\ Level(v)[0] = {v}
         /\ \A n \in 1..MaxDepth : Level(v)[n] = UNION {Parts(x) : x \in Level(v)[n - 1]}
<1> DEFINE Below(S) == UNION {Parts(x) : x \in S}
           Unfold(f) == [n \in 0..MaxDepth |-> IF n = 0 THEN {v} ELSE Below(f[n - 1])]
           level == CHOOSE f : f = Unfold(f)
<1>1. Level(v) = level
  BY DEF Level
<1> HIDE DEF Below
<1>2. MaxDepth \in Nat
  BY DepthAssumption
<1> DEFINE Obeys(f, n) == f[0] = {v} /\ \A k \in 1..n : f[k] = Below(f[k - 1])
           Obeyed == {n \in 0..MaxDepth : \E f : Obeys(f, n)}
<1>3. 0..MaxDepth \subseteq Obeyed
  <2>1. ASSUME NEW n \in 0..MaxDepth, n # 0 => n - 1 \in Obeyed
        PROVE  n \in Obeyed
    <3>1. CASE n = 0
      <4> DEFINE f == [k \in 0..0 |-> {v}]
      <4>1. Obeys(f, 0)
        OBVIOUS
      <4>2. QED
        BY <3>1, <4>1
    <3>2. CASE n # 0
      <4>1. PICK f : Obeys(f, n - 1)
        BY <2>1, <3>2
      <4> DEFINE g == [k \in 0..n |-> IF k = n THEN Below(f[n - 1]) ELSE f[k]]
      <4>2. g[0] = {v}
        BY <3>2, <4>1
      <4>3. ASSUME NEW k \in 1..n PROVE g[k] = Below(g[k - 1])
        <5>1. g[k - 1] = f[k - 1]
          BY <1>2
        <5>2. CASE k = n
          BY <5>1, <5>2
        <5>3. CASE k # n
          <6>1. k \in 1..(n - 1) /\ k \in 0..n
            BY <1>2, <5>3
          <6>2. f[k] = Below(f[k - 1])
            BY <4>1, <6>1
          <6>3. g[k] = f[k]
            BY <5>3, <6>1
          <6>4. QED
            BY <5>1, <6>2, <6>3
        <5>4. QED
          BY <5>2, <5>3
      <4>4. Obeys(g, n)
        BY <4>2, <4>3
      <4>5. QED
        BY <4>4
    <3>3. QED
      BY <3>1, <3>2
  <2> HIDE DEF Obeyed
  <2>2. QED
    BY <2>1, DepthInduction
<1>4. PICK f : Obeys(f, MaxDepth)
  <2>1. MaxDepth \in 0..MaxDepth
    BY <1>2
  <2>2. QED
    BY <1>3, <2>1
<1>5. \E h : h = Unfold(h)
  <2> DEFINE h == [n \in 0..MaxDepth |-> f[n]]
  <2>1. ASSUME NEW n \in 0..MaxDepth
        PROVE  h[n] = IF n = 0 THEN {v} ELSE Below(h[n - 1])
    <3>1. CASE n = 0
      BY <1>4, <3>1
    <3>2. CASE n # 0
      <4>1. n \in 1..MaxDepth /\ n - 1 \in 0..MaxDepth
        BY <1>2, <3>2
      <4>2. QED
        BY <1>4, <3>2, <4>1
    <3>3. QED
      BY <3>1, <3>2
  <2>2. h = Unfold(h)
    BY <2>1
  <2>3. QED
    BY <2>2
<1>6. level = Unfold(level)
  <2> HIDE DEF Unfold
  <2>1. QED
    BY <1>5
<1>7. QED
  <2> HIDE DEF level
  <2>1. PICK r : r = level
    OBVIOUS
  <2>2. r = [n \in 0..MaxDepth |-> IF n = 0 THEN {v} ELSE Below(r[n - 1])]
    BY <1>6, <2>1
  <2>3. r[0] = {v}
    BY <1>2, <2>2
  <2>4. ASSUME NEW n \in 1..MaxDepth PROVE r[n] = Below(r[n - 1])
    <3>1. n \in 0..MaxDepth /\ n # 0
      BY <1>2
    <3>2. QED
      BY <2>2, <3>1
  <2>5. QED
    BY <1>1, <2>1, <2>3, <2>4 DEF Below

(* One level further down is one level down in the parts. *)
LEMMA LevelsOfParts ==
  ASSUME NEW v
  PROVE  \A n \in 1..MaxDepth : Level(v)[n] = UNION {Level(y)[n - 1] : y \in Parts(v)}
<1> DEFINE Across(n) == UNION {Level(y)[n - 1] : y \in Parts(v)}
           Wrong == {n \in 1..MaxDepth : Level(v)[n] # Across(n)}
<1>1. SUFFICES ASSUME Wrong # {} PROVE FALSE
  OBVIOUS
<1>2. PICK n \in Wrong : \A m \in Wrong : n <= m
  <2>1. Wrong \in SUBSET Nat
    BY DepthAssumption
  <2> HIDE DEF Wrong
  <2>2. QED
    BY <1>1, <2>1, LeastOf
<1>3. n \in 1..MaxDepth /\ Level(v)[n] # Across(n)
  OBVIOUS
<1>4. n \in Nat /\ n >= 1 /\ n - 1 \notin Wrong
  <2>1. n \in Nat /\ n >= 1 /\ ~(n <= n - 1)
    BY <1>3, DepthAssumption
  <2> HIDE DEF Wrong
  <2>2. QED
    BY <1>2, <2>1
<1>5. \A x : x \in Level(v)[n] <=> \E z \in Level(v)[n - 1] : x \in Parts(z)
  BY <1>3, LevelEquation
<1>6. CASE n = 1
  <2>1. \A x : x \in Level(v)[n] <=> x \in Parts(v)
    BY <1>5, <1>6, LevelEquation
  <2>2. \A y : Level(y)[n - 1] = {y}
    BY <1>6, LevelEquation
  <2>3. \A x : x \in Across(n) <=> x \in Parts(v)
    BY <2>2
  <2> HIDE DEF Across
  <2>4. QED
    BY <1>3, <2>1, <2>3
<1>7. CASE n # 1
  <2>1. n - 1 \in 1..MaxDepth
    <3>1. n \in 1..MaxDepth /\ MaxDepth \in Nat
      BY <1>3, DepthAssumption
    <3> HIDE DEF Wrong, Across
    <3>2. QED
      BY <1>7, <3>1
  <2>2. Level(v)[n - 1] = Across(n - 1)
    BY <1>4, <2>1
  <2>3. \A z : z \in Level(v)[n - 1] <=> \E y \in Parts(v) : z \in Level(y)[(n - 1) - 1]
    BY <2>2
  <2>4. \A y, x : x \in Level(y)[n - 1] <=> \E z \in Level(y)[(n - 1) - 1] : x \in Parts(z)
    BY <2>1, LevelEquation
  <2>5. \A x : x \in Level(v)[n] <=> \E y \in Parts(v) : x \in Level(y)[n - 1]
    BY <1>5, <2>3, <2>4
  <2>6. \A x : x \in Across(n) <=> \E y \in Parts(v) : x \in Level(y)[n - 1]
    OBVIOUS
  <2> HIDE DEF Across
  <2>7. QED
    BY <1>3, <2>5, <2>6
<1>8. QED
  BY <1>6, <1>7

(* A value has no parts so many levels inside it, so it ends there. *)
EndsBy(v, n) == n \in 0..MaxDepth /\ \A x \in Level(v)[n] : Parts(x) = {}

(* The parts of a value end one level earlier than the value. *)
LEMMA PartsEndEarlier ==
  ASSUME NEW v, NEW n, EndsBy(v, n), NEW y \in Parts(v)
  PROVE  n \in 1..MaxDepth /\ EndsBy(y, n - 1)
<1>1. n \in 0..MaxDepth /\ \A x \in Level(v)[n] : Parts(x) = {}
  BY DEF EndsBy
<1>2. n # 0
  BY <1>1, LevelEquation
<1>3. n \in 1..MaxDepth /\ n - 1 \in 0..MaxDepth
  BY <1>1, <1>2, DepthAssumption
<1>4. \A x \in Level(y)[n - 1] : x \in Level(v)[n]
  BY <1>3, LevelsOfParts
<1>5. QED
  BY <1>1, <1>3, <1>4 DEF EndsBy

(* And a value whose parts all do ends there. *)
LEMMA EndsWithItsParts ==
  ASSUME NEW v, NEW n \in 0..MaxDepth, \A y \in Parts(v) : n # 0 /\ EndsBy(y, n - 1)
  PROVE  EndsBy(v, n)
<1>1. CASE n = 0
  BY <1>1, LevelEquation DEF EndsBy
<1>2. CASE n # 0
  <2>1. n \in 1..MaxDepth
    BY <1>2, DepthAssumption
  <2>2. \A x \in Level(v)[n] : \E y \in Parts(v) : x \in Level(y)[n - 1]
    BY <2>1, LevelsOfParts
  <2>3. QED
    BY <2>2 DEF EndsBy
<1>3. QED
  BY <1>1, <1>2

(* Below the level it ends at there is nothing. *)
LEMMA EndsAtTheLatest ==
  ASSUME NEW v, NEW n, EndsBy(v, n)
  PROVE  \A m \in n..MaxDepth : EndsBy(v, m) /\ (m # n => Level(v)[m] = {})
<1> DEFINE Wrong == {m \in n..MaxDepth : ~(EndsBy(v, m) /\ (m # n => Level(v)[m] = {}))}
<1>1. SUFFICES ASSUME Wrong # {} PROVE FALSE
  OBVIOUS
<1>2. n \in Nat /\ n <= MaxDepth /\ MaxDepth \in Nat
  BY DepthAssumption DEF EndsBy
<1>3. PICK m \in Wrong : \A k \in Wrong : m <= k
  <2>1. Wrong \in SUBSET Nat
    BY <1>2
  <2> HIDE DEF Wrong
  <2>2. QED
    BY <1>1, <2>1, LeastOf
<1>4. m \in n..MaxDepth /\ ~(EndsBy(v, m) /\ (m # n => Level(v)[m] = {}))
  OBVIOUS
<1>5. m # n /\ m \in 1..MaxDepth /\ m - 1 \in n..MaxDepth /\ ~(m <= m - 1)
  BY <1>2, <1>4
<1>6. EndsBy(v, m - 1)
  <2>1. m - 1 \notin Wrong
    <3> HIDE DEF Wrong
    <3>1. QED
      BY <1>3, <1>5
  <2>2. QED
    BY <1>5, <2>1
<1>7. Level(v)[m] = UNION {Parts(x) : x \in Level(v)[m - 1]}
  BY <1>5, LevelEquation
<1>8. Level(v)[m] = {}
  BY <1>6, <1>7 DEF EndsBy
<1>9. QED
  BY <1>4, <1>5, <1>8 DEF EndsBy

(* What is inside a value is the value and what is inside its parts. *)
LEMMA InsideIsClosed ==
  ASSUME NEW v, EndsBy(v, MaxDepth)
  PROVE  /\ v \in Inside(v)
         /\ \A y \in Parts(v) : EndsBy(y, MaxDepth) /\ Inside(y) \subseteq Inside(v)
         /\ \A x \in Inside(v) : x = v \/ \E y \in Parts(v) : x \in Inside(y)
<1>1. MaxDepth \in Nat /\ 0 \in 0..MaxDepth
  BY DepthAssumption
<1>2. v \in Inside(v)
  BY <1>1, LevelEquation DEF Inside
<1>3. ASSUME NEW y \in Parts(v)
      PROVE  EndsBy(y, MaxDepth) /\ Inside(y) \subseteq Inside(v)
  <2>1. MaxDepth \in 1..MaxDepth /\ EndsBy(y, MaxDepth - 1)
    BY PartsEndEarlier
  <2>2. EndsBy(y, MaxDepth) /\ Level(y)[MaxDepth] = {}
    <3>1. MaxDepth \in (MaxDepth - 1)..MaxDepth /\ MaxDepth # MaxDepth - 1
      BY <1>1
    <3>2. QED
      BY <2>1, <3>1, EndsAtTheLatest
  <2>3. ASSUME NEW x \in Inside(y)
        PROVE  x \in Inside(v)
    <3>1. PICK n \in 0..MaxDepth : x \in Level(y)[n]
      BY DEF Inside
    <3>2. n # MaxDepth
      BY <2>2, <3>1
    <3>3. n + 1 \in 1..MaxDepth /\ (n + 1) - 1 = n /\ n + 1 \in 0..MaxDepth
      BY <1>1, <3>2
    <3>4. x \in Level(v)[n + 1]
      BY <3>1, <3>3, LevelsOfParts
    <3>5. QED
      BY <3>3, <3>4 DEF Inside
  <2>4. QED
    BY <2>2, <2>3
<1>4. ASSUME NEW x \in Inside(v), x # v
      PROVE  \E y \in Parts(v) : x \in Inside(y)
  <2>1. PICK n \in 0..MaxDepth : x \in Level(v)[n]
    BY DEF Inside
  <2>2. n \in 1..MaxDepth /\ n - 1 \in 0..MaxDepth
    BY <1>1, <1>4, <2>1, LevelEquation
  <2>3. PICK y \in Parts(v) : x \in Level(y)[n - 1]
    BY <2>1, <2>2, LevelsOfParts
  <2>4. QED
    BY <2>2, <2>3 DEF Inside
<1>5. QED
  BY <1>2, <1>3, <1>4

(* So everything inside a value that ends does end, inside that value. *)
LEMMA InsideEnds ==
  ASSUME NEW v, EndsBy(v, MaxDepth)
  PROVE  \A z \in Inside(v) : /\ EndsBy(z, MaxDepth)
                              /\ Inside(z) \subseteq Inside(v)
                              /\ Parts(z) \subseteq Inside(v)
<1> DEFINE Good(z) == EndsBy(z, MaxDepth) /\ Inside(z) \subseteq Inside(v)
           Right == {n \in 0..MaxDepth : \A z \in Level(v)[n] : Good(z)}
<1>1. 0..MaxDepth \subseteq Right
  <2>1. ASSUME NEW n \in 0..MaxDepth, n # 0 => n - 1 \in Right, NEW z \in Level(v)[n]
        PROVE  Good(z)
    <3>1. CASE n = 0
      BY <3>1, LevelEquation
    <3>2. CASE n # 0
      <4>1. n \in 1..MaxDepth
        BY <3>2, DepthAssumption
      <4>2. PICK y \in Level(v)[n - 1] : z \in Parts(y)
        BY <4>1, LevelEquation
      <4>3. Good(y)
        BY <2>1, <3>2
      <4>4. QED
        BY <4>2, <4>3, InsideIsClosed
    <3>3. QED
      BY <3>1, <3>2
  <2>2. \A n \in 0..MaxDepth : (n # 0 => n - 1 \in Right) => n \in Right
    <3> HIDE DEF Good
    <3>1. ASSUME NEW n \in 0..MaxDepth, n # 0 => n - 1 \in Right
          PROVE  \A z \in Level(v)[n] : Good(z)
      <4> HIDE DEF Right
      <4>1. QED
        BY <2>1, <3>1
    <3>2. QED
      BY <3>1
  <2> HIDE DEF Right
  <2>3. QED
    BY <2>2, DepthInduction
<1>2. ASSUME NEW z \in Inside(v)
      PROVE  Good(z) /\ Parts(z) \subseteq Inside(v)
  <2>1. Good(z)
    BY <1>1 DEF Inside
  <2>2. QED
    BY <2>1, InsideIsClosed
<1>3. QED
  BY <1>2

-----------------------------------------------------------------------------
(* A value that ends and is made of values of the four kinds. *)
Sound(v) == EndsBy(v, MaxDepth) /\ \A z \in Inside(v) : IsValue(z)

(* One in which no key holds an explicit null either. *)
WithoutNil(v) == \A z \in Inside(v) : IsMap(z) => \A k \in DOMAIN z.map : z.map[k] # NilValue
Plain(v) == Sound(v) /\ WithoutNil(v)

(* Everything inside a sound value is sound. *)
LEMMA SoundInside ==
  ASSUME NEW v, Sound(v)
  PROVE  /\ IsValue(v) /\ v \in Inside(v)
         /\ \A z \in Inside(v) : Sound(z)
         /\ \A z \in Parts(v) : z \in Inside(v) /\ Sound(z)
<1>1. EndsBy(v, MaxDepth) /\ \A z \in Inside(v) : IsValue(z)
  BY DEF Sound
<1>2. v \in Inside(v)
  BY <1>1, InsideIsClosed
<1>3. ASSUME NEW z \in Inside(v) PROVE Sound(z)
  BY <1>1, InsideEnds DEF Sound
<1>4. Parts(v) \subseteq Inside(v)
  BY <1>1, <1>2, InsideEnds
<1>5. QED
  BY <1>1, <1>2, <1>3, <1>4

(* The parts of a plain value are plain. *)
LEMMA PlainParts ==
  ASSUME NEW v, Plain(v)
  PROVE  /\ Sound(v)
         /\ IsMap(v) => \A k \in DOMAIN v.map : v.map[k] # NilValue
         /\ \A z \in Parts(v) : Plain(z)
<1>1. Sound(v) /\ EndsBy(v, MaxDepth) /\ WithoutNil(v)
  BY DEF Plain, Sound
<1>2. v \in Inside(v)
  BY <1>1, SoundInside
<1>3. ASSUME NEW z \in Parts(v) PROVE Plain(z)
  <2>1. Inside(z) \subseteq Inside(v)
    BY <1>1, <1>3, InsideIsClosed
  <2>2. QED
    BY <1>1, <1>3, <2>1, SoundInside DEF Plain, WithoutNil
<1>4. QED
  BY <1>1, <1>2, <1>3 DEF WithoutNil

(* A value all of whose parts are sound is sound, when it ends. *)
LEMMA SoundOfParts ==
  ASSUME NEW v, IsValue(v), EndsBy(v, MaxDepth), \A y \in Parts(v) : Sound(y)
  PROVE  Sound(v)
<1>1. ASSUME NEW z \in Inside(v) PROVE IsValue(z)
  <2>1. CASE z = v
    BY <2>1
  <2>2. CASE z # v
    BY <2>2, InsideIsClosed DEF Sound
  <2>3. QED
    BY <2>1, <2>2
<1>2. QED
  BY <1>1 DEF Sound

(* The four kinds of values, and the parts of each. *)
LEMMA KindsOfValues ==
  ASSUME NEW v, IsValue(v)
  PROVE  /\ v.kind \in {"nil", "scalar", "list", "map"}
         /\ v.kind = "nil" => v = NilValue
         /\ v.kind = "scalar" => v = ScalarValue(v.scalar)
         /\ v.kind = "list" =>
              /\ v = ListValue(v.elems) /\ v.elems \in Seq(Range(v.elems))
              /\ \A i \in 1..Len(v.elems) : v.elems[i] \in Parts(v)
         /\ v.kind = "map" =>
              /\ v = MapValue(v.map) /\ v.map = [k \in DOMAIN v.map |-> v.map[k]]
              /\ IsFiniteSet(DOMAIN v.map)
              /\ \A k \in DOMAIN v.map : v.map[k] \in Parts(v)
<1>1. v.kind = "nil" => v = NilValue
  BY DEF IsValue
<1>2. v.kind = "scalar" => v = ScalarValue(v.scalar)
  BY DEF IsValue
<1>3. CASE v.kind = "list"
  <2>1. v = ListValue(v.elems) /\ v.elems \in Seq(Range(v.elems))
    BY <1>3 DEF IsValue
  <2>2. DOMAIN v.elems = 1..Len(v.elems)
    BY <2>1
  <2>3. Parts(v) = {v.elems[i] : i \in DOMAIN v.elems}
    BY <1>3 DEF Parts, IsMap
  <2>4. QED
    BY <1>3, <2>1, <2>2, <2>3
<1>4. CASE v.kind = "map"
  <2>1. v = MapValue([k \in DOMAIN v.map |-> v.map[k]]) /\ IsFiniteSet(DOMAIN v.map)
    BY <1>4 DEF IsValue
  <2>2. v.map = [k \in DOMAIN v.map |-> v.map[k]]
    <3>1. PICK f : f = [k \in DOMAIN v.map |-> v.map[k]]
      OBVIOUS
    <3>2. v = MapValue(f)
      BY <2>1, <3>1
    <3>3. v.map = f
      BY <3>2 DEF MapValue
    <3>4. QED
      BY <3>1, <3>3
  <2>3. Parts(v) = {v.map[k] : k \in DOMAIN v.map}
    BY <1>4 DEF Parts, IsMap
  <2>4. QED
    BY <1>4, <2>1, <2>2, <2>3 DEF IsMap
<1>5. v.kind \in {"nil", "scalar", "list", "map"}
  BY DEF IsValue
<1>6. QED
  BY <1>1, <1>2, <1>3, <1>4, <1>5

-----------------------------------------------------------------------------
(* A call of equalFast reads nothing but the results for parts of its values. *)
LEMMA EqualReadsParts ==
  ASSUME NEW v, NEW w, Sound(v), Sound(w), NEW f, NEW g,
         \A x \in Parts(v), y \in Parts(w) : f[<<x, y>>] = g[<<x, y>>]
  PROVE  EqualValues(f, v, w) = EqualValues(g, v, w)
<1>1. IsValue(v) /\ IsValue(w)
  BY SoundInside
<1>2. CASE v.kind # w.kind
  BY <1>2 DEF EqualValues
<1>3. CASE v.kind = w.kind /\ v.kind = "list" /\ Len(v.elems) = Len(w.elems)
  <2>1. \A i \in 1..Len(v.elems) : v.elems[i] \in Parts(v) /\ w.elems[i] \in Parts(w)
    BY <1>1, <1>3, KindsOfValues
  <2>2. \A i \in 1..Len(v.elems) : f[<<v.elems[i], w.elems[i]>>] = g[<<v.elems[i], w.elems[i]>>]
    BY <2>1
  <2>3. QED
    BY <1>3, <2>2 DEF EqualValues, IsMap
<1>4. CASE v.kind = w.kind /\ v.kind = "list" /\ Len(v.elems) # Len(w.elems)
  BY <1>4 DEF EqualValues, IsMap
<1>5. CASE v.kind = w.kind /\ IsMap(v)
  <2>1. \A k \in DOMAIN v.map : v.map[k] \in Parts(v)
    BY <1>1, <1>5, KindsOfValues DEF IsMap
  <2>2. \A k \in DOMAIN w.map : w.map[k] \in Parts(w)
    BY <1>1, <1>5, KindsOfValues DEF IsMap
  <2>3. \A k \in DOMAIN v.map : k \in DOMAIN w.map => f[<<v.map[k], w.map[k]>>] = g[<<v.map[k], w.map[k]>>]
    BY <2>1, <2>2
  <2>4. QED
    BY <1>5, <2>3 DEF EqualValues, DiffMapsEqual, IsMap
<1>6. CASE v.kind = w.kind /\ v.kind \notin {"list", "map"}
  BY <1>6 DEF EqualValues, IsMap
<1>7. QED
  BY <1>2, <1>3, <1>4, <1>5, <1>6 DEF IsMap

(* What equalFast returns is what its calls on the values inside return. *)
LEMMA EqualFastRuns ==
  ASSUME NEW v, NEW w, Sound(v), Sound(w)
  PROVE  \E f : /\ EqualFast(v, w) = f[<<v, w>>]
                /\ \A x \in Inside(v), y \in Inside(w) : f[<<x, y>>] = EqualValues(f, x, y)
<1> DEFINE Pairs == Inside(v) \X Inside(w)
           Unfold(f) == [p \in Pairs |-> EqualValues(f, p[1], p[2])]
           equal == CHOOSE f : f = Unfold(f)
           Obeys(f, n) == \A p \in Pairs : EndsBy(p[1], n) => f[p] = EqualValues(f, p[1], p[2])
           Obeyed == {n \in 0..MaxDepth : \E f : Obeys(f, n)}
<1>1. EqualFast(v, w) = equal[<<v, w>>]
  BY DEF EqualFast
<1>2. \A p \in Pairs : /\ Sound(p[1]) /\ Sound(p[2])
                       /\ \A x \in Parts(p[1]), y \in Parts(p[2]) : <<x, y>> \in Pairs
  <2>1. ASSUME NEW p \in Pairs
        PROVE  /\ Sound(p[1]) /\ Sound(p[2])
               /\ Parts(p[1]) \subseteq Inside(v) /\ Parts(p[2]) \subseteq Inside(w)
    BY SoundInside, InsideEnds DEF Sound
  <2>2. QED
    BY <2>1
<1> HIDE DEF Pairs
<1>3. ASSUME NEW f, NEW g, NEW p \in Pairs,
             \A x \in Parts(p[1]), y \in Parts(p[2]) : f[<<x, y>>] = g[<<x, y>>]
      PROVE  EqualValues(f, p[1], p[2]) = EqualValues(g, p[1], p[2])
  <2>1. Sound(p[1]) /\ Sound(p[2])
    BY <1>2
  <2>2. QED
    BY <1>3, <2>1, EqualReadsParts
<1>4. 0..MaxDepth \subseteq Obeyed
  <2>1. ASSUME NEW n \in 0..MaxDepth, n # 0 => n - 1 \in Obeyed
        PROVE  n \in Obeyed
    <3>1. \E f : n # 0 => Obeys(f, n - 1)
      BY <2>1
    <3>2. PICK f : n # 0 => Obeys(f, n - 1)
      BY <3>1
    <3> DEFINE g == Unfold(f)
    <3>3. ASSUME NEW p \in Pairs, EndsBy(p[1], n)
          PROVE  g[p] = EqualValues(g, p[1], p[2])
      <4>1. g[p] = EqualValues(f, p[1], p[2])
        OBVIOUS
      <4>2. ASSUME NEW x \in Parts(p[1]), NEW y \in Parts(p[2])
            PROVE  f[<<x, y>>] = g[<<x, y>>]
        <5>1. n # 0 /\ EndsBy(x, n - 1)
          <6>1. n \in 1..MaxDepth /\ EndsBy(x, n - 1)
            BY <3>3, PartsEndEarlier
          <6>2. QED
            BY <6>1
        <5>2. <<x, y>> \in Pairs
          BY <1>2
        <5>3. f[<<x, y>>] = EqualValues(f, <<x, y>>[1], <<x, y>>[2])
          BY <3>2, <5>1, <5>2
        <5>4. QED
          BY <5>2, <5>3
      <4> HIDE DEF g
      <4>3. QED
        BY <1>3, <4>1, <4>2
    <3>4. Obeys(g, n)
      <4> HIDE DEF g
      <4>1. QED
        BY <3>3
    <3>5. QED
      BY <3>4
  <2> HIDE DEF Obeyed
  <2>2. QED
    BY <2>1, DepthInduction
<1>5. PICK f : \A p \in Pairs : f[p] = EqualValues(f, p[1], p[2])
  <2>1. MaxDepth \in Obeyed
    BY <1>4, DepthAssumption
  <2>2. PICK f : Obeys(f, MaxDepth)
    BY <2>1
  <2>3. \A p \in Pairs : EndsBy(p[1], MaxDepth)
    BY <1>2 DEF Sound
  <2>4. QED
    BY <2>2, <2>3
<1>6. equal = Unfold(equal)
  <2> DEFINE h == [p \in Pairs |-> f[p]]
  <2>1. ASSUME NEW p \in Pairs PROVE h[p] = EqualValues(h, p[1], p[2])
    <3>1. \A x \in Parts(p[1]), y \in Parts(p[2]) : f[<<x, y>>] = h[<<x, y>>]
      BY <1>2
    <3>2. h[p] = EqualValues(f, p[1], p[2])
      BY <1>5
    <3> HIDE DEF h
    <3>3. QED
      BY <1>3, <3>1, <3>2
  <2>2. h = Unfold(h)
    BY <2>1
  <2>3. \E r : r = Unfold(r)
    BY <2>2
  <2> HIDE DEF Unfold
  <2>4. QED
    BY <2>3
<1>7. PICK r : r = equal
  OBVIOUS
<1> HIDE DEF equal
<1>8. r = [p \in Pairs |-> EqualValues(r, p[1], p[2])]
  BY <1>6, <1>7
<1>9. ASSUME NEW x \in Inside(v), NEW y \in Inside(w)
      PROVE  r[<<x, y>>] = EqualValues(r, x, y)
  <2>1. <<x, y>> \in Pairs /\ <<x, y>>[1] = x /\ <<x, y>>[2] = y
    BY DEF Pairs
  <2>2. QED
    BY <1>8, <2>1
<1>10. QED
  BY <1>1, <1>7, <1>9

(* One call is right when the calls for the parts are. *)
LEMMA EqualStep ==
  ASSUME NEW v, NEW w, Sound(v), Sound(w), NEW f,
         \A x \in Parts(v), y \in Parts(w) : f[<<x, y>>] <=> x = y
  PROVE  EqualValues(f, v, w) <=> v = w
<1>1. IsValue(v) /\ IsValue(w)
  BY SoundInside
<1>2. CASE v.kind # w.kind
  BY <1>2 DEF EqualValues
<1>3. CASE v.kind = "nil" /\ w.kind = "nil"
  <2>1. v = w
    BY <1>1, <1>3, KindsOfValues
  <2>2. QED
    BY <1>3, <2>1 DEF EqualValues
<1>4. CASE v.kind = "scalar" /\ w.kind = "scalar"
  <2>1. v = ScalarValue(v.scalar) /\ w = ScalarValue(w.scalar)
    BY <1>1, <1>4, KindsOfValues
  <2>2. v.scalar = w.scalar => v = w
    BY <2>1
  <2>3. EqualValues(f, v, w) <=> v.scalar = w.scalar
    BY <1>4 DEF EqualValues, IsMap
  <2>4. QED
    BY <2>2, <2>3
<1>5. CASE v.kind = "list" /\ w.kind = "list"
  <2>1. /\ v = ListValue(v.elems) /\ v.elems \in Seq(Range(v.elems))
        /\ \A i \in 1..Len(v.elems) : v.elems[i] \in Parts(v)
    BY <1>1, <1>5, KindsOfValues
  <2>2. /\ w = ListValue(w.elems) /\ w.elems \in Seq(Range(w.elems))
        /\ \A i \in 1..Len(w.elems) : w.elems[i] \in Parts(w)
    BY <1>1, <1>5, KindsOfValues
  <2>3. EqualValues(f, v, w) <=> /\ Len(v.elems) = Len(w.elems)
                                 /\ \A i \in 1..Len(v.elems) : f[<<v.elems[i], w.elems[i]>>]
    BY <1>5 DEF EqualValues, IsMap
  <2>4. EqualValues(f, v, w) <=> /\ Len(v.elems) = Len(w.elems)
                                 /\ \A i \in 1..Len(v.elems) : v.elems[i] = w.elems[i]
    <3>1. ASSUME Len(v.elems) = Len(w.elems), NEW i \in 1..Len(v.elems)
          PROVE  f[<<v.elems[i], w.elems[i]>>] <=> v.elems[i] = w.elems[i]
      <4>1. v.elems[i] \in Parts(v) /\ w.elems[i] \in Parts(w)
        BY <2>1, <2>2, <3>1
      <4>2. QED
        BY <4>1
    <3>2. QED
      BY <2>3, <3>1
  <2>5. ASSUME Len(v.elems) = Len(w.elems), \A i \in 1..Len(v.elems) : v.elems[i] = w.elems[i]
        PROVE  v.elems = w.elems
    <3>1. PICK s : s = v.elems
      OBVIOUS
    <3>2. PICK t : t = w.elems
      OBVIOUS
    <3>3. s \in Seq(Range(v.elems)) /\ t \in Seq(Range(w.elems))
      BY <2>1, <2>2, <3>1, <3>2
    <3>4. Len(s) = Len(t) /\ \A i \in 1..Len(s) : s[i] = t[i]
      BY <2>5, <3>1, <3>2
    <3>5. s = [i \in 1..Len(s) |-> s[i]] /\ t = [i \in 1..Len(t) |-> t[i]]
      BY <3>3
    <3>6. s = t
      BY <3>4, <3>5
    <3>7. QED
      BY <3>1, <3>2, <3>6
  <2>6. QED
    BY <2>1, <2>2, <2>4, <2>5
<1>6. CASE IsMap(v) /\ IsMap(w)
  <2>1. /\ v = MapValue(v.map) /\ v.map = [k \in DOMAIN v.map |-> v.map[k]]
        /\ IsFiniteSet(DOMAIN v.map)
        /\ \A k \in DOMAIN v.map : v.map[k] \in Parts(v)
    BY <1>1, <1>6, KindsOfValues DEF IsMap
  <2>2. /\ w = MapValue(w.map) /\ w.map = [k \in DOMAIN w.map |-> w.map[k]]
        /\ IsFiniteSet(DOMAIN w.map)
        /\ \A k \in DOMAIN w.map : w.map[k] \in Parts(w)
    BY <1>1, <1>6, KindsOfValues DEF IsMap
  <2>3. EqualValues(f, v, w) <=>
          /\ Cardinality(DOMAIN v.map) = Cardinality(DOMAIN w.map)
          /\ \A k \in DOMAIN v.map : k \in DOMAIN w.map /\ f[<<v.map[k], w.map[k]>>]
    BY <1>6 DEF EqualValues, DiffMapsEqual, IsMap
  <2>4. EqualValues(f, v, w) <=>
          /\ Cardinality(DOMAIN v.map) = Cardinality(DOMAIN w.map)
          /\ \A k \in DOMAIN v.map : k \in DOMAIN w.map /\ v.map[k] = w.map[k]
    BY <2>1, <2>2, <2>3
  <2>5. ASSUME Cardinality(DOMAIN v.map) = Cardinality(DOMAIN w.map),
               \A k \in DOMAIN v.map : k \in DOMAIN w.map /\ v.map[k] = w.map[k]
        PROVE  v.map = w.map
    <3>1. DOMAIN v.map = DOMAIN w.map
      <4>1. DOMAIN v.map \in SUBSET DOMAIN w.map
        BY <2>5
      <4>2. QED
        BY <2>2, <2>5, <4>1, FS_Subset
    <3>2. PICK r : r = v.map
      OBVIOUS
    <3>3. PICK s : s = w.map
      OBVIOUS
    <3>4. r = [k \in DOMAIN r |-> r[k]] /\ s = [k \in DOMAIN s |-> s[k]]
      BY <2>1, <2>2, <3>2, <3>3
    <3>5. DOMAIN r = DOMAIN s /\ \A k \in DOMAIN r : r[k] = s[k]
      BY <2>5, <3>1, <3>2, <3>3
    <3>6. r = s
      BY <3>4, <3>5
    <3>7. QED
      BY <3>2, <3>3, <3>6
  <2>6. QED
    BY <2>1, <2>2, <2>4, <2>5
<1>7. QED
  BY <1>1, <1>2, <1>3, <1>4, <1>5, <1>6, KindsOfValues DEF IsMap

(* equalFast is equality, of all values that end. *)
LEMMA EqualFastIsEquality ==
  ASSUME NEW v, NEW w, Sound(v), Sound(w)
  PROVE  EqualFast(v, w) <=> v = w
<1>1. PICK f : /\ EqualFast(v, w) = f[<<v, w>>]
               /\ \A x \in Inside(v), y \in Inside(w) : f[<<x, y>>] = EqualValues(f, x, y)
  BY EqualFastRuns
<1> DEFINE Right(x, y) == f[<<x, y>>] <=> x = y
           Good == {n \in 0..MaxDepth : \A x \in Inside(v), y \in Inside(w) : EndsBy(x, n) => Right(x, y)}
<1>2. ASSUME NEW n \in 0..MaxDepth, n # 0 => n - 1 \in Good,
             NEW x \in Inside(v), NEW y \in Inside(w), EndsBy(x, n)
      PROVE  Right(x, y)
  <2>1. /\ Sound(x) /\ Parts(x) \subseteq Inside(v)
        /\ Sound(y) /\ Parts(y) \subseteq Inside(w)
    BY SoundInside, InsideEnds DEF Sound
  <2>2. ASSUME NEW p \in Parts(x), NEW q \in Parts(y)
        PROVE  f[<<p, q>>] <=> p = q
    <3>1. n \in 1..MaxDepth /\ EndsBy(p, n - 1)
      BY <1>2, PartsEndEarlier
    <3>2. n - 1 \in Good
      BY <1>2, <3>1
    <3>3. p \in Inside(v) /\ q \in Inside(w)
      BY <2>1
    <3>4. QED
      BY <3>1, <3>2, <3>3
  <2>3. EqualValues(f, x, y) <=> x = y
    BY <2>1, <2>2, EqualStep
  <2>4. QED
    BY <1>1, <2>3
<1> HIDE DEF Right
<1>3. \A n \in 0..MaxDepth : (n # 0 => n - 1 \in Good) => n \in Good
  <2>1. ASSUME NEW n \in 0..MaxDepth, n # 0 => n - 1 \in Good
        PROVE  \A x \in Inside(v), y \in Inside(w) : EndsBy(x, n) => Right(x, y)
    <3> HIDE DEF Good
    <3>1. QED
      BY <1>2, <2>1
  <2>2. QED
    BY <2>1
<1>4. MaxDepth \in Good
  <2> HIDE DEF Good
  <2>1. QED
    BY <1>3, DepthInduction, DepthAssumption
<1>5. v \in Inside(v) /\ w \in Inside(w) /\ EndsBy(v, MaxDepth)
  BY SoundInside DEF Sound
<1>6. QED
  BY <1>1, <1>4, <1>5 DEF Right

-----------------------------------------------------------------------------
(* A sound map, its values, and the maps inside it. *)
LEMMA SoundMap ==
  ASSUME NEW m, Sound(MapValue(m))
  PROVE  /\ m = [k \in DOMAIN m |-> m[k]]
         /\ IsFiniteSet(DOMAIN m)
         /\ \A k \in DOMAIN m : /\ m[k] \in Parts(MapValue(m))
                                /\ Sound(m[k])
                                /\ IsMap(m[k]) => m[k] = MapValue(m[k].map)
<1>1. IsValue(MapValue(m)) /\ MapValue(m).kind = "map" /\ MapValue(m).map = m
  BY SoundInside DEF MapValue
<1>2. PICK v : v = MapValue(m)
  OBVIOUS
<1>3. /\ v.map = [k \in DOMAIN v.map |-> v.map[k]]
      /\ IsFiniteSet(DOMAIN v.map)
      /\ \A k \in DOMAIN v.map : v.map[k] \in Parts(v)
  BY <1>1, <1>2, KindsOfValues
<1>4. ASSUME NEW k \in DOMAIN m
      PROVE  /\ m[k] \in Parts(MapValue(m))
             /\ Sound(m[k])
             /\ IsMap(m[k]) => m[k] = MapValue(m[k].map)
  <2>1. m[k] \in Parts(MapValue(m))
    BY <1>1, <1>2, <1>3
  <2>2. Sound(m[k])
    BY <2>1, SoundInside
  <2>3. IsMap(m[k]) => m[k] = MapValue(m[k].map)
    BY <2>2, SoundInside, KindsOfValues DEF IsMap
  <2>4. QED
    BY <2>1, <2>2, <2>3
<1>5. QED
  BY <1>1, <1>2, <1>3, <1>4

(* The maps inside a sound map are sound, and so are those in them. *)
LEMMA MapsInsideAreSound ==
  ASSUME NEW m, Sound(MapValue(m))
  PROVE  /\ m \in MapsInside(m)
         /\ \A x \in MapsInside(m) :
              /\ Sound(MapValue(x)) /\ MapValue(x) \in Inside(MapValue(m))
              /\ \A k \in DOMAIN x : IsMap(x[k]) => x[k].map \in MapsInside(m)
<1>1. m \in MapsInside(m)
  <2>1. MapValue(m) \in Inside(MapValue(m)) /\ IsMap(MapValue(m)) /\ MapValue(m).map = m
    BY SoundInside DEF MapValue, IsMap
  <2>2. QED
    BY <2>1 DEF MapsInside
<1>2. ASSUME NEW x \in MapsInside(m)
      PROVE  Sound(MapValue(x)) /\ MapValue(x) \in Inside(MapValue(m))
  <2>1. PICK v \in Inside(MapValue(m)) : IsMap(v) /\ x = v.map
    BY DEF MapsInside
  <2>2. Sound(v) /\ IsValue(v)
    BY SoundInside
  <2>3. v = MapValue(x)
    BY <2>1, <2>2, KindsOfValues DEF IsMap
  <2>4. QED
    BY <2>2, <2>3
<1>3. ASSUME NEW x \in MapsInside(m), NEW k \in DOMAIN x, IsMap(x[k])
      PROVE  x[k].map \in MapsInside(m)
  <2>1. x[k] \in Parts(MapValue(x))
    BY <1>2, SoundMap
  <2>2. x[k] \in Inside(MapValue(m))
    BY <1>2, <2>1, InsideEnds DEF Sound
  <2>3. QED
    BY <1>3, <2>2 DEF MapsInside
<1>4. QED
  BY <1>1, <1>2, <1>3

(* The maps in a map end a level earlier. *)
LEMMA NestedEndsEarlier ==
  ASSUME NEW m, Sound(MapValue(m)), NEW n, EndsBy(MapValue(m), n), NEW k \in DOMAIN m, IsMap(m[k])
  PROVE  n \in 1..MaxDepth /\ EndsBy(MapValue(m[k].map), n - 1) /\ Sound(MapValue(m[k].map))
<1>1. m[k] \in Parts(MapValue(m)) /\ Sound(m[k]) /\ m[k] = MapValue(m[k].map)
  BY SoundMap
<1>2. n \in 1..MaxDepth /\ EndsBy(m[k], n - 1)
  BY <1>1, PartsEndEarlier
<1>3. QED
  BY <1>1, <1>2, Zenon

-----------------------------------------------------------------------------
(* A call of diffRecursive reads nothing but the results for the maps that   *)
(* are under one key in both of its maps.                                    *)
LEMMA DiffReadsNested ==
  ASSUME NEW a, NEW b, NEW f, NEW g,
         \A k \in DOMAIN a \intersect DOMAIN b : IsMap(a[k]) /\ IsMap(b[k]) =>
           f[<<a[k].map, b[k].map>>] = g[<<a[k].map, b[k].map>>]
  PROVE  DiffMaps(f, a, b) = DiffMaps(g, a, b)
<1> DEFINE both    == DOMAIN a \intersect DOMAIN b
           changed == {k \in both : ~EqualFast(a[k], b[k])}
           nested  == {k \in changed : IsMap(a[k]) /\ IsMap(b[k])}
           recorded(h) == {k \in changed : k \in nested => h[<<a[k].map, b[k].map>>] # EmptyMap}
<1>1. \A k \in nested : f[<<a[k].map, b[k].map>>] = g[<<a[k].map, b[k].map>>]
  OBVIOUS
<1>2. recorded(f) = recorded(g)
  BY <1>1
<1> DEFINE keys(h) == (DOMAIN a \ DOMAIN b) \union (DOMAIN b \ DOMAIN a) \union recorded(h)
           value(h, k) == CASE k \notin DOMAIN b -> NilValue
                            [] k \in nested      -> MapValue(h[<<a[k].map, b[k].map>>])
                            [] OTHER             -> b[k]
<1>3. \A h : DiffMaps(h, a, b) = [k \in keys(h) |-> value(h, k)]
  BY DEF DiffMaps
<1>4. keys(f) = keys(g) /\ \A k : value(f, k) = value(g, k)
  <2> HIDE DEF recorded, nested
  <2>1. QED
    BY <1>1, <1>2
<1> HIDE DEF keys, value
<1>5. QED
  BY <1>3, <1>4

(* What Diff returns is what its calls on the maps inside return. *)
LEMMA DiffRuns ==
  ASSUME NEW a, NEW b, Sound(MapValue(a)), Sound(MapValue(b))
  PROVE  \E f : /\ Diff(a, b) = f[<<a, b>>]
                /\ \A x \in MapsInside(a), y \in MapsInside(b) : f[<<x, y>>] = DiffMaps(f, x, y)
<1> DEFINE Pairs == MapsInside(a) \X MapsInside(b)
           Unfold(f) == [p \in Pairs |-> DiffMaps(f, p[1], p[2])]
           diff == CHOOSE f : f = Unfold(f)
           Obeys(f, n) == \A p \in Pairs : EndsBy(MapValue(p[1]), n) => f[p] = DiffMaps(f, p[1], p[2])
           Obeyed == {n \in 0..MaxDepth : \E f : Obeys(f, n)}
<1>1. Diff(a, b) = diff[<<a, b>>]
  BY DEF Diff
<1>2. ASSUME NEW p \in Pairs
      PROVE  /\ Sound(MapValue(p[1]))
             /\ \A k \in DOMAIN p[1] \intersect DOMAIN p[2] :
                  IsMap(p[1][k]) /\ IsMap(p[2][k]) => <<p[1][k].map, p[2][k].map>> \in Pairs
  <2>1. p[1] \in MapsInside(a) /\ p[2] \in MapsInside(b)
    OBVIOUS
  <2>2. QED
    BY <2>1, MapsInsideAreSound
<1> HIDE DEF Pairs
<1>3. 0..MaxDepth \subseteq Obeyed
  <2>1. ASSUME NEW n \in 0..MaxDepth, n # 0 => n - 1 \in Obeyed
        PROVE  n \in Obeyed
    <3>1. \E f : n # 0 => Obeys(f, n - 1)
      BY <2>1
    <3>2. PICK f : n # 0 => Obeys(f, n - 1)
      BY <3>1
    <3> DEFINE g == Unfold(f)
    <3>3. ASSUME NEW p \in Pairs, EndsBy(MapValue(p[1]), n)
          PROVE  g[p] = DiffMaps(g, p[1], p[2])
      <4>1. g[p] = DiffMaps(f, p[1], p[2])
        OBVIOUS
      <4>2. ASSUME NEW k \in DOMAIN p[1] \intersect DOMAIN p[2], IsMap(p[1][k]), IsMap(p[2][k])
            PROVE  f[<<p[1][k].map, p[2][k].map>>] = g[<<p[1][k].map, p[2][k].map>>]
        <5>1. n # 0 /\ EndsBy(MapValue(p[1][k].map), n - 1)
          <6>1. n \in 1..MaxDepth /\ EndsBy(MapValue(p[1][k].map), n - 1)
            BY <1>2, <3>3, <4>2, NestedEndsEarlier
          <6>2. QED
            BY <6>1
        <5>2. PICK q \in Pairs : q = <<p[1][k].map, p[2][k].map>>
          BY <1>2, <4>2
        <5>3. q[1] = p[1][k].map
          BY <5>2
        <5>4. f[q] = DiffMaps(f, q[1], q[2])
          BY <3>2, <5>1, <5>3
        <5>5. QED
          BY <5>2, <5>4
      <4> HIDE DEF g
      <4>3. QED
        BY <4>1, <4>2, DiffReadsNested
    <3>4. Obeys(g, n)
      <4> HIDE DEF g
      <4>1. QED
        BY <3>3
    <3>5. QED
      BY <3>4
  <2> HIDE DEF Obeyed
  <2>2. QED
    BY <2>1, DepthInduction
<1>4. PICK f : \A p \in Pairs : f[p] = DiffMaps(f, p[1], p[2])
  <2>1. MaxDepth \in Obeyed
    BY <1>3, DepthAssumption
  <2>2. PICK f : Obeys(f, MaxDepth)
    BY <2>1
  <2>3. QED
    BY <1>2, <2>2 DEF Sound
<1>5. diff = Unfold(diff)
  <2> DEFINE h == [p \in Pairs |-> f[p]]
  <2>1. ASSUME NEW p \in Pairs PROVE h[p] = DiffMaps(h, p[1], p[2])
    <3>1. \A k \in DOMAIN p[1] \intersect DOMAIN p[2] : IsMap(p[1][k]) /\ IsMap(p[2][k]) =>
            f[<<p[1][k].map, p[2][k].map>>] = h[<<p[1][k].map, p[2][k].map>>]
      BY <1>2
    <3>2. h[p] = DiffMaps(f, p[1], p[2])
      BY <1>4
    <3> HIDE DEF h
    <3>3. QED
      BY <3>1, <3>2, DiffReadsNested
  <2>2. \E r : r = Unfold(r)
    BY <2>1
  <2> HIDE DEF Unfold
  <2>3. QED
    BY <2>2
<1>6. PICK r : r = diff
  OBVIOUS
<1> HIDE DEF diff
<1>7. r = [p \in Pairs |-> DiffMaps(r, p[1], p[2])]
  BY <1>5, <1>6
<1>8. ASSUME NEW x \in MapsInside(a), NEW y \in MapsInside(b)
      PROVE  r[<<x, y>>] = DiffMaps(r, x, y)
  <2>1. <<x, y>> \in Pairs /\ <<x, y>>[1] = x /\ <<x, y>>[2] = y
    BY DEF Pairs
  <2>2. QED
    BY <1>7, <2>1
<1>9. QED
  BY <1>1, <1>6, <1>8

(* The keys under which two maps have different maps. *)
ChangedMaps(a, b) ==
  {k \in DOMAIN a \intersect DOMAIN b : a[k] # b[k] /\ IsMap(a[k]) /\ IsMap(b[k])}

(* The change-set of two maps: its keys, and the value of each. *)
Recorded(chg, f, a, b) ==
  /\ chg = [k \in DOMAIN chg |-> chg[k]]
  /\ \A k : k \in DOMAIN chg <=>
              \/ k \in DOMAIN a \ DOMAIN b
              \/ k \in DOMAIN b \ DOMAIN a
              \/ /\ k \in DOMAIN a \intersect DOMAIN b
                 /\ a[k] # b[k]
                 /\ k \in ChangedMaps(a, b) => f[<<a[k].map, b[k].map>>] # EmptyMap
  /\ \A k \in DOMAIN chg :
       /\ k \notin DOMAIN b => chg[k] = NilValue
       /\ k \in ChangedMaps(a, b) => chg[k] = MapValue(f[<<a[k].map, b[k].map>>])
       /\ k \in DOMAIN b \ ChangedMaps(a, b) => chg[k] = b[k]

(* What a call of diffRecursive writes for two sound maps, equalFast being   *)
(* equality.                                                                 *)
LEMMA DiffWrites ==
  ASSUME NEW a, NEW b, Sound(MapValue(a)), Sound(MapValue(b)), NEW f
  PROVE  Recorded(DiffMaps(f, a, b), f, a, b)
<1> SUFFICES ASSUME NEW chg, chg = DiffMaps(f, a, b)
             PROVE  Recorded(chg, f, a, b)
  OBVIOUS
<1> DEFINE both    == DOMAIN a \intersect DOMAIN b
           changed == {k \in both : ~EqualFast(a[k], b[k])}
           nested  == {k \in changed : IsMap(a[k]) /\ IsMap(b[k])}
           writes  == (DOMAIN a \ DOMAIN b) \union (DOMAIN b \ DOMAIN a)
                        \union {k \in changed : k \in nested => f[<<a[k].map, b[k].map>>] # EmptyMap}
<1>1. changed = {k \in both : a[k] # b[k]}
  <2>1. \A k \in both : EqualFast(a[k], b[k]) <=> a[k] = b[k]
    BY SoundMap, EqualFastIsEquality
  <2>2. QED
    BY <2>1
<1>2. DiffMaps(f, a, b) =
        [k \in writes |->
           CASE k \notin DOMAIN b -> NilValue
             [] k \in nested      -> MapValue(f[<<a[k].map, b[k].map>>])
             [] OTHER             -> b[k]]
  BY DEF DiffMaps
<1>4. DOMAIN chg = writes
  BY <1>2
<1>5. \A k \in writes : /\ k \notin DOMAIN b => chg[k] = NilValue
                        /\ k \in nested => chg[k] = MapValue(f[<<a[k].map, b[k].map>>])
                        /\ k \in DOMAIN b \ nested => chg[k] = b[k]
  <2>1. nested \subseteq DOMAIN b
    OBVIOUS
  <2> HIDE DEF nested, writes
  <2>2. QED
    BY <1>2, <2>1
<1>6. chg = [k \in DOMAIN chg |-> chg[k]]
  <2> HIDE DEF writes, nested
  <2>1. QED
    BY <1>2
<1>7. nested = ChangedMaps(a, b)
  BY <1>1 DEF ChangedMaps
<1>8. \A k : k \in writes <=> \/ k \in DOMAIN a \ DOMAIN b
                              \/ k \in DOMAIN b \ DOMAIN a
                              \/ /\ k \in both /\ a[k] # b[k]
                                 /\ k \in nested => f[<<a[k].map, b[k].map>>] # EmptyMap
  <2> HIDE DEF nested
  <2>1. QED
    BY <1>1
<1> HIDE DEF writes, nested
<1>9. QED
  BY <1>4, <1>5, <1>6, <1>7, <1>8 DEF Recorded

-----------------------------------------------------------------------------
(* Two maps between which every call of diffRecursive is made, and its       *)
(* results: what the next lemmas are about.                                  *)
DiffRun(f, a, b) ==
  /\ Sound(MapValue(a)) /\ Sound(MapValue(b))
  /\ \A x \in MapsInside(a), y \in MapsInside(b) : f[<<x, y>>] = DiffMaps(f, x, y)

(* The change-set is empty between equal maps and between no others. *)
LEMMA EmptyDiffIsEquality ==
  ASSUME NEW a, NEW b, NEW f, DiffRun(f, a, b)
  PROVE  \A x \in MapsInside(a), y \in MapsInside(b) : f[<<x, y>>] = EmptyMap <=> x = y
<1> DEFINE Right(x, y) == f[<<x, y>>] = EmptyMap <=> x = y
           Good == {n \in 0..MaxDepth :
                      \A x \in MapsInside(a), y \in MapsInside(b) : EndsBy(MapValue(x), n) => Right(x, y)}
<1>1. Sound(MapValue(a)) /\ Sound(MapValue(b))
  BY DEF DiffRun
<1>2. ASSUME NEW n \in 0..MaxDepth, n # 0 => n - 1 \in Good,
             NEW x \in MapsInside(a), NEW y \in MapsInside(b), EndsBy(MapValue(x), n)
      PROVE  Right(x, y)
  <2>1. /\ Sound(MapValue(x)) /\ \A k \in DOMAIN x : IsMap(x[k]) => x[k].map \in MapsInside(a)
        /\ Sound(MapValue(y)) /\ \A k \in DOMAIN y : IsMap(y[k]) => y[k].map \in MapsInside(b)
    BY <1>1, MapsInsideAreSound
  <2>2. ASSUME NEW k \in DOMAIN x \intersect DOMAIN y, IsMap(x[k]), IsMap(y[k]), x[k] # y[k]
        PROVE  f[<<x[k].map, y[k].map>>] # EmptyMap
    <3>1. n \in 1..MaxDepth /\ EndsBy(MapValue(x[k].map), n - 1)
      BY <1>2, <2>1, <2>2, NestedEndsEarlier
    <3>2. n - 1 \in Good
      BY <1>2, <3>1
    <3>3. Right(x[k].map, y[k].map)
      BY <2>1, <2>2, <3>1, <3>2
    <3>4. x[k] = MapValue(x[k].map) /\ y[k] = MapValue(y[k].map)
      BY <2>1, <2>2, SoundMap
    <3>5. x[k].map # y[k].map
      BY <2>2, <3>4, Zenon
    <3>6. QED
      BY <3>3, <3>5
  <2>3. PICK chg : chg = f[<<x, y>>]
    OBVIOUS
  <2>4. chg = DiffMaps(f, x, y)
    BY <2>3 DEF DiffRun
  <2>5. /\ chg = [k \in DOMAIN chg |-> chg[k]]
        /\ \A k : k \in DOMAIN chg <=> \/ k \in DOMAIN x \ DOMAIN y
                                       \/ k \in DOMAIN y \ DOMAIN x
                                       \/ k \in DOMAIN x \intersect DOMAIN y /\ x[k] # y[k]
    <3>1. /\ chg = [k \in DOMAIN chg |-> chg[k]]
          /\ \A k : k \in DOMAIN chg <=>
                      \/ k \in DOMAIN x \ DOMAIN y
                      \/ k \in DOMAIN y \ DOMAIN x
                      \/ /\ k \in DOMAIN x \intersect DOMAIN y
                         /\ x[k] # y[k]
                         /\ k \in ChangedMaps(x, y) => f[<<x[k].map, y[k].map>>] # EmptyMap
      <4>1. Recorded(chg, f, x, y)
        BY <2>1, <2>4, DiffWrites
      <4>2. QED
        BY <4>1 DEF Recorded
    <3>2. \A k \in ChangedMaps(x, y) : f[<<x[k].map, y[k].map>>] # EmptyMap
      BY <2>2 DEF ChangedMaps
    <3>3. QED
      BY <3>1, <3>2
  <2>6. chg = EmptyMap <=> DOMAIN chg = {}
    BY <2>5 DEF EmptyMap
  <2>7. x = [k \in DOMAIN x |-> x[k]] /\ y = [k \in DOMAIN y |-> y[k]]
    BY <2>1, SoundMap
  <2>8. DOMAIN chg = {} <=> DOMAIN x = DOMAIN y /\ \A k \in DOMAIN x : x[k] = y[k]
    BY <2>5
  <2>9. (DOMAIN x = DOMAIN y /\ \A k \in DOMAIN x : x[k] = y[k]) <=> x = y
    BY <2>7
  <2>10. QED
    BY <2>3, <2>6, <2>8, <2>9
<1> HIDE DEF Right
<1>3. \A n \in 0..MaxDepth : (n # 0 => n - 1 \in Good) => n \in Good
  <2>1. ASSUME NEW n \in 0..MaxDepth, n # 0 => n - 1 \in Good
        PROVE  \A x \in MapsInside(a), y \in MapsInside(b) : EndsBy(MapValue(x), n) => Right(x, y)
    <3> HIDE DEF Good
    <3>1. QED
      BY <1>2, <2>1
  <2>2. QED
    BY <2>1
<1>4. MaxDepth \in Good
  <2> HIDE DEF Good
  <2>1. QED
    BY <1>3, DepthInduction, DepthAssumption
<1>5. \A x \in MapsInside(a) : EndsBy(MapValue(x), MaxDepth)
  BY <1>1, MapsInsideAreSound DEF Sound
<1>6. QED
  BY <1>4, <1>5 DEF Right

-----------------------------------------------------------------------------
(* A map is sound and ends a level later than its values, when these do.     *)
LEMMA SoundOfValues ==
  ASSUME NEW m, m = [k \in DOMAIN m |-> m[k]], IsFiniteSet(DOMAIN m), NEW n \in 0..MaxDepth,
         \A k \in DOMAIN m : n # 0 /\ Sound(m[k]) /\ EndsBy(m[k], n - 1)
  PROVE  Sound(MapValue(m)) /\ EndsBy(MapValue(m), n)
<1>1. PICK v : v = MapValue(m)
  OBVIOUS
<1>2. v.kind = "map" /\ v.map = m
  BY <1>1 DEF MapValue
<1>3. Parts(v) = {m[k] : k \in DOMAIN m}
  BY <1>2 DEF Parts, IsMap
<1>4. IsValue(v)
  <2>1. v = MapValue([k \in DOMAIN v.map |-> v.map[k]])
    BY <1>1, <1>2, Zenon
  <2>2. QED
    BY <1>2, <2>1 DEF IsValue
<1>5. EndsBy(v, n)
  <2>1. \A y \in Parts(v) : n # 0 /\ EndsBy(y, n - 1)
    BY <1>3
  <2>2. QED
    BY <2>1, EndsWithItsParts
<1>6. EndsBy(v, MaxDepth)
  <2>1. MaxDepth \in n..MaxDepth
    BY DepthAssumption
  <2>2. QED
    BY <1>5, <2>1, EndsAtTheLatest
<1>7. Sound(v)
  BY <1>3, <1>4, <1>6, SoundOfParts
<1>8. QED
  BY <1>1, <1>5, <1>7

(* A nil is sound and ends where it begins. *)
LEMMA NilIsSound ==
  Sound(NilValue) /\ \A n \in 0..MaxDepth : EndsBy(NilValue, n)
<1>1. Parts(NilValue) = {} /\ IsValue(NilValue)
  BY DEF Parts, IsMap, IsValue, NilValue
<1>2. ASSUME NEW n \in 0..MaxDepth PROVE EndsBy(NilValue, n)
  BY <1>1, EndsWithItsParts
<1>3. EndsBy(NilValue, MaxDepth)
  BY <1>2, DepthAssumption
<1>4. QED
  BY <1>1, <1>2, <1>3, SoundOfParts

(* And so is the empty map, inside which there is no other. *)
LEMMA EmptyMapIsSound ==
  Sound(MapValue(EmptyMap)) /\ MapsInside(EmptyMap) = {EmptyMap}
<1>1. DOMAIN EmptyMap = {} /\ EmptyMap = [k \in DOMAIN EmptyMap |-> EmptyMap[k]]
  BY DEF EmptyMap
<1>2. IsFiniteSet(DOMAIN EmptyMap)
  BY <1>1, FS_EmptySet
<1>3. PICK m : m = EmptyMap
  OBVIOUS
<1>4. Sound(MapValue(m))
  <2>1. m = [k \in DOMAIN m |-> m[k]] /\ IsFiniteSet(DOMAIN m) /\ DOMAIN m = {}
    BY <1>1, <1>2, <1>3
  <2>2. \A k \in DOMAIN m : MaxDepth # 0 /\ Sound(m[k]) /\ EndsBy(m[k], MaxDepth - 1)
    BY <2>1
  <2>3. MaxDepth \in 0..MaxDepth
    BY DepthAssumption
  <2>4. QED
    BY <2>1, <2>2, <2>3, SoundOfValues
<1>5. PICK v : v = MapValue(m)
  OBVIOUS
<1>6. v.map = m /\ IsMap(v) /\ Parts(v) = {}
  BY <1>1, <1>3, <1>5 DEF MapValue, IsMap, Parts
<1>7. Inside(v) = {v}
  BY <1>4, <1>5, <1>6, InsideIsClosed DEF Sound
<1>8. MapsInside(m) = {m}
  BY <1>5, <1>6, <1>7 DEF MapsInside
<1>9. QED
  BY <1>3, <1>4, <1>8

(* A change-set is as sound as the maps it is between. *)
LEMMA DiffIsSound ==
  ASSUME NEW a, NEW b, NEW f, DiffRun(f, a, b)
  PROVE  \A x \in MapsInside(a), y \in MapsInside(b) : Sound(MapValue(f[<<x, y>>]))
<1> DEFINE Ends(x, y, n) == EndsBy(MapValue(x), n) /\ EndsBy(MapValue(y), n)
           Right(x, y, n) == Sound(MapValue(f[<<x, y>>])) /\ EndsBy(MapValue(f[<<x, y>>]), n)
           Good == {n \in 0..MaxDepth :
                      \A x \in MapsInside(a), y \in MapsInside(b) : Ends(x, y, n) => Right(x, y, n)}
<1>1. Sound(MapValue(a)) /\ Sound(MapValue(b))
  BY DEF DiffRun
<1>2. ASSUME NEW n \in 0..MaxDepth, n # 0 => n - 1 \in Good,
             NEW x \in MapsInside(a), NEW y \in MapsInside(b), Ends(x, y, n)
      PROVE  Right(x, y, n)
  <2>1. /\ Sound(MapValue(x)) /\ \A k \in DOMAIN x : IsMap(x[k]) => x[k].map \in MapsInside(a)
        /\ Sound(MapValue(y)) /\ \A k \in DOMAIN y : IsMap(y[k]) => y[k].map \in MapsInside(b)
    BY <1>1, MapsInsideAreSound
  <2>2. PICK chg : chg = f[<<x, y>>]
    OBVIOUS
  <2>3. chg = DiffMaps(f, x, y)
    BY <2>2 DEF DiffRun
  <2> DEFINE nested == ChangedMaps(x, y)
  <2>4. /\ chg = [k \in DOMAIN chg |-> chg[k]]
        /\ DOMAIN chg \subseteq DOMAIN x \union DOMAIN y
        /\ \A k \in DOMAIN chg :
             /\ k \notin DOMAIN y => chg[k] = NilValue
             /\ k \in nested => chg[k] = MapValue(f[<<x[k].map, y[k].map>>])
             /\ k \in DOMAIN y \ nested => chg[k] = y[k]
    <3>1. Recorded(chg, f, x, y)
      BY <2>1, <2>3, DiffWrites
    <3>2. QED
      BY <3>1 DEF Recorded
  <2>5. IsFiniteSet(DOMAIN chg)
    <3>1. IsFiniteSet(DOMAIN x \union DOMAIN y)
      BY <2>1, SoundMap, FS_Union
    <3>2. QED
      BY <2>4, <3>1, FS_Subset
  <2>6. ASSUME NEW k \in DOMAIN chg
        PROVE  n # 0 /\ Sound(chg[k]) /\ EndsBy(chg[k], n - 1)
    <3>1. k \in DOMAIN x \union DOMAIN y
      BY <2>4
    <3>2. n \in 1..MaxDepth
      <4>1. CASE k \in DOMAIN x
        BY <1>2, <2>1, <4>1, SoundMap, PartsEndEarlier
      <4>2. CASE k \in DOMAIN y
        BY <1>2, <2>1, <4>2, SoundMap, PartsEndEarlier
      <4>3. QED
        BY <3>1, <4>1, <4>2
    <3>3. n # 0 /\ n - 1 \in 0..MaxDepth
      BY <3>2, DepthAssumption
    <3>4. CASE k \notin DOMAIN y
      BY <2>4, <3>3, <3>4, NilIsSound
    <3>5. CASE k \in nested
      <4>1. EndsBy(MapValue(x[k].map), n - 1) /\ EndsBy(MapValue(y[k].map), n - 1)
        BY <1>2, <2>1, <3>5, NestedEndsEarlier DEF ChangedMaps
      <4>2. x[k].map \in MapsInside(a) /\ y[k].map \in MapsInside(b)
        BY <2>1, <3>5 DEF ChangedMaps
      <4>3. n - 1 \in Good
        BY <1>2, <3>3
      <4>4. Right(x[k].map, y[k].map, n - 1)
        BY <4>1, <4>2, <4>3
      <4>5. chg[k] = MapValue(f[<<x[k].map, y[k].map>>])
        BY <2>4, <3>5
      <4>6. QED
        BY <3>3, <4>4, <4>5
    <3>6. CASE k \in DOMAIN y \ nested
      <4>1. y[k] \in Parts(MapValue(y)) /\ Sound(y[k])
        BY <2>1, <3>6, SoundMap
      <4>2. EndsBy(y[k], n - 1)
        BY <1>2, <4>1, PartsEndEarlier
      <4>3. chg[k] = y[k]
        BY <2>4, <3>6
      <4>4. QED
        BY <3>3, <4>1, <4>2, <4>3
    <3>7. QED
      BY <3>4, <3>5, <3>6
  <2>7. Sound(MapValue(chg)) /\ EndsBy(MapValue(chg), n)
    BY <2>4, <2>5, <2>6, SoundOfValues
  <2>8. QED
    BY <2>2, <2>7
<1> HIDE DEF Right, Ends
<1>3. \A n \in 0..MaxDepth : (n # 0 => n - 1 \in Good) => n \in Good
  <2>1. ASSUME NEW n \in 0..MaxDepth, n # 0 => n - 1 \in Good
        PROVE  \A x \in MapsInside(a), y \in MapsInside(b) : Ends(x, y, n) => Right(x, y, n)
    <3> HIDE DEF Good
    <3>1. QED
      BY <1>2, <2>1
  <2>2. QED
    BY <2>1
<1>4. MaxDepth \in Good
  <2> HIDE DEF Good
  <2>1. QED
    BY <1>3, DepthInduction, DepthAssumption
<1>5. \A x \in MapsInside(a), y \in MapsInside(b) : Ends(x, y, MaxDepth)
  BY <1>1, MapsInsideAreSound DEF Sound, Ends
<1>6. QED
  BY <1>4, <1>5 DEF Right

-----------------------------------------------------------------------------
(* What a call of applyRecursive leaves in dst: its keys, and their values. *)
Applied(r, apply, dst, chg) ==
  /\ r = [k \in DOMAIN r |-> r[k]]
  /\ \A k : k \in DOMAIN r <=> /\ k \in DOMAIN dst \union DOMAIN chg
                               /\ k \in DOMAIN chg => chg[k] # NilValue
  /\ \A k \in DOMAIN r :
       /\ k \notin DOMAIN chg => r[k] = dst[k]
       /\ k \in DOMAIN chg /\ IsMap(chg[k]) => r[k] = MapValue(apply[<<NestedMap(dst, k), chg[k].map>>])
       /\ k \in DOMAIN chg /\ ~IsMap(chg[k]) => r[k] = chg[k]

(* A call of applyRecursive leaves just that. *)
LEMMA ApplyWrites ==
  ASSUME NEW apply, NEW dst, NEW chg
  PROVE  Applied(ApplyMaps(apply, dst, chg), apply, dst, chg)
<1> DEFINE keys == (DOMAIN dst \union DOMAIN chg) \ {k \in DOMAIN chg : chg[k] = NilValue}
<1>1. PICK r : r = ApplyMaps(apply, dst, chg)
  OBVIOUS
<1>2. r = [k \in keys |->
             IF k \notin DOMAIN chg THEN dst[k]
             ELSE IF IsMap(chg[k])  THEN MapValue(apply[<<NestedMap(dst, k), chg[k].map>>])
             ELSE chg[k]]
  BY <1>1 DEF ApplyMaps
<1>3. \A k : k \in keys <=> /\ k \in DOMAIN dst \union DOMAIN chg
                            /\ k \in DOMAIN chg => chg[k] # NilValue
  OBVIOUS
<1> HIDE DEF keys
<1>4. DOMAIN r = keys /\ r = [k \in DOMAIN r |-> r[k]]
  BY <1>2
<1>5. \A k \in keys :
        /\ k \notin DOMAIN chg => r[k] = dst[k]
        /\ k \in DOMAIN chg /\ IsMap(chg[k]) => r[k] = MapValue(apply[<<NestedMap(dst, k), chg[k].map>>])
        /\ k \in DOMAIN chg /\ ~IsMap(chg[k]) => r[k] = chg[k]
  BY <1>2
<1>6. Applied(r, apply, dst, chg)
  BY <1>3, <1>4, <1>5 DEF Applied
<1>7. QED
  BY <1>1, <1>6

(* A call of applyRecursive reads nothing but the results for the maps of    *)
(* the change-set.                                                           *)
LEMMA ApplyReadsNested ==
  ASSUME NEW dst, NEW chg, NEW f, NEW g,
         \A k \in DOMAIN chg : IsMap(chg[k]) =>
           f[<<NestedMap(dst, k), chg[k].map>>] = g[<<NestedMap(dst, k), chg[k].map>>]
  PROVE  ApplyMaps(f, dst, chg) = ApplyMaps(g, dst, chg)
BY DEF ApplyMaps

(* A map, a change-set and the results of all calls applying it makes. *)
ApplyRun(f, dst, chg) ==
  /\ Sound(MapValue(dst)) /\ Sound(MapValue(chg))
  /\ \A x \in MapsInside(dst) \union {EmptyMap}, y \in MapsInside(chg) : f[<<x, y>>] = ApplyMaps(f, x, y)

(* The map an entry is applied to is inside dst or a fresh one. *)
LEMMA NestedMapIsInside ==
  ASSUME NEW dst, Sound(MapValue(dst)), NEW x \in MapsInside(dst) \union {EmptyMap}, NEW k
  PROVE  NestedMap(x, k) \in MapsInside(dst) \union {EmptyMap}
<1>1. CASE k \in DOMAIN x /\ IsMap(x[k])
  <2>1. x # EmptyMap
    BY <1>1 DEF EmptyMap
  <2>2. QED
    BY <1>1, <2>1, MapsInsideAreSound DEF NestedMap
<1>2. CASE ~(k \in DOMAIN x /\ IsMap(x[k]))
  BY <1>2 DEF NestedMap
<1>3. QED
  BY <1>1, <1>2

(* What Apply returns is what its calls on the maps inside return. *)
LEMMA ApplyRuns ==
  ASSUME NEW dst, NEW chg, Sound(MapValue(dst)), Sound(MapValue(chg))
  PROVE  \E f : ApplyRun(f, dst, chg) /\ Apply(dst, chg) = f[<<dst, chg>>]
<1> DEFINE Pairs == (MapsInside(dst) \union {EmptyMap}) \X MapsInside(chg)
           Unfold(f) == [p \in Pairs |-> ApplyMaps(f, p[1], p[2])]
           apply == CHOOSE f : f = Unfold(f)
           Obeys(f, n) == \A p \in Pairs : EndsBy(MapValue(p[2]), n) => f[p] = ApplyMaps(f, p[1], p[2])
           Obeyed == {n \in 0..MaxDepth : \E f : Obeys(f, n)}
<1>1. Apply(dst, chg) = IF chg = EmptyMap THEN dst ELSE apply[<<dst, chg>>]
  BY DEF Apply
<1>2. ASSUME NEW p \in Pairs
      PROVE  /\ Sound(MapValue(p[2]))
             /\ \A k \in DOMAIN p[2] : IsMap(p[2][k]) => <<NestedMap(p[1], k), p[2][k].map>> \in Pairs
  <2>1. p[1] \in MapsInside(dst) \union {EmptyMap} /\ p[2] \in MapsInside(chg)
    OBVIOUS
  <2>2. \A k : NestedMap(p[1], k) \in MapsInside(dst) \union {EmptyMap}
    BY <2>1, NestedMapIsInside
  <2>3. QED
    BY <2>1, <2>2, MapsInsideAreSound
<1>3. ASSUME NEW x \in MapsInside(dst) \union {EmptyMap}, NEW y \in MapsInside(chg)
      PROVE  <<x, y>> \in Pairs /\ <<x, y>>[1] = x /\ <<x, y>>[2] = y
  OBVIOUS
<1> HIDE DEF Pairs
<1>4. 0..MaxDepth \subseteq Obeyed
  <2>1. ASSUME NEW n \in 0..MaxDepth, n # 0 => n - 1 \in Obeyed
        PROVE  n \in Obeyed
    <3>1. \E f : n # 0 => Obeys(f, n - 1)
      BY <2>1
    <3>2. PICK f : n # 0 => Obeys(f, n - 1)
      BY <3>1
    <3> DEFINE g == Unfold(f)
    <3>3. ASSUME NEW p \in Pairs, EndsBy(MapValue(p[2]), n)
          PROVE  g[p] = ApplyMaps(g, p[1], p[2])
      <4>1. g[p] = ApplyMaps(f, p[1], p[2])
        OBVIOUS
      <4>2. ASSUME NEW k \in DOMAIN p[2], IsMap(p[2][k])
            PROVE  f[<<NestedMap(p[1], k), p[2][k].map>>] = g[<<NestedMap(p[1], k), p[2][k].map>>]
        <5>1. n # 0 /\ EndsBy(MapValue(p[2][k].map), n - 1)
          <6>1. n \in 1..MaxDepth /\ EndsBy(MapValue(p[2][k].map), n - 1)
            BY <1>2, <3>3, <4>2, NestedEndsEarlier
          <6>2. QED
            BY <6>1
        <5>2. PICK q \in Pairs : q = <<NestedMap(p[1], k), p[2][k].map>>
          BY <1>2, <4>2
        <5>3. q[2] = p[2][k].map
          BY <5>2
        <5>4. f[q] = ApplyMaps(f, q[1], q[2])
          BY <3>2, <5>1, <5>3
        <5>5. QED
          BY <5>2, <5>4
      <4> HIDE DEF g
      <4>3. QED
        BY <4>1, <4>2, ApplyReadsNested
    <3>4. Obeys(g, n)
      <4> HIDE DEF g
      <4>1. QED
        BY <3>3
    <3>5. QED
      BY <3>4
  <2> HIDE DEF Obeyed
  <2>2. QED
    BY <2>1, DepthInduction
<1>5. PICK f : \A p \in Pairs : f[p] = ApplyMaps(f, p[1], p[2])
  <2>1. MaxDepth \in Obeyed
    BY <1>4, DepthAssumption
  <2>2. PICK f : Obeys(f, MaxDepth)
    BY <2>1
  <2>3. QED
    BY <1>2, <2>2 DEF Sound
<1>6. apply = Unfold(apply)
  <2> DEFINE h == [p \in Pairs |-> f[p]]
  <2>1. ASSUME NEW p \in Pairs PROVE h[p] = ApplyMaps(h, p[1], p[2])
    <3>1. \A k \in DOMAIN p[2] : IsMap(p[2][k]) =>
            f[<<NestedMap(p[1], k), p[2][k].map>>] = h[<<NestedMap(p[1], k), p[2][k].map>>]
      BY <1>2
    <3>2. h[p] = ApplyMaps(f, p[1], p[2])
      BY <1>5
    <3> HIDE DEF h
    <3>3. QED
      BY <3>1, <3>2, ApplyReadsNested
  <2>2. \E r : r = Unfold(r)
    BY <2>1
  <2> HIDE DEF Unfold
  <2>3. QED
    BY <2>2
<1>7. PICK r : r = apply
  OBVIOUS
<1> HIDE DEF apply
<1>8. r = [p \in Pairs |-> ApplyMaps(r, p[1], p[2])]
  BY <1>6, <1>7
<1>9. ApplyRun(r, dst, chg)
  BY <1>3, <1>8 DEF ApplyRun
<1>10. ASSUME chg = EmptyMap
       PROVE  r[<<dst, chg>>] = dst
  <2>1. PICK d : d = r[<<dst, chg>>]
    OBVIOUS
  <2>2. d = ApplyMaps(r, dst, chg)
    BY <1>9, <2>1, MapsInsideAreSound DEF ApplyRun
  <2>3. Applied(d, r, dst, chg)
    BY <2>2, ApplyWrites
  <2>4. DOMAIN d = DOMAIN dst /\ \A k \in DOMAIN d : d[k] = dst[k]
    BY <1>10, <2>3 DEF Applied, EmptyMap
  <2>5. d = [k \in DOMAIN d |-> d[k]] /\ dst = [k \in DOMAIN dst |-> dst[k]]
    BY <2>3, SoundMap DEF Applied
  <2>6. d = dst
    BY <2>4, <2>5
  <2>7. QED
    BY <2>1, <2>6
<1>11. QED
  BY <1>1, <1>7, <1>9, <1>10

-----------------------------------------------------------------------------
(* A plain map holds no explicit null, and neither do the maps in it. *)
LEMMA PlainMap ==
  ASSUME NEW m, Plain(MapValue(m))
  PROVE  /\ Sound(MapValue(m))
         /\ \A k \in DOMAIN m : /\ m[k] # NilValue
                                /\ IsMap(m[k]) => Plain(MapValue(m[k].map))
<1>1. MapValue(m).map = m /\ IsMap(MapValue(m)) /\ Sound(MapValue(m))
  BY PlainParts DEF MapValue, IsMap
<1>2. \A k \in DOMAIN m : m[k] # NilValue
  BY <1>1, PlainParts
<1>3. ASSUME NEW k \in DOMAIN m, IsMap(m[k])
      PROVE  Plain(MapValue(m[k].map))
  <2>1. m[k] \in Parts(MapValue(m)) /\ m[k] = MapValue(m[k].map)
    BY <1>1, <1>3, SoundMap
  <2>2. Plain(m[k])
    BY <2>1, PlainParts
  <2>3. QED
    BY <2>1, <2>2, Zenon
<1>4. QED
  BY <1>1, <1>2, <1>3

(* Applied to a fresh map, a change-set without nil is copied. *)
LEMMA FreshMapIsCopied ==
  ASSUME NEW g, NEW dst, NEW chg, ApplyRun(g, dst, chg)
  PROVE  \A y \in MapsInside(chg) : Plain(MapValue(y)) => g[<<EmptyMap, y>>] = y
<1> DEFINE Right(y) == Plain(MapValue(y)) => g[<<EmptyMap, y>>] = y
           Good == {n \in 0..MaxDepth : \A y \in MapsInside(chg) : EndsBy(MapValue(y), n) => Right(y)}
<1>1. Sound(MapValue(chg))
  BY DEF ApplyRun
<1>2. ASSUME NEW n \in 0..MaxDepth, n # 0 => n - 1 \in Good,
             NEW y \in MapsInside(chg), EndsBy(MapValue(y), n)
      PROVE  Right(y)
  <2> SUFFICES ASSUME Plain(MapValue(y)) PROVE g[<<EmptyMap, y>>] = y
    OBVIOUS
  <2>1. Sound(MapValue(y)) /\ \A k \in DOMAIN y : IsMap(y[k]) => y[k].map \in MapsInside(chg)
    BY <1>1, MapsInsideAreSound
  <2>2. \A k \in DOMAIN y : y[k] # NilValue /\ (IsMap(y[k]) => Plain(MapValue(y[k].map)))
    BY PlainMap
  <2>3. PICK r : r = g[<<EmptyMap, y>>]
    OBVIOUS
  <2>4. Applied(r, g, EmptyMap, y)
    <3>1. r = ApplyMaps(g, EmptyMap, y)
      BY <2>3 DEF ApplyRun
    <3>2. QED
      BY <3>1, ApplyWrites
  <2>5. r = [k \in DOMAIN r |-> r[k]] /\ DOMAIN r = DOMAIN y
    BY <2>2, <2>4 DEF Applied, EmptyMap
  <2>6. ASSUME NEW k \in DOMAIN y
        PROVE  r[k] = y[k]
    <3>1. CASE IsMap(y[k])
      <4>1. NestedMap(EmptyMap, k) = EmptyMap
        BY DEF NestedMap, EmptyMap
      <4>2. r[k] = MapValue(g[<<EmptyMap, y[k].map>>])
        BY <2>4, <2>5, <3>1, <4>1 DEF Applied
      <4>3. n \in 1..MaxDepth /\ EndsBy(MapValue(y[k].map), n - 1)
        BY <1>2, <2>1, <3>1, NestedEndsEarlier
      <4>4. n - 1 \in Good
        BY <1>2, <4>3
      <4>5. Right(y[k].map)
        BY <2>1, <3>1, <4>3, <4>4
      <4>6. g[<<EmptyMap, y[k].map>>] = y[k].map
        BY <2>2, <3>1, <4>5
      <4>7. y[k] = MapValue(y[k].map)
        BY <2>1, <3>1, SoundMap
      <4>8. QED
        BY <4>2, <4>6, <4>7, Zenon
    <3>2. CASE ~IsMap(y[k])
      BY <2>4, <2>5, <3>2 DEF Applied
    <3>3. QED
      BY <3>1, <3>2
  <2>7. y = [k \in DOMAIN y |-> y[k]]
    BY <2>1, SoundMap
  <2>8. r = y
    BY <2>5, <2>6, <2>7
  <2>9. QED
    BY <2>3, <2>8
<1> HIDE DEF Right
<1>3. \A n \in 0..MaxDepth : (n # 0 => n - 1 \in Good) => n \in Good
  <2>1. ASSUME NEW n \in 0..MaxDepth, n # 0 => n - 1 \in Good
        PROVE  \A y \in MapsInside(chg) : EndsBy(MapValue(y), n) => Right(y)
    <3> HIDE DEF Good
    <3>1. QED
      BY <1>2, <2>1
  <2>2. QED
    BY <2>1
<1>4. MaxDepth \in Good
  <2> HIDE DEF Good
  <2>1. QED
    BY <1>3, DepthInduction, DepthAssumption
<1>5. \A y \in MapsInside(chg) : EndsBy(MapValue(y), MaxDepth)
  BY <1>1, MapsInsideAreSound DEF Sound
<1>6. QED
  BY <1>4, <1>5 DEF Right

(* Applied to its first map, the change-set of two maps gives the second. *)
LEMMA PatchGivesSecondMap ==
  ASSUME NEW f, NEW a, NEW b, DiffRun(f, a, b), NEW g, NEW chg, ApplyRun(g, a, chg)
  PROVE  \A x \in MapsInside(a), y \in MapsInside(b) :
           f[<<x, y>>] \in MapsInside(chg) /\ Plain(MapValue(y)) => g[<<x, f[<<x, y>>]>>] = y
<1> DEFINE Right(x, y) == f[<<x, y>>] \in MapsInside(chg) /\ Plain(MapValue(y)) => g[<<x, f[<<x, y>>]>>] = y
           Good == {n \in 0..MaxDepth :
                      \A x \in MapsInside(a), y \in MapsInside(b) : EndsBy(MapValue(x), n) => Right(x, y)}
<1>1. Sound(MapValue(a)) /\ Sound(MapValue(b)) /\ Sound(MapValue(chg))
  BY DEF DiffRun, ApplyRun
<1>2. ASSUME NEW n \in 0..MaxDepth, n # 0 => n - 1 \in Good,
             NEW x \in MapsInside(a), NEW y \in MapsInside(b), EndsBy(MapValue(x), n)
      PROVE  Right(x, y)
  <2> SUFFICES ASSUME NEW c \in MapsInside(chg), c = f[<<x, y>>], Plain(MapValue(y))
               PROVE  g[<<x, c>>] = y
    OBVIOUS
  <2>1. /\ Sound(MapValue(x)) /\ \A k \in DOMAIN x : IsMap(x[k]) => x[k].map \in MapsInside(a)
        /\ Sound(MapValue(y)) /\ \A k \in DOMAIN y : IsMap(y[k]) => y[k].map \in MapsInside(b)
        /\ \A k \in DOMAIN c : IsMap(c[k]) => c[k].map \in MapsInside(chg)
    BY <1>1, MapsInsideAreSound
  <2>2. \A k \in DOMAIN y : y[k] # NilValue /\ (IsMap(y[k]) => Plain(MapValue(y[k].map)))
    BY PlainMap
  <2>3. Recorded(c, f, x, y)
    <3>1. c = DiffMaps(f, x, y)
      BY DEF DiffRun
    <3>2. QED
      BY <2>1, <3>1, DiffWrites
  <2>4. \A k \in ChangedMaps(x, y) : f[<<x[k].map, y[k].map>>] # EmptyMap
    <3>1. ASSUME NEW k \in ChangedMaps(x, y) PROVE f[<<x[k].map, y[k].map>>] # EmptyMap
      <4>1. /\ x[k] # y[k]
            /\ x[k] = MapValue(x[k].map) /\ x[k].map \in MapsInside(a)
            /\ y[k] = MapValue(y[k].map) /\ y[k].map \in MapsInside(b)
        BY <2>1, <3>1, SoundMap DEF ChangedMaps
      <4>2. x[k].map # y[k].map
        BY <4>1, Zenon
      <4>3. QED
        BY <4>1, <4>2, EmptyDiffIsEquality
    <3>2. QED
      BY <3>1
  <2>5. \A k : k \in DOMAIN c <=> \/ k \in DOMAIN x \ DOMAIN y
                                  \/ k \in DOMAIN y \ DOMAIN x
                                  \/ k \in DOMAIN x \intersect DOMAIN y /\ x[k] # y[k]
    BY <2>3, <2>4 DEF Recorded
  <2>6. \A k \in DOMAIN c :
          /\ k \notin DOMAIN y => c[k] = NilValue
          /\ k \in ChangedMaps(x, y) => c[k] = MapValue(f[<<x[k].map, y[k].map>>])
          /\ k \in DOMAIN y \ ChangedMaps(x, y) => c[k] = y[k]
    BY <2>3 DEF Recorded
  <2>7. PICK r : r = g[<<x, c>>]
    OBVIOUS
  <2>8. Applied(r, g, x, c)
    <3>1. r = ApplyMaps(g, x, c)
      BY <2>7 DEF ApplyRun
    <3>2. QED
      BY <3>1, ApplyWrites
  <2>9. \A k \in DOMAIN y \intersect DOMAIN c : c[k] # NilValue
    <3>1. \A m : MapValue(m) # NilValue
      BY DEF MapValue, NilValue
    <3>2. QED
      BY <2>2, <2>6, <3>1
  <2>10. DOMAIN r = DOMAIN y
    BY <2>5, <2>6, <2>8, <2>9 DEF Applied
  <2>11. ASSUME NEW k \in DOMAIN y
         PROVE  r[k] = y[k]
    <3>1. CASE k \notin DOMAIN c
      BY <2>5, <2>8, <2>10, <3>1 DEF Applied
    <3>2. CASE k \in ChangedMaps(x, y)
      <4>1. PICK sub : sub = f[<<x[k].map, y[k].map>>]
        OBVIOUS
      <4>2. k \in DOMAIN c /\ k \in DOMAIN x /\ IsMap(x[k]) /\ IsMap(y[k])
        BY <2>5, <3>2 DEF ChangedMaps
      <4>3. c[k] = MapValue(sub)
        BY <2>6, <3>2, <4>1, <4>2
      <4>4. IsMap(c[k]) /\ c[k].map = sub
        BY <4>3 DEF MapValue, IsMap
      <4>5. NestedMap(x, k) = x[k].map
        BY <4>2 DEF NestedMap
      <4>6. r[k] = MapValue(g[<<x[k].map, sub>>])
        BY <2>8, <2>10, <4>2, <4>4, <4>5 DEF Applied
      <4>7. n \in 1..MaxDepth /\ EndsBy(MapValue(x[k].map), n - 1)
        BY <1>2, <2>1, <4>2, NestedEndsEarlier
      <4>8. n - 1 \in Good
        BY <1>2, <4>7
      <4>9. Right(x[k].map, y[k].map)
        BY <2>1, <4>2, <4>7, <4>8
      <4>10. sub \in MapsInside(chg) /\ Plain(MapValue(y[k].map))
        BY <2>1, <2>2, <4>2, <4>4
      <4>11. g[<<x[k].map, sub>>] = y[k].map
        BY <4>1, <4>9, <4>10
      <4>12. y[k] = MapValue(y[k].map)
        BY <2>1, <4>2, SoundMap
      <4>13. QED
        BY <4>6, <4>11, <4>12, Zenon
    <3>3. CASE k \in DOMAIN c /\ k \notin ChangedMaps(x, y) /\ ~IsMap(y[k])
      <4>1. c[k] = y[k]
        BY <2>6, <3>3
      <4>2. QED
        BY <2>8, <2>10, <3>3, <4>1 DEF Applied
    <3>4. CASE k \in DOMAIN c /\ k \notin ChangedMaps(x, y) /\ IsMap(y[k])
      <4>1. c[k] = y[k] /\ y[k] = MapValue(y[k].map)
        BY <2>1, <2>6, <3>4, SoundMap
      <4>2. ~(k \in DOMAIN x /\ IsMap(x[k]))
        BY <2>5, <3>4 DEF ChangedMaps
      <4>3. NestedMap(x, k) = EmptyMap
        BY <4>2 DEF NestedMap
      <4>4. r[k] = MapValue(g[<<EmptyMap, y[k].map>>])
        BY <2>8, <2>10, <3>4, <4>1, <4>3 DEF Applied
      <4>5. y[k].map \in MapsInside(chg) /\ Plain(MapValue(y[k].map))
        BY <2>1, <2>2, <3>4, <4>1
      <4>6. g[<<EmptyMap, y[k].map>>] = y[k].map
        BY <4>5, FreshMapIsCopied
      <4>7. QED
        BY <4>1, <4>4, <4>6, Zenon
    <3>5. QED
      BY <3>1, <3>2, <3>3, <3>4
  <2>12. y = [k \in DOMAIN y |-> y[k]] /\ r = [k \in DOMAIN r |-> r[k]]
    BY <2>1, <2>8, SoundMap DEF Applied
  <2>13. r = y
    BY <2>10, <2>11, <2>12
  <2>14. QED
    BY <2>7, <2>13
<1> HIDE DEF Right
<1>3. \A n \in 0..MaxDepth : (n # 0 => n - 1 \in Good) => n \in Good
  <2>1. ASSUME NEW n \in 0..MaxDepth, n # 0 => n - 1 \in Good
        PROVE  \A x \in MapsInside(a), y \in MapsInside(b) : EndsBy(MapValue(x), n) => Right(x, y)
    <3> HIDE DEF Good
    <3>1. QED
      BY <1>2, <2>1
  <2>2. QED
    BY <2>1
<1>4. MaxDepth \in Good
  <2> HIDE DEF Good
  <2>1. QED
    BY <1>3, DepthInduction, DepthAssumption
<1>5. \A x \in MapsInside(a) : EndsBy(MapValue(x), MaxDepth)
  BY <1>1, MapsInsideAreSound DEF Sound
<1>6. QED
  BY <1>4, <1>5 DEF Right

-----------------------------------------------------------------------------
(* A change-set and, for each map in it, those that say one entry less. *)
WithoutRun(w, chg) ==
  /\ Sound(MapValue(chg))
  /\ \A c \in MapsInside(chg) : w[c] = OneEntryLess(w, c)

(* A call reads nothing but the results for the maps right in its own. *)
LEMMA LessReadsNested ==
  ASSUME NEW c, NEW f, NEW g, \A k \in DOMAIN c : IsMap(c[k]) => f[c[k].map] = g[c[k].map]
  PROVE  OneEntryLess(f, c) = OneEntryLess(g, c)
<1> DEFINE Less(h) == {{[c EXCEPT ![d] = MapValue(sub)] : sub \in h[c[d].map]} : d \in {k \in DOMAIN c : IsMap(c[k])}}
<1>1. Less(f) = Less(g)
  OBVIOUS
<1>2. \A h : OneEntryLess(h, c) = {[k \in DOMAIN c \ {d} |-> c[k]] : d \in DOMAIN c} \union UNION Less(h)
  BY DEF OneEntryLess
<1> HIDE DEF Less
<1>3. QED
  BY <1>1, <1>2

(* A change-set with one entry less lacks a key, or has less under one. *)
SaysLess(r, w, c) ==
  /\ r = [k \in DOMAIN r |-> r[k]]
  /\ \E d \in DOMAIN c :
       /\ \A k \in DOMAIN c \ {d} : k \in DOMAIN r /\ r[k] = c[k]
       /\ \/ DOMAIN r = DOMAIN c \ {d}
          \/ /\ DOMAIN r = DOMAIN c /\ IsMap(c[d])
             /\ \E sub \in w[c[d].map] : r[d] = MapValue(sub)

(* Each of the change-sets that say one entry less is one of the two. *)
LEMMA LessOfMap ==
  ASSUME NEW w, NEW c, c = [k \in DOMAIN c |-> c[k]], NEW r \in OneEntryLess(w, c)
  PROVE  SaysLess(r, w, c)
<1>1. CASE \E d \in DOMAIN c : r = [k \in DOMAIN c \ {d} |-> c[k]]
  BY <1>1 DEF SaysLess
<1>2. CASE \E d \in DOMAIN c : IsMap(c[d]) /\ \E sub \in w[c[d].map] : r = [c EXCEPT ![d] = MapValue(sub)]
  <2>1. PICK d \in DOMAIN c : IsMap(c[d]) /\ \E sub \in w[c[d].map] : r = [c EXCEPT ![d] = MapValue(sub)]
    BY <1>2
  <2>2. PICK sub \in w[c[d].map] : r = [c EXCEPT ![d] = MapValue(sub)]
    BY <2>1
  <2>3. DOMAIN r = DOMAIN c /\ r[d] = MapValue(sub) /\ \A k \in DOMAIN c \ {d} : r[k] = c[k]
    BY <2>2
  <2>4. r = [k \in DOMAIN r |-> r[k]]
    BY <2>2
  <2>5. QED
    BY <2>1, <2>2, <2>3, <2>4 DEF SaysLess
<1>3. \/ \E d \in DOMAIN c : r = [k \in DOMAIN c \ {d} |-> c[k]]
      \/ \E d \in DOMAIN c : IsMap(c[d]) /\ \E sub \in w[c[d].map] : r = [c EXCEPT ![d] = MapValue(sub)]
  <2> DEFINE Lacking    == {[k \in DOMAIN c \ {d} |-> c[k]] : d \in DOMAIN c}
             Nested(d)  == {[c EXCEPT ![d] = MapValue(sub)] : sub \in w[c[d].map]}
             maps       == {k \in DOMAIN c : IsMap(c[k])}
  <2>1. OneEntryLess(w, c) = Lacking \union UNION {Nested(d) : d \in maps}
    BY DEF OneEntryLess
  <2>2. r \in Lacking => \E d \in DOMAIN c : r = [k \in DOMAIN c \ {d} |-> c[k]]
    OBVIOUS
  <2>3. \A d : r \in Nested(d) => \E sub \in w[c[d].map] : r = [c EXCEPT ![d] = MapValue(sub)]
    OBVIOUS
  <2> HIDE DEF Lacking, Nested
  <2>4. r \in Lacking \/ \E d \in maps : r \in Nested(d)
    BY <2>1
  <2>5. QED
    BY <2>2, <2>3, <2>4
<1>4. QED
  BY <1>1, <1>2, <1>3

(* What WithoutOneEntry returns is what its calls on the maps inside return. *)
LEMMA WithoutRuns ==
  ASSUME NEW chg, Sound(MapValue(chg))
  PROVE  \E w : WithoutRun(w, chg) /\ WithoutOneEntry(chg) = w[chg]
<1> DEFINE Maps == MapsInside(chg)
           Unfold(f) == [c \in Maps |-> OneEntryLess(f, c)]
           without == CHOOSE f : f = Unfold(f)
           Obeys(f, n) == \A c \in Maps : EndsBy(MapValue(c), n) => f[c] = OneEntryLess(f, c)
           Obeyed == {n \in 0..MaxDepth : \E f : Obeys(f, n)}
<1>1. WithoutOneEntry(chg) = without[chg]
  BY DEF WithoutOneEntry
<1>2. ASSUME NEW c \in Maps
      PROVE  Sound(MapValue(c)) /\ \A k \in DOMAIN c : IsMap(c[k]) => c[k].map \in Maps
  BY MapsInsideAreSound
<1> HIDE DEF Maps
<1>3. 0..MaxDepth \subseteq Obeyed
  <2>1. ASSUME NEW n \in 0..MaxDepth, n # 0 => n - 1 \in Obeyed
        PROVE  n \in Obeyed
    <3>1. \E f : n # 0 => Obeys(f, n - 1)
      BY <2>1
    <3>2. PICK f : n # 0 => Obeys(f, n - 1)
      BY <3>1
    <3> DEFINE g == Unfold(f)
    <3>3. ASSUME NEW c \in Maps, EndsBy(MapValue(c), n)
          PROVE  g[c] = OneEntryLess(g, c)
      <4>1. g[c] = OneEntryLess(f, c)
        OBVIOUS
      <4>2. ASSUME NEW k \in DOMAIN c, IsMap(c[k])
            PROVE  f[c[k].map] = g[c[k].map]
        <5>1. n \in 1..MaxDepth /\ EndsBy(MapValue(c[k].map), n - 1)
          BY <1>2, <3>3, <4>2, NestedEndsEarlier
        <5>2. n # 0
          BY <5>1
        <5>3. c[k].map \in Maps
          BY <1>2, <4>2
        <5>4. f[c[k].map] = OneEntryLess(f, c[k].map)
          BY <3>2, <5>1, <5>2, <5>3
        <5>5. QED
          BY <5>3, <5>4
      <4> HIDE DEF g
      <4>3. QED
        BY <4>1, <4>2, LessReadsNested
    <3>4. Obeys(g, n)
      <4> HIDE DEF g
      <4>1. QED
        BY <3>3
    <3>5. QED
      BY <3>4
  <2> HIDE DEF Obeyed
  <2>2. QED
    BY <2>1, DepthInduction
<1>4. PICK f : \A c \in Maps : f[c] = OneEntryLess(f, c)
  <2>1. MaxDepth \in Obeyed
    BY <1>3, DepthAssumption
  <2>2. PICK f : Obeys(f, MaxDepth)
    BY <2>1
  <2>3. QED
    BY <1>2, <2>2 DEF Sound
<1>5. without = Unfold(without)
  <2> DEFINE h == [c \in Maps |-> f[c]]
  <2>1. ASSUME NEW c \in Maps PROVE h[c] = OneEntryLess(h, c)
    <3>1. \A k \in DOMAIN c : IsMap(c[k]) => f[c[k].map] = h[c[k].map]
      BY <1>2
    <3>2. h[c] = OneEntryLess(f, c)
      BY <1>4
    <3> HIDE DEF h
    <3>3. QED
      BY <3>1, <3>2, LessReadsNested
  <2>2. \E r : r = Unfold(r)
    BY <2>1
  <2> HIDE DEF Unfold
  <2>3. QED
    BY <2>2
<1>6. PICK r : r = without
  OBVIOUS
<1> HIDE DEF without
<1>7. r = [c \in Maps |-> OneEntryLess(r, c)]
  BY <1>5, <1>6
<1>8. WithoutRun(r, chg)
  BY <1>7 DEF Maps, WithoutRun
<1>9. QED
  BY <1>1, <1>6, <1>8

(* A change-set with one entry less is as sound as the whole one. *)
LEMMA LessIsSound ==
  ASSUME NEW w, NEW chg, WithoutRun(w, chg)
  PROVE  \A c \in MapsInside(chg) : \A r \in w[c] : Sound(MapValue(r))
<1> DEFINE Right(c, n) == \A r \in w[c] : Sound(MapValue(r)) /\ EndsBy(MapValue(r), n)
           Good == {n \in 0..MaxDepth : \A c \in MapsInside(chg) : EndsBy(MapValue(c), n) => Right(c, n)}
<1>1. Sound(MapValue(chg))
  BY DEF WithoutRun
<1>2. ASSUME NEW n \in 0..MaxDepth, n # 0 => n - 1 \in Good,
             NEW c \in MapsInside(chg), EndsBy(MapValue(c), n), NEW r \in w[c]
      PROVE  Sound(MapValue(r)) /\ EndsBy(MapValue(r), n)
  <2>1. Sound(MapValue(c)) /\ \A k \in DOMAIN c : IsMap(c[k]) => c[k].map \in MapsInside(chg)
    BY <1>1, MapsInsideAreSound
  <2>2. r \in OneEntryLess(w, c)
    BY <1>2 DEF WithoutRun
  <2>3. c = [k \in DOMAIN c |-> c[k]] /\ IsFiniteSet(DOMAIN c)
    BY <2>1, SoundMap
  <2>4. SaysLess(r, w, c)
    BY <2>2, <2>3, LessOfMap
  <2>5. PICK d \in DOMAIN c :
          /\ \A k \in DOMAIN c \ {d} : k \in DOMAIN r /\ r[k] = c[k]
          /\ \/ DOMAIN r = DOMAIN c \ {d}
             \/ /\ DOMAIN r = DOMAIN c /\ IsMap(c[d])
                /\ \E sub \in w[c[d].map] : r[d] = MapValue(sub)
    BY <2>4 DEF SaysLess
  <2>6. IsFiniteSet(DOMAIN r)
    <3>1. DOMAIN r \in SUBSET DOMAIN c
      BY <2>5
    <3>2. QED
      BY <2>3, <3>1, FS_Subset
  <2>7. \A k \in DOMAIN c : n \in 1..MaxDepth /\ Sound(c[k]) /\ EndsBy(c[k], n - 1)
    BY <1>2, <2>1, SoundMap, PartsEndEarlier
  <2>8. ASSUME NEW k \in DOMAIN r
        PROVE  n # 0 /\ Sound(r[k]) /\ EndsBy(r[k], n - 1)
    <3>1. n # 0
      BY <2>7
    <3>2. CASE k # d
      <4>1. k \in DOMAIN c /\ r[k] = c[k]
        BY <2>5, <3>2
      <4>2. QED
        BY <2>7, <3>1, <4>1
    <3>3. CASE k = d
      <4>1. IsMap(c[d])
        BY <2>5, <3>3
      <4>2. PICK sub \in w[c[d].map] : r[d] = MapValue(sub)
        BY <2>5, <3>3
      <4>3. EndsBy(MapValue(c[d].map), n - 1)
        BY <1>2, <2>1, <4>1, NestedEndsEarlier
      <4>4. Right(c[d].map, n - 1)
        BY <1>2, <2>1, <3>1, <4>1, <4>3
      <4>5. QED
        BY <3>1, <3>3, <4>2, <4>4
    <3>4. QED
      BY <3>2, <3>3
  <2>9. r = [k \in DOMAIN r |-> r[k]]
    BY <2>4 DEF SaysLess
  <2>10. QED
    BY <2>6, <2>8, <2>9, SoundOfValues
<1>3. \A n \in 0..MaxDepth : (n # 0 => n - 1 \in Good) => n \in Good
  <2>1. ASSUME NEW n \in 0..MaxDepth, n # 0 => n - 1 \in Good
        PROVE  \A c \in MapsInside(chg) : EndsBy(MapValue(c), n) => Right(c, n)
    <3> HIDE DEF Good
    <3>1. QED
      BY <1>2, <2>1
  <2> HIDE DEF Right
  <2>2. QED
    BY <2>1
<1>4. MaxDepth \in Good
  <2> HIDE DEF Good
  <2>1. QED
    BY <1>3, DepthInduction, DepthAssumption
<1>5. \A c \in MapsInside(chg) : EndsBy(MapValue(c), MaxDepth)
  BY <1>1, MapsInsideAreSound DEF Sound
<1>6. QED
  BY <1>4, <1>5

-----------------------------------------------------------------------------
(* Applied to a fresh map, one entry less than a map does not give the map.  *)
LEMMA FreshMapNeedsAll ==
  ASSUME NEW w, NEW whole, WithoutRun(w, whole), NEW g, NEW dst, NEW chg, ApplyRun(g, dst, chg)
  PROVE  \A m \in MapsInside(whole) : \A r \in w[m] :
           r \in MapsInside(chg) => g[<<EmptyMap, r>>] # m
<1> DEFINE Right(m) == \A r \in w[m] : r \in MapsInside(chg) => g[<<EmptyMap, r>>] # m
           Good == {n \in 0..MaxDepth : \A m \in MapsInside(whole) : EndsBy(MapValue(m), n) => Right(m)}
<1>1. Sound(MapValue(whole)) /\ Sound(MapValue(chg))
  BY DEF WithoutRun, ApplyRun
<1>2. ASSUME NEW n \in 0..MaxDepth, n # 0 => n - 1 \in Good,
             NEW m \in MapsInside(whole), EndsBy(MapValue(m), n), NEW r \in w[m], r \in MapsInside(chg)
      PROVE  g[<<EmptyMap, r>>] # m
  <2>1. /\ Sound(MapValue(m)) /\ \A k \in DOMAIN m : IsMap(m[k]) => m[k].map \in MapsInside(whole)
        /\ Sound(MapValue(r)) /\ \A k \in DOMAIN r : IsMap(r[k]) => r[k].map \in MapsInside(chg)
    BY <1>1, <1>2, MapsInsideAreSound
  <2>2. SaysLess(r, w, m)
    <3>1. m = [k \in DOMAIN m |-> m[k]]
      BY <2>1, SoundMap
    <3>2. r \in OneEntryLess(w, m)
      BY <1>2 DEF WithoutRun
    <3>3. QED
      BY <3>1, <3>2, LessOfMap
  <2>3. PICK d \in DOMAIN m :
          \/ DOMAIN r = DOMAIN m \ {d}
          \/ /\ DOMAIN r = DOMAIN m /\ IsMap(m[d])
             /\ \E sub \in w[m[d].map] : r[d] = MapValue(sub)
    BY <2>2 DEF SaysLess
  <2>4. PICK res : res = g[<<EmptyMap, r>>]
    OBVIOUS
  <2>5. Applied(res, g, EmptyMap, r)
    <3>1. res = ApplyMaps(g, EmptyMap, r)
      BY <1>2, <2>4 DEF ApplyRun
    <3>2. QED
      BY <3>1, ApplyWrites
  <2>6. CASE DOMAIN r = DOMAIN m \ {d}
    <3>1. d \notin DOMAIN res
      BY <2>5, <2>6 DEF Applied, EmptyMap
    <3>2. QED
      BY <2>4, <3>1
  <2>7. CASE DOMAIN r = DOMAIN m /\ IsMap(m[d]) /\ \E sub \in w[m[d].map] : r[d] = MapValue(sub)
    <3>1. PICK sub \in w[m[d].map] : r[d] = MapValue(sub)
      BY <2>7
    <3>2. IsMap(r[d]) /\ r[d].map = sub /\ r[d] # NilValue
      BY <3>1 DEF MapValue, IsMap, NilValue
    <3>3. NestedMap(EmptyMap, d) = EmptyMap
      BY DEF NestedMap, EmptyMap
    <3>4. d \in DOMAIN res
      BY <2>5, <2>7, <3>2 DEF Applied
    <3>5. res[d] = MapValue(g[<<EmptyMap, sub>>])
      BY <2>5, <2>7, <3>2, <3>3, <3>4 DEF Applied
    <3>6. n \in 1..MaxDepth /\ EndsBy(MapValue(m[d].map), n - 1)
      BY <1>2, <2>1, <2>7, NestedEndsEarlier
    <3>7. n - 1 \in Good
      BY <1>2, <3>6
    <3>8. Right(m[d].map)
      BY <2>1, <2>7, <3>6, <3>7
    <3>9. sub \in MapsInside(chg)
      BY <2>1, <2>7, <3>2
    <3>10. g[<<EmptyMap, sub>>] # m[d].map
      BY <3>1, <3>8, <3>9
    <3>11. res[d].map = g[<<EmptyMap, sub>>]
      BY <3>5 DEF MapValue
    <3>12. QED
      BY <2>4, <3>10, <3>11
  <2>8. QED
    BY <2>3, <2>6, <2>7
<1>3. \A n \in 0..MaxDepth : (n # 0 => n - 1 \in Good) => n \in Good
  <2>1. ASSUME NEW n \in 0..MaxDepth, n # 0 => n - 1 \in Good
        PROVE  \A m \in MapsInside(whole) : EndsBy(MapValue(m), n) => Right(m)
    <3> HIDE DEF Good
    <3>1. QED
      BY <1>2, <2>1
  <2> HIDE DEF Right
  <2>2. QED
    BY <2>1
<1>4. MaxDepth \in Good
  <2> HIDE DEF Good
  <2>1. QED
    BY <1>3, DepthInduction, DepthAssumption
<1>5. \A m \in MapsInside(whole) : EndsBy(MapValue(m), MaxDepth)
  BY <1>1, MapsInsideAreSound DEF Sound
<1>6. QED
  BY <1>4, <1>5

(* Applied to the first map, one entry less than the change-set of two maps  *)
(* does not give the second.                                                 *)
LEMMA PatchNeedsAll ==
  ASSUME NEW f, NEW a, NEW b, DiffRun(f, a, b),
         NEW w, NEW whole, WithoutRun(w, whole),
         NEW g, NEW chg, ApplyRun(g, a, chg)
  PROVE  \A x \in MapsInside(a), y \in MapsInside(b) :
           f[<<x, y>>] \in MapsInside(whole) =>
             \A r \in w[f[<<x, y>>]] : r \in MapsInside(chg) => g[<<x, r>>] # y
<1> DEFINE Right(x, y) ==
             f[<<x, y>>] \in MapsInside(whole) =>
               \A r \in w[f[<<x, y>>]] : r \in MapsInside(chg) => g[<<x, r>>] # y
           Good == {n \in 0..MaxDepth :
                      \A x \in MapsInside(a), y \in MapsInside(b) : EndsBy(MapValue(x), n) => Right(x, y)}
<1>1. Sound(MapValue(a)) /\ Sound(MapValue(b)) /\ Sound(MapValue(chg)) /\ Sound(MapValue(whole))
  BY DEF DiffRun, ApplyRun, WithoutRun
<1>2. ASSUME NEW n \in 0..MaxDepth, n # 0 => n - 1 \in Good,
             NEW x \in MapsInside(a), NEW y \in MapsInside(b), EndsBy(MapValue(x), n)
      PROVE  Right(x, y)
  <2> SUFFICES ASSUME NEW c \in MapsInside(whole), c = f[<<x, y>>],
                      NEW r \in w[c], r \in MapsInside(chg)
               PROVE  g[<<x, r>>] # y
    OBVIOUS
  <2>1. /\ Sound(MapValue(x)) /\ \A k \in DOMAIN x : IsMap(x[k]) => x[k].map \in MapsInside(a)
        /\ Sound(MapValue(y)) /\ \A k \in DOMAIN y : IsMap(y[k]) => y[k].map \in MapsInside(b)
        /\ Sound(MapValue(c)) /\ \A k \in DOMAIN c : IsMap(c[k]) => c[k].map \in MapsInside(whole)
        /\ \A k \in DOMAIN r : IsMap(r[k]) => r[k].map \in MapsInside(chg)
    BY <1>1, MapsInsideAreSound
  <2>2. Recorded(c, f, x, y)
    <3>1. c = DiffMaps(f, x, y)
      BY DEF DiffRun
    <3>2. QED
      BY <2>1, <3>1, DiffWrites
  <2>3. SaysLess(r, w, c)
    <3>1. c = [k \in DOMAIN c |-> c[k]]
      BY <2>1, SoundMap
    <3>2. r \in OneEntryLess(w, c)
      BY DEF WithoutRun
    <3>3. QED
      BY <3>1, <3>2, LessOfMap
  <2>4. PICK d \in DOMAIN c :
          \/ DOMAIN r = DOMAIN c \ {d}
          \/ /\ DOMAIN r = DOMAIN c /\ IsMap(c[d])
             /\ \E sub \in w[c[d].map] : r[d] = MapValue(sub)
    BY <2>3 DEF SaysLess
  <2>5. /\ d \notin DOMAIN y => d \in DOMAIN x /\ c[d] = NilValue
        /\ d \in DOMAIN x \intersect DOMAIN y => x[d] # y[d]
        /\ d \in ChangedMaps(x, y) => c[d] = MapValue(f[<<x[d].map, y[d].map>>])
        /\ d \in DOMAIN y \ ChangedMaps(x, y) => c[d] = y[d]
    BY <2>2 DEF Recorded
  <2>6. PICK res : res = g[<<x, r>>]
    OBVIOUS
  <2>7. Applied(res, g, x, r)
    <3>1. res = ApplyMaps(g, x, r)
      BY <2>6 DEF ApplyRun
    <3>2. QED
      BY <3>1, ApplyWrites
  <2>8. CASE DOMAIN r = DOMAIN c \ {d}
    <3>1. (d \in DOMAIN res <=> d \in DOMAIN x) /\ (d \in DOMAIN res => res[d] = x[d])
      BY <2>7, <2>8 DEF Applied
    <3>2. QED
      BY <2>5, <2>6, <3>1
  <2>9. CASE DOMAIN r = DOMAIN c /\ IsMap(c[d]) /\ \E sub \in w[c[d].map] : r[d] = MapValue(sub)
    <3>1. PICK sub \in w[c[d].map] : r[d] = MapValue(sub)
      BY <2>9
    <3>2. IsMap(r[d]) /\ r[d].map = sub /\ r[d] # NilValue
      BY <3>1 DEF MapValue, IsMap, NilValue
    <3>3. sub \in MapsInside(chg) /\ c[d].map \in MapsInside(whole)
      BY <2>1, <2>9, <3>2
    <3>4. d \in DOMAIN y
      <4>1. ~IsMap(NilValue)
        BY DEF IsMap, NilValue
      <4>2. QED
        BY <2>5, <2>9, <4>1
    <3>5. d \in DOMAIN res
      BY <2>7, <2>9, <3>2 DEF Applied
    <3>6. res[d] = MapValue(g[<<NestedMap(x, d), sub>>])
      BY <2>7, <2>9, <3>2, <3>5 DEF Applied
    <3>7. res[d].map = g[<<NestedMap(x, d), sub>>]
      BY <3>6 DEF MapValue
    <3>8. g[<<NestedMap(x, d), sub>>] # y[d].map
      <4>1. CASE d \in ChangedMaps(x, y)
        <5>1. d \in DOMAIN x /\ IsMap(x[d]) /\ IsMap(y[d])
          BY <4>1 DEF ChangedMaps
        <5>2. c[d].map = f[<<x[d].map, y[d].map>>] /\ NestedMap(x, d) = x[d].map
          BY <2>5, <4>1, <5>1 DEF MapValue, NestedMap
        <5>3. n \in 1..MaxDepth /\ EndsBy(MapValue(x[d].map), n - 1)
          BY <1>2, <2>1, <5>1, NestedEndsEarlier
        <5>4. n - 1 \in Good
          BY <1>2, <5>3
        <5>5. Right(x[d].map, y[d].map)
          BY <2>1, <3>4, <5>1, <5>3, <5>4
        <5>6. QED
          BY <3>1, <3>3, <5>2, <5>5
      <4>2. CASE d \notin ChangedMaps(x, y)
        <5>1. c[d] = y[d]
          BY <2>5, <3>4, <4>2
        <5>2. ~(d \in DOMAIN x /\ IsMap(x[d]))
          BY <2>5, <2>9, <3>4, <4>2, <5>1 DEF ChangedMaps
        <5>3. NestedMap(x, d) = EmptyMap
          BY <5>2 DEF NestedMap
        <5>4. g[<<EmptyMap, sub>>] # c[d].map
          BY <3>1, <3>3, FreshMapNeedsAll
        <5>5. QED
          BY <5>1, <5>3, <5>4
      <4>3. QED
        BY <4>1, <4>2
    <3>9. QED
      BY <2>6, <3>7, <3>8
  <2>10. QED
    BY <2>4, <2>8, <2>9
<1> HIDE DEF Right
<1>3. \A n \in 0..MaxDepth : (n # 0 => n - 1 \in Good) => n \in Good
  <2>1. ASSUME NEW n \in 0..MaxDepth, n # 0 => n - 1 \in Good
        PROVE  \A x \in MapsInside(a), y \in MapsInside(b) : EndsBy(MapValue(x), n) => Right(x, y)
    <3> HIDE DEF Good
    <3>1. QED
      BY <1>2, <2>1
  <2>2. QED
    BY <2>1
<1>4. MaxDepth \in Good
  <2> HIDE DEF Good
  <2>1. QED
    BY <1>3, DepthInduction, DepthAssumption
<1>5. \A x \in MapsInside(a) : EndsBy(MapValue(x), MaxDepth)
  BY <1>1, MapsInsideAreSound DEF Sound
<1>6. QED
  BY <1>4, <1>5 DEF Right

-----------------------------------------------------------------------------
(* Objects are sound maps without an explicit null at any depth. *)
LEMMA ObjectsArePlain ==
  ASSUME NEW o, IsObject(o)
  PROVE  Plain(MapValue(o)) /\ Sound(MapValue(o))
<1>1. EndsBy(MapValue(o), MaxDepth)
  BY DepthAssumption DEF IsObject, EndsBy
<1>2. \A z \in Inside(MapValue(o)) : IsMap(z) => \A k \in DOMAIN z.map : z.map[k] # NilValue
  BY DEF IsObject, MapsInside
<1>3. QED
  BY <1>1, <1>2 DEF IsObject, Sound, Plain, WithoutNil

(* For any two objects, applying the change-set Diff makes of them to the    *)
(* first gives the second: diffRecursive and applyRecursive are inverse to   *)
(* each other.                                                               *)
THEOREM PatchTurnsOneIntoTheOther ==
  ASSUME NEW a, NEW b, IsObject(a), IsObject(b)
  PROVE  Apply(a, Diff(a, b)) = b
<1>1. Sound(MapValue(a)) /\ Sound(MapValue(b)) /\ Plain(MapValue(b))
  BY ObjectsArePlain
<1>2. PICK f : /\ Diff(a, b) = f[<<a, b>>]
               /\ \A x \in MapsInside(a), y \in MapsInside(b) : f[<<x, y>>] = DiffMaps(f, x, y)
  BY <1>1, DiffRuns
<1>3. DiffRun(f, a, b)
  BY <1>1, <1>2 DEF DiffRun
<1>4. a \in MapsInside(a) /\ b \in MapsInside(b)
  BY <1>1, MapsInsideAreSound
<1>5. PICK c : c = Diff(a, b)
  OBVIOUS
<1>6. Sound(MapValue(c))
  BY <1>2, <1>3, <1>4, <1>5, DiffIsSound
<1>7. PICK g : ApplyRun(g, a, c) /\ Apply(a, c) = g[<<a, c>>]
  BY <1>1, <1>6, ApplyRuns
<1>8. c \in MapsInside(c)
  BY <1>6, MapsInsideAreSound
<1>9. g[<<a, f[<<a, b>>]>>] = b
  <2>1. f[<<a, b>>] \in MapsInside(c)
    BY <1>2, <1>5, <1>8
  <2>2. QED
    BY <1>1, <1>3, <1>4, <1>7, <2>1, PatchGivesSecondMap
<1>10. QED
  BY <1>2, <1>5, <1>7, <1>9

(* Leave any one entry out of that change-set, at any depth, and it no        *)
(* longer does.                                                              *)
THEOREM PatchHasNoSpareEntry ==
  ASSUME NEW a, NEW b, IsObject(a), IsObject(b)
  PROVE  \A c \in WithoutOneEntry(Diff(a, b)) : Apply(a, c) # b
<1>1. Sound(MapValue(a)) /\ Sound(MapValue(b))
  BY ObjectsArePlain
<1>2. PICK f : /\ Diff(a, b) = f[<<a, b>>]
               /\ \A x \in MapsInside(a), y \in MapsInside(b) : f[<<x, y>>] = DiffMaps(f, x, y)
  BY <1>1, DiffRuns
<1>3. DiffRun(f, a, b)
  BY <1>1, <1>2 DEF DiffRun
<1>4. a \in MapsInside(a) /\ b \in MapsInside(b)
  BY <1>1, MapsInsideAreSound
<1>5. PICK whole : whole = Diff(a, b)
  OBVIOUS
<1>6. Sound(MapValue(whole)) /\ whole = f[<<a, b>>]
  BY <1>2, <1>3, <1>4, <1>5, DiffIsSound
<1>7. PICK w : WithoutRun(w, whole) /\ WithoutOneEntry(whole) = w[whole]
  BY <1>6, WithoutRuns
<1>8. whole \in MapsInside(whole)
  BY <1>6, MapsInsideAreSound
<1>9. ASSUME NEW c \in w[whole]
      PROVE  Apply(a, c) # b
  <2>1. Sound(MapValue(c))
    BY <1>7, <1>8, LessIsSound
  <2>2. PICK g : ApplyRun(g, a, c) /\ Apply(a, c) = g[<<a, c>>]
    BY <1>1, <2>1, ApplyRuns
  <2>3. c \in MapsInside(c)
    BY <2>1, MapsInsideAreSound
  <2>4. f[<<a, b>>] \in MapsInside(whole) /\ c \in w[f[<<a, b>>]]
    BY <1>6, <1>8
  <2>5. g[<<a, c>>] # b
    BY <1>3, <1>4, <1>7, <2>2, <2>3, <2>4, PatchNeedsAll
  <2>6. QED
    BY <2>2, <2>5
<1>10. QED
  BY <1>5, <1>7, <1>9

-----------------------------------------------------------------------------
(* The cached object is the version committed last, and that is an object. *)
ChainInv == obj = target /\ target \in Objects

(* And stays so, for the change-set of the two turns one into the other. *)
LEMMA ChainInvariance == Spec => []ChainInv
<1>1. Init => ChainInv
  BY DEF Init, ChainInv
<1>2. ASSUME ChainInv, [Next]_vars
      PROVE  ChainInv'
  <2>1. ASSUME NEW b \in Objects, CommitDiff(b)
        PROVE  ChainInv'
    <3>1. IsObject(obj) /\ IsObject(b)
      BY <1>2, ObjectsAssumption DEF ChainInv
    <3>2. Apply(obj, Diff(obj, b)) = b
      BY <3>1, PatchTurnsOneIntoTheOther
    <3>3. QED
      BY <2>1, <3>2 DEF CommitDiff, ChainInv
  <2>2. CASE UNCHANGED vars
    BY <1>2, <2>2 DEF vars, ChainInv
  <2>3. QED
    BY <1>2, <2>1, <2>2 DEF Next
<1>3. QED
  BY <1>1, <1>2, PTL DEF Spec

(* However many versions TrackerService.Commit has diffed and applied in      *)
(* place, the cached object is the version committed last.                    *)
THEOREM ChainNeverDrifts == Spec => []PatchedStateIsLastVersion
<1>1. ChainInv => PatchedStateIsLastVersion
  BY DEF ChainInv, PatchedStateIsLastVersion
<1>2. QED
  BY <1>1, ChainInvariance, PTL

(* Every change-set diffRecursive would record next is minimal. *)
THEOREM ChangeSetsAreMinimal == Spec => []ChangeSetIsMinimal
<1>1. ChainInv => ChangeSetIsMinimal
  BY ObjectsAssumption, PatchHasNoSpareEntry DEF ChainInv, ChangeSetIsMinimal
<1>2. QED
  BY <1>1, ChainInvariance, PTL

(* equalFast answers as equality would, for the cached object and any version. *)
THEOREM FastEqualityIsExact == Spec => []FastEqualityIsEquality
<1>1. ChainInv => FastEqualityIsEquality
  <2>1. ASSUME ChainInv, NEW b \in Objects
        PROVE  EqualFast(MapValue(obj), MapValue(b)) <=> obj = b
    <3>1. Sound(MapValue(obj)) /\ Sound(MapValue(b))
      BY <2>1, ObjectsAssumption, ObjectsArePlain DEF ChainInv
    <3>2. EqualFast(MapValue(obj), MapValue(b)) <=> MapValue(obj) = MapValue(b)
      BY <3>1, EqualFastIsEquality
    <3>3. MapValue(obj) = MapValue(b) <=> obj = b
      BY DEF MapValue
    <3>4. QED
      BY <3>2, <3>3
  <2>2. QED
    BY <2>1 DEF FastEqualityIsEquality
<1>2. QED
  BY <1>1, ChainInvariance, PTL
=============================================================================
