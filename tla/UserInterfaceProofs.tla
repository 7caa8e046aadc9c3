------------------------ MODULE UserInterfaceProofs ------------------------
(***************************************************************************)
(* Proofs about the terminal UI: the lists it draws (Scrolling), for every *)
(* number of rows and every height; the timeline it sorts and the loops it *)
(* reports (Arrivals), for whatever arrives; and the store and the ticks   *)
(* behind it (LiveStore and App), in every session.                        *)
(***************************************************************************)
EXTENDS App, Scrolling, Arrivals, FiniteSetTheorems, SequenceTheorems, WellFoundedInduction, TLAPS

(* The lesser of two numbers. *)
LEMMA MinOfTwo ==
  ASSUME NEW a \in Int, NEW b \in Int
  PROVE  Min({a, b}) = IF a <= b THEN a ELSE b
<1>1. \E x \in {a, b} : \A y \in {a, b} : x <= y
  OBVIOUS
<1>2. QED
  BY <1>1 DEF Min

(* Likewise of the greater one. *)
LEMMA MaxOfTwo ==
  ASSUME NEW a \in Int, NEW b \in Int
  PROVE  Max({a, b}) = IF a >= b THEN a ELSE b
<1>1. \E x \in {a, b} : \A y \in {a, b} : x >= y
  OBVIOUS
<1>2. QED
  BY <1>1 DEF Max

-----------------------------------------------------------------------------
(* calcViewport draws the row of the cursor clear of the first and the last  *)
(* row drawn when these stand for others, wherever the list started before:  *)
(* it keeps at least one and less than half of the rows off either end.      *)
LEMMA ViewportShowsTheCursor ==
  ASSUME NEW total \in Nat, NEW cursor \in Nat, NEW height \in Nat, NEW top \in Int,
         height >= 4, cursor < total
  PROVE  LET drawn == Viewport(total, cursor, height, top)
         IN  /\ drawn.start \in Int
             /\ (IF drawn.start > 0 THEN drawn.start + 1 ELSE 0) <= cursor
             /\ cursor <= IF drawn.end < total THEN drawn.end - 2 ELSE drawn.end - 1
<1> DEFINE off   == Max({Min({ScrollOff, height \div 2 - 1}), 0})
           up    == IF cursor < top + off THEN cursor - off ELSE top
           down  == IF cursor > up + height - off - 1 THEN cursor - height + off + 1 ELSE up
           start == Min({Max({down, 0}), total - height})
<1>1. off \in Int /\ 1 <= off /\ 2 * off <= height - 2
  <2>1. height \div 2 \in Int /\ 2 <= height \div 2 /\ 2 * (height \div 2) <= height
    OBVIOUS
  <2>2. Min({ScrollOff, height \div 2 - 1}) = IF 4 <= height \div 2 - 1 THEN 4 ELSE height \div 2 - 1
    BY <2>1, MinOfTwo DEF ScrollOff
  <2>3. off = IF 4 <= height \div 2 - 1 THEN 4 ELSE height \div 2 - 1
    BY <2>1, <2>2, MaxOfTwo
  <2>4. QED
    BY <2>1, <2>3
<1> HIDE DEF off
<1>2. up \in Int /\ up + off <= cursor
  BY <1>1
<1> HIDE DEF up
<1>3. /\ down \in Int /\ down + off <= cursor
      /\ cursor <= down + height - off - 1
  BY <1>1, <1>2
<1> HIDE DEF down
<1>4. start = IF (IF down >= 0 THEN down ELSE 0) <= total - height
              THEN IF down >= 0 THEN down ELSE 0 ELSE total - height
  <2>1. Max({down, 0}) = IF down >= 0 THEN down ELSE 0
    BY <1>3, MaxOfTwo
  <2>2. QED
    BY <1>3, <2>1, MinOfTwo
<1> HIDE DEF start
<1>5. CASE total <= height
  <2>1. Viewport(total, cursor, height, top) = [start |-> 0, end |-> total]
    BY <1>5 DEF Viewport
  <2>2. QED
    BY <2>1
<1>6. CASE total > height
  <2>1. Viewport(total, cursor, height, top) = [start |-> start, end |-> start + height]
    BY <1>6 DEF Viewport, off, up, down, start
  <2>2. QED
    BY <1>1, <1>3, <1>4, <1>6, <2>1
<1>7. QED
  BY <1>5, <1>6

(* A list of no rows starts at its first row. *)
LEMMA ViewportStartsSomewhere ==
  ASSUME NEW total \in Nat, NEW cursor \in Int, NEW height \in Heights, NEW top \in Int,
         total > 0 => cursor \in 0..(total - 1)
  PROVE  Viewport(total, cursor, height, top).start \in Int
<1>1. height \in Nat /\ height >= 4
  BY ScrollingAssumption
<1>2. CASE total = 0
  BY <1>2 DEF Viewport
<1>3. CASE total > 0
  <2>1. cursor \in Nat /\ cursor < total
    BY <1>3
  <2>2. QED
    BY <1>1, <2>1, ViewportShowsTheCursor
<1>4. QED
  BY <1>2, <1>3

(* Where a list starts says nothing of the row its cursor is on. *)
LEMMA RedrawKeepsRow ==
  ASSUME NEW total \in Nat, NEW cursor \in Int, NEW height \in Heights,
         list \in [total : Nat, cursor : Int, height : Heights, top : Int],
         total > 0 => cursor \in 0..(total - 1),
         Redraw([list EXCEPT !.total = total, !.cursor = cursor, !.height = height])
  PROVE  CursorIsOnARow'
<1>1. Viewport(total, cursor, height, list.top).start \in Int
  BY ViewportStartsSomewhere
<1>2. list' = [total |-> total, cursor |-> cursor, height |-> height,
               top |-> Viewport(total, cursor, height, list.top).start]
  BY DEF Redraw
<1>3. QED
  BY <1>1, <1>2 DEF CursorIsOnARow

(* A key leaves the cursor on a row. *)
LEMMA KeysStayOnRows ==
  ASSUME NEW key \in MoveKeys, NEW n \in Nat, NEW cursor \in Int, n > 0 => cursor \in 0..(n - 1)
  PROVE  /\ Moved(key, cursor, n) \in Int
         /\ n > 0 => Moved(key, cursor, n) \in 0..(n - 1)
<1>1. PageSize \in Nat /\ PageSize > 0
  BY ScrollingAssumption
<1>2. Min({cursor + PageSize, n - 1}) = IF cursor + PageSize <= n - 1 THEN cursor + PageSize ELSE n - 1
  BY <1>1, MinOfTwo
<1>3. Max({cursor - PageSize, 0}) = IF cursor - PageSize >= 0 THEN cursor - PageSize ELSE 0
  BY <1>1, MaxOfTwo
<1>4. QED
  BY <1>1, <1>2, <1>3 DEF Moved, MoveKeys

(* Clamping puts the cursor on a row, wherever it was. *)
LEMMA ClampingFindsARow ==
  ASSUME NEW cursor \in Int, NEW n \in Nat
  PROVE  Clamped(cursor, n) \in Int /\ (n > 0 => Clamped(cursor, n) \in 0..(n - 1))
<1>1. Min({cursor, n - 1}) = IF cursor <= n - 1 THEN cursor ELSE n - 1
  BY MinOfTwo
<1>2. Min({cursor, n - 1}) \in Int
  BY <1>1
<1>3. Max({0, Min({cursor, n - 1})}) = IF 0 >= Min({cursor, n - 1}) THEN 0 ELSE Min({cursor, n - 1})
  BY <1>2, MaxOfTwo
<1>4. QED
  BY <1>1, <1>2, <1>3 DEF Clamped

(* Moving, resizing and filling a list leave its cursor on a row. *)
LEMMA ScrollKeepsRow ==
  ASSUME CursorIsOnARow, [Scroll]_list
  PROVE  CursorIsOnARow'
<1>1. /\ list \in [total : Nat, cursor : Int, height : Heights, top : Int]
      /\ list.total > 0 => list.cursor \in 0..(list.total - 1)
  BY DEF CursorIsOnARow
<1>2. ASSUME NEW key \in MoveKeys,
             Redraw([list EXCEPT !.cursor = Moved(key, list.cursor, list.total)])
      PROVE  CursorIsOnARow'
  <2> DEFINE c == Moved(key, list.cursor, list.total)
  <2>1. c \in Int /\ (list.total > 0 => c \in 0..(list.total - 1))
    BY <1>1, KeysStayOnRows
  <2>2. [list EXCEPT !.cursor = c] = [list EXCEPT !.total = list.total, !.cursor = c, !.height = list.height]
    BY <1>1
  <2> HIDE DEF c
  <2>3. Redraw([list EXCEPT !.total = list.total, !.cursor = c, !.height = list.height])
    BY <1>2, <2>2 DEF c
  <2>4. QED
    BY <1>1, <2>1, <2>3, RedrawKeepsRow
<1>3. ASSUME NEW h \in Heights, Redraw([list EXCEPT !.height = h])
      PROVE  CursorIsOnARow'
  <2>1. [list EXCEPT !.height = h] = [list EXCEPT !.total = list.total, !.cursor = list.cursor, !.height = h]
    BY <1>1
  <2>2. QED
    BY <1>1, <1>3, <2>1, RedrawKeepsRow
<1>4. ASSUME NEW n \in 0..MaxRows, NEW c \in 0..(n - 1) \union {Clamped(list.cursor, n)},
             Redraw([list EXCEPT !.total = n, !.cursor = c])
      PROVE  CursorIsOnARow'
  <2>1. n \in Nat
    BY ScrollingAssumption
  <2>2. c \in Int /\ (n > 0 => c \in 0..(n - 1))
    BY <1>1, <2>1, ClampingFindsARow
  <2>3. [list EXCEPT !.total = n, !.cursor = c] =
          [list EXCEPT !.total = n, !.cursor = c, !.height = list.height]
    BY <1>1
  <2>4. Redraw([list EXCEPT !.total = n, !.cursor = c, !.height = list.height])
    BY <1>4, <2>3
  <2>5. QED
    BY <1>1, <2>1, <2>2, <2>4, RedrawKeepsRow
<1>5. CASE UNCHANGED list
  BY <1>5 DEF CursorIsOnARow
<1>6. QED
  BY <1>2, <1>3, <1>4, <1>5 DEF Scroll, MoveCursor, Resize, Fill

(* The cursor of a list is always drawn, for any number of rows, any heights *)
(* of four rows and more and any size of a page.                             *)
THEOREM CursorIsAlwaysDrawn == ScrollSpec => []CursorIsDrawn
<1>1. ScrollInit => CursorIsOnARow
  BY DEF ScrollInit, EmptyList, CursorIsOnARow
<1>2. CursorIsOnARow /\ [Scroll]_list => CursorIsOnARow'
  BY ScrollKeepsRow
<1>3. CursorIsOnARow => CursorIsDrawn
  <2> SUFFICES ASSUME CursorIsOnARow, list.total > 0
               PROVE  LET drawn == Viewport(list.total, list.cursor, list.height, list.top)
                      IN  /\ (IF drawn.start > 0 THEN drawn.start + 1 ELSE 0) <= list.cursor
                          /\ list.cursor <= IF drawn.end < list.total THEN drawn.end - 2 ELSE drawn.end - 1
    BY DEF CursorIsDrawn
  <2>1. /\ list.total \in Nat /\ list.cursor \in Nat /\ list.height \in Heights /\ list.top \in Int
        /\ list.cursor < list.total
    BY DEF CursorIsOnARow
  <2>2. list.height \in Nat /\ list.height >= 4
    BY <2>1, ScrollingAssumption
  <2>3. QED
    BY <2>1, <2>2, ViewportShowsTheCursor
<1>4. QED
  BY <1>1, <1>2, <1>3, PTL DEF ScrollSpec

-----------------------------------------------------------------------------
(* The least of a nonempty set of numbers. *)
LEMMA LeastOf ==
  ASSUME NEW S \in SUBSET Nat, S # {}
  PROVE  \E n \in S : \A m \in S : n <= m
<1> DEFINE R == {p \in Nat \X Nat : p[1] < p[2]}
<1>1. IsWellFoundedOn(R, Nat)
  BY NatLessThanWellFounded, Zenon DEF OpToRel
<1>2. PICK n \in S : \A m \in S : ~(<<m, n>> \in R)
  <2> HIDE DEF R
  <2> QED BY <1>1, WFMin
<1>3. ASSUME NEW m \in S
      PROVE  n <= m
  <2>1. <<m, n>> \notin R
    BY <1>2
  <2>2. ~(m < n)
    BY <2>1
  <2>3. m \in Nat /\ n \in Nat
    OBVIOUS
  <2> QED
    BY <2>2, <2>3
<1>4. QED
  BY <1>3

(* The greatest of a nonempty set of numbers up to a bound. *)
LEMMA GreatestOf ==
  ASSUME NEW n \in Nat, NEW S \in SUBSET (1..n), S # {}
  PROVE  Max(S) \in S /\ \A x \in S : x <= Max(S)
<1> DEFINE below == {m \in Nat : n - m \in S}
<1>1. \A x \in S : x \in Int /\ n - x \in Nat /\ n - (n - x) = x
  OBVIOUS
<1>2. below # {}
  BY <1>1
<1>3. PICK m \in below : \A k \in below : m <= k
  BY <1>2, LeastOf
<1>4. \A x \in S : m <= n - x
  BY <1>1, <1>3
<1>5. n - m \in S /\ \A x \in S : n - m >= x
  BY <1>1, <1>3, <1>4
<1>6. QED
  BY <1>5 DEF Max

(* Counting the members of a finite set of numbers up to each of them *)
(* numbers them from one, in their order.                             *)
LEMMA RanksNumberASet ==
  ASSUME NEW at \in SUBSET Nat, IsFiniteSet(at)
  PROVE  LET at_(k) == CHOOSE i \in at : Cardinality({j \in at : j <= i}) = k
         IN  /\ Cardinality(at) \in Nat
             /\ [k \in 1..Cardinality(at) |-> at_(k)] \in Bijection(1..Cardinality(at), at)
<1> DEFINE n == Cardinality(at)
           upTo(i) == {j \in at : j <= i}
           rank == [i \in at |-> Cardinality(upTo(i))]
           at_(k) == CHOOSE i \in at : Cardinality(upTo(i)) = k
<1>1. n \in Nat
  BY FS_CardinalityType
<1>2. \A i \in at : IsFiniteSet(upTo(i)) /\ Cardinality(upTo(i)) \in Nat /\ Cardinality(upTo(i)) <= n
  <2> TAKE i \in at
  <2>1. upTo(i) \in SUBSET at
    OBVIOUS
  <2>2. IsFiniteSet(upTo(i)) /\ Cardinality(upTo(i)) <= n
    BY <2>1, FS_Subset
  <2>3. QED
    BY <2>2, FS_CardinalityType
<1>3. \A i \in at : Cardinality(upTo(i)) >= 1
  <2> TAKE i \in at
  <2>1. i \in upTo(i)
    OBVIOUS
  <2>2. Cardinality(upTo(i)) # 0
    BY <1>2, <2>1, FS_EmptySet
  <2>3. QED
    BY <1>2, <2>2
<1>4. ASSUME NEW i \in at, NEW j \in at, i < j
      PROVE  Cardinality(upTo(i)) # Cardinality(upTo(j))
  <2>1. upTo(i) \in SUBSET upTo(j)
    <3>1. \A k \in at : k \in Int
      OBVIOUS
    <3>2. \A k \in at : k <= i => k <= j
      BY <1>4, <3>1
    <3>3. QED
      BY <3>2
  <2>2. j \in upTo(j) /\ j \notin upTo(i)
    BY <1>4
  <2>3. QED
    BY <1>2, <2>1, <2>2, FS_Subset
<1> HIDE DEF upTo, n
<1>5. rank \in Injection(at, 1..n)
  <2>1. rank \in [at -> 1..n]
    BY <1>1, <1>2, <1>3
  <2>2. \A i, j \in at : rank[i] = rank[j] => i = j
    BY <1>4
  <2>3. QED
    BY <2>1, <2>2, Zenon DEF Injection, IsInjective
<1>6. IsFiniteSet(1..n) /\ Cardinality(1..n) = n
  BY <1>1, FS_Interval
<1>7. rank \in Surjection(at, 1..n)
  BY <1>1, <1>5, <1>6, FS_Injection DEF n
<1>8. \A k \in 1..n : at_(k) \in at /\ Cardinality(upTo(at_(k))) = k
  BY <1>7 DEF Surjection
<1>9. \A i \in at : at_(rank[i]) = i
  <2> TAKE i \in at
  <2>1. rank[i] \in 1..n
    BY <1>1, <1>2, <1>3
  <2>2. at_(rank[i]) \in at /\ rank[at_(rank[i])] = rank[i]
    BY <1>8, <2>1
  <2>3. QED
    BY <1>5, <2>2 DEF Injection, IsInjective
<1> DEFINE f == [k \in 1..n |-> at_(k)]
<1> HIDE DEF at_
<1>10. f \in [1..n -> at]
  BY <1>8
<1>11. \A k, l \in 1..n : f[k] = f[l] => k = l
  BY <1>8
<1>12. \A i \in at : \E k \in 1..n : f[k] = i
  BY <1>1, <1>2, <1>3, <1>9
<1> HIDE DEF f
<1>13. f \in Bijection(1..n, at)
  BY <1>10, <1>11, <1>12 DEF Bijection, Injection, IsInjective, Surjection
<1>14. QED
  BY <1>1, <1>13 DEF f, at_, upTo, n

(* InsertAt puts one element where it is told and keeps the others in order. *)
LEMMA InsertAtProperties ==
  ASSUME NEW E, NEW s \in Seq(E), NEW e \in E, NEW at \in 1..(Len(s) + 1)
  PROVE  /\ InsertAt(s, at, e) \in Seq(E)
         /\ Len(InsertAt(s, at, e)) = Len(s) + 1
         /\ \A k \in 1..(Len(s) + 1) :
              InsertAt(s, at, e)[k] = IF k < at THEN s[k] ELSE IF k = at THEN e ELSE s[k - 1]
<1> DEFINE before == SubSeq(s, 1, at - 1)
           after  == SubSeq(s, at, Len(s))
<1>1. Len(s) \in Nat /\ at \in Nat /\ \A k \in 1..Len(s) : s[k] \in E
  BY ElementOfSeq, LenProperties
<1>2. /\ before \in Seq(E) /\ Len(before) = at - 1
      /\ \A k \in 1..(at - 1) : before[k] = s[k]
  <2>1. \A k \in 1..(at - 1) : s[k] \in E
    BY <1>1
  <2>2. /\ before \in Seq(E)
        /\ Len(before) = IF 1 <= at - 1 THEN at - 1 - 1 + 1 ELSE 0
        /\ \A k \in 1..(at - 1 - 1 + 1) : before[k] = s[1 + k - 1]
    BY <1>1, <2>1, SubSeqProperties
  <2>3. QED
    BY <1>1, <2>2
<1>3. /\ after \in Seq(E) /\ Len(after) = Len(s) - at + 1
      /\ \A k \in 1..(Len(s) - at + 1) : after[k] = s[at + k - 1]
  <2>1. \A k \in at..Len(s) : s[k] \in E
    BY <1>1
  <2>2. /\ after \in Seq(E)
        /\ Len(after) = IF at <= Len(s) THEN Len(s) - at + 1 ELSE 0
        /\ \A k \in 1..(Len(s) - at + 1) : after[k] = s[at + k - 1]
    BY <1>1, <2>1, SubSeqProperties
  <2>3. QED
    BY <1>1, <2>2
<1>4. InsertAt(s, at, e) = before \o <<e>> \o after
  BY DEF InsertAt
<1> HIDE DEF before, after
<1>5. <<e>> \in Seq(E) /\ Len(<<e>>) = 1 /\ <<e>>[1] = e
  OBVIOUS
<1>6. /\ before \o <<e>> \in Seq(E) /\ Len(before \o <<e>>) = at
      /\ \A k \in 1..at : (before \o <<e>>)[k] = IF k < at THEN s[k] ELSE e
  <2>1. /\ before \o <<e>> \in Seq(E) /\ Len(before \o <<e>>) = at - 1 + 1
        /\ \A k \in 1..(at - 1 + 1) :
             (before \o <<e>>)[k] = IF k <= at - 1 THEN before[k] ELSE <<e>>[k - (at - 1)]
    BY <1>2, <1>5, ConcatProperties
  <2>2. QED
    BY <1>1, <1>2, <1>5, <2>1
<1> DEFINE front == before \o <<e>>
<1> HIDE DEF front
<1>7. front \in Seq(E) /\ Len(front) = at /\ \A k \in 1..at : front[k] = IF k < at THEN s[k] ELSE e
  BY <1>6 DEF front
<1>8. /\ front \o after \in Seq(E) /\ Len(front \o after) = Len(front) + Len(after)
      /\ \A k \in 1..(Len(front) + Len(after)) :
           (front \o after)[k] = IF k <= Len(front) THEN front[k] ELSE after[k - Len(front)]
  BY <1>3, <1>7, ConcatProperties
<1>9. InsertAt(s, at, e) = front \o after
  BY <1>4 DEF front
<1>10. Len(front) + Len(after) = Len(s) + 1
  BY <1>1, <1>3, <1>7
<1>11. ASSUME NEW k \in 1..(Len(s) + 1)
       PROVE  (front \o after)[k] = IF k < at THEN s[k] ELSE IF k = at THEN e ELSE s[k - 1]
  <2>1. k \in Nat /\ 1 <= k /\ k <= Len(s) + 1
    BY <1>1
  <2>2. (front \o after)[k] = IF k <= at THEN front[k] ELSE after[k - at]
    BY <1>7, <1>8, <1>10
  <2>3. CASE k <= at
    <3>1. k \in 1..at
      BY <1>1, <2>1, <2>3
    <3>2. (front \o after)[k] = IF k < at THEN s[k] ELSE e
      BY <1>7, <2>2, <2>3, <3>1
    <3>3. QED
      BY <1>1, <2>1, <2>3, <3>2
  <2>4. CASE ~(k <= at)
    <3>1. k - at \in 1..(Len(s) - at + 1) /\ at + (k - at) - 1 = k - 1
      BY <1>1, <2>1, <2>4
    <3>2. after[k - at] = s[k - 1]
      BY <1>3, <3>1
    <3>3. QED
      BY <1>1, <2>1, <2>2, <2>4, <3>2
  <2>5. QED
    BY <2>3, <2>4
<1>12. QED
  BY <1>8, <1>9, <1>10, <1>11

(* What holds at 0, and at each number up to a bound when it holds of the     *)
(* number before, holds of all of them.                                       *)
LEMMA Counting ==
  ASSUME NEW N \in Nat, NEW S, 0 \in S, \A n \in 1..N : n - 1 \in S => n \in S
  PROVE  0..N \subseteq S
<1> DEFINE Wrong == (0..N) \ S
<1> SUFFICES ASSUME Wrong # {} PROVE FALSE
  OBVIOUS
<1>1. Wrong \in SUBSET Nat
  OBVIOUS
<1>2. PICK n \in Wrong : \A m \in Wrong : n <= m
  <2> HIDE DEF Wrong
  <2> QED BY <1>1, LeastOf
<1>3. n \in 1..N /\ n - 1 \in 0..N /\ ~(n <= n - 1)
  OBVIOUS
<1>4. n - 1 \in S
  BY <1>2, <1>3
<1>5. QED
  BY <1>3, <1>4

(* Where sorting by insertion puts the next entry, and what it makes of the   *)
(* entries sorted so far.                                                     *)
StaysBefore(t, e) == {i \in DOMAIN t : ~NewerThan(e.rev, t[i].rev)}
PlaceFor(t, e) == IF StaysBefore(t, e) = {} THEN 1 ELSE Max(StaysBefore(t, e)) + 1
Inserted(t, e) == InsertAt(t, PlaceFor(t, e), e)

LEMMA PlaceIsWithin ==
  ASSUME NEW E, NEW t \in Seq(E), NEW e
  PROVE  PlaceFor(t, e) \in 1..(Len(t) + 1)
<1>1. Len(t) \in Nat /\ StaysBefore(t, e) \in SUBSET (1..Len(t))
  BY LenProperties DEF StaysBefore
<1>2. StaysBefore(t, e) # {} => Max(StaysBefore(t, e)) \in 1..Len(t)
  BY <1>1, GreatestOf
<1>3. QED
  BY <1>1, <1>2 DEF PlaceFor

LEMMA InsertedEntries ==
  ASSUME NEW E, NEW t \in Seq(E), NEW e \in E
  PROVE  /\ Inserted(t, e) \in Seq(E) /\ Len(Inserted(t, e)) = Len(t) + 1
         /\ \A k \in 1..(Len(t) + 1) :
              Inserted(t, e)[k] = IF k < PlaceFor(t, e) THEN t[k]
                                  ELSE IF k = PlaceFor(t, e) THEN e ELSE t[k - 1]
<1>1. PICK p \in 1..(Len(t) + 1) : p = PlaceFor(t, e)
  BY PlaceIsWithin
<1>2. /\ InsertAt(t, p, e) \in Seq(E) /\ Len(InsertAt(t, p, e)) = Len(t) + 1
      /\ \A k \in 1..(Len(t) + 1) :
           InsertAt(t, p, e)[k] = IF k < p THEN t[k] ELSE IF k = p THEN e ELSE t[k - 1]
  BY InsertAtProperties
<1>3. QED
  BY <1>1, <1>2 DEF Inserted

(* The sequences that sorting goes through, one entry after the other. *)
SortRun(s, run) ==
  /\ DOMAIN run = 0..Len(s) /\ run[0] = <<>>
  /\ \A n \in 1..Len(s) : run[n] = Inserted(run[n - 1], s[n])

(* Sorting does go through such sequences, as those for longer and longer     *)
(* beginnings exist, and it ends with the last of them.                       *)
LEMMA SortRuns ==
  ASSUME NEW E, NEW s \in Seq(E)
  PROVE  \E run \in [0..Len(s) -> Seq(E)] : SortRun(s, run) /\ NewestFirst(s) = run[Len(s)]
<1> DEFINE N == Len(s)
           Unfold(f) == [n \in 0..N |-> IF n = 0 THEN <<>> ELSE Inserted(f[n - 1], s[n])]
           Sorted == CHOOSE f : f = Unfold(f)
           Runs(n) == {f \in [0..n -> Seq(E)] :
                         f[0] = <<>> /\ \A k \in 1..n : f[k] = Inserted(f[k - 1], s[k])}
           Long == {n \in 0..N : Runs(n) # {}}
<1>1. NewestFirst(s) = Sorted[N]
  BY DEF NewestFirst, SortedBy, EntryNewer, Inserted, PlaceFor, StaysBefore
<1>2. N \in Nat /\ \A k \in 1..N : s[k] \in E
  BY ElementOfSeq, LenProperties
<1>3. 0 \in Long
  <2>1. [k \in 0..0 |-> <<>>] \in [0..0 -> Seq(E)]
    OBVIOUS
  <2>2. [k \in 0..0 |-> <<>>] \in Runs(0)
    BY <2>1
  <2>3. QED
    BY <1>2, <2>2
<1>4. ASSUME NEW n \in 1..N, n - 1 \in Long
      PROVE  n \in Long
  <2>1. PICK f \in Runs(n - 1) : TRUE
    <3>1. Runs(n - 1) # {}
      BY <1>4
    <3> HIDE DEF Runs
    <3>2. QED
      BY <3>1
  <2> DEFINE g == [k \in 0..n |-> IF k = n THEN Inserted(f[n - 1], s[n]) ELSE f[k]]
  <2>2. f[n - 1] \in Seq(E) /\ s[n] \in E
    BY <1>2, <2>1
  <2>3. Inserted(f[n - 1], s[n]) \in Seq(E)
    BY <2>2, InsertedEntries
  <2>4. \A k \in 0..n : k = n \/ k \in 0..(n - 1)
    BY <1>2
  <2>5. \A k \in 0..(n - 1) : f[k] \in Seq(E)
    BY <2>1
  <2>6. \A k \in 0..n : g[k] \in Seq(E)
    BY <2>3, <2>4, <2>5
  <2>7. g[0] = <<>>
    BY <1>2, <2>1
  <2>8. ASSUME NEW k \in 1..n
        PROVE  g[k] = Inserted(g[k - 1], s[k])
    <3>1. CASE k = n
      BY <1>2, <3>1
    <3>2. CASE k # n
      <4>1. k \in 1..(n - 1) /\ k - 1 \in 0..n /\ k - 1 # n /\ k \in 0..n
        BY <1>2, <3>2
      <4>2. QED
        BY <2>1, <3>2, <4>1
    <3>3. QED
      BY <3>1, <3>2
  <2>9. g \in [0..n -> Seq(E)]
    BY <2>6
  <2> HIDE DEF g
  <2>10. g \in Runs(n)
    BY <2>7, <2>8, <2>9
  <2>11. n \in 0..N
    BY <1>2
  <2>12. QED
    BY <2>10, <2>11
<1>5. N \in Long
  <2>1. \A n \in 1..N : n - 1 \in Long => n \in Long
    BY <1>4
  <2> HIDE DEF Long
  <2>2. 0..N \subseteq Long
    BY <1>2, <1>3, <2>1, Counting
  <2>3. QED
    BY <1>2, <2>2
<1>6. PICK run : run \in Runs(N)
  <2>1. Runs(N) # {}
    BY <1>5
  <2> HIDE DEF Runs
  <2>2. QED
    BY <2>1
<1>7. run = Unfold(run)
  <2>1. run = [n \in 0..N |-> run[n]]
    BY <1>6
  <2>2. \A n \in 0..N : run[n] = IF n = 0 THEN <<>> ELSE Inserted(run[n - 1], s[n])
    <3> TAKE n \in 0..N
    <3>1. CASE n = 0
      BY <1>6, <3>1
    <3>2. CASE n # 0
      <4>1. n \in 1..N
        BY <1>2, <3>2
      <4>2. QED
        BY <1>6, <3>2, <4>1
    <3>3. QED
      BY <3>1, <3>2
  <2> HIDE DEF Runs
  <2>3. QED
    BY ONLY <2>1, <2>2
<1>8. Sorted = Unfold(Sorted)
  <2> HIDE DEF Unfold
  <2>1. QED
    BY <1>7
<1> HIDE DEF Sorted
<1>9. DOMAIN Sorted = 0..N
  BY <1>8
<1>10. SortRun(s, Sorted)
  BY <1>2, <1>8, <1>9 DEF SortRun
<1> HIDE DEF Unfold, Runs, Long
<1>11. \A n \in 1..N : Sorted[n - 1] \in Seq(E) => Sorted[n] \in Seq(E)
  <2> TAKE n \in 1..N
  <2>1. Sorted[n] = Inserted(Sorted[n - 1], s[n]) /\ s[n] \in E
    BY <1>2, <1>10 DEF SortRun
  <2>2. QED
    BY <2>1, InsertedEntries
<1>12. \A n \in 0..N : Sorted[n] \in Seq(E)
  <2> DEFINE S == {n \in 0..N : Sorted[n] \in Seq(E)}
  <2>1. 0 \in S
    BY <1>2, <1>10, EmptySeq DEF SortRun
  <2>2. \A n \in 1..N : n - 1 \in S => n \in S
    BY <1>2, <1>11
  <2> HIDE DEF S
  <2>3. 0..N \subseteq S
    BY <1>2, <2>1, <2>2, Counting
  <2>4. QED
    BY <2>3 DEF S
<1>13. Sorted = [n \in 0..N |-> Sorted[n]]
  BY <1>8 DEF Unfold
<1>14. Sorted \in [0..N -> Seq(E)]
  BY <1>12, <1>13
<1>15. QED
  BY <1>1, <1>10, <1>14

(* What sorting by insertion leaves of a sequence are its elements, each at  *)
(* one place: the order in which they are compared does not matter.          *)
Permuted(s, n, t) ==
  /\ Len(t) = n
  /\ \E from \in Injection(1..n, 1..n) : \A k \in 1..n : t[k] = s[from[k]]

LEMMA InsertingPermutes ==
  ASSUME NEW E, NEW s \in Seq(E), NEW n \in 1..Len(s), NEW t \in Seq(E), Permuted(s, n - 1, t)
  PROVE  Permuted(s, n, Inserted(t, s[n]))
<1> DEFINE p == PlaceFor(t, s[n])
           r == Inserted(t, s[n])
<1>1. PICK from \in Injection(1..(n - 1), 1..(n - 1)) : \A k \in 1..(n - 1) : t[k] = s[from[k]]
  BY DEF Permuted
<1>2. n \in Nat /\ n >= 1 /\ Len(t) = n - 1 /\ s[n] \in E /\ Len(t) + 1 = n
  <2>1. Len(s) \in Nat /\ Len(t) = n - 1 /\ s[n] \in E
    BY LenProperties, ElementOfSeq DEF Permuted
  <2>2. QED
    BY <2>1
<1>3. p \in 1..n
  BY <1>2, PlaceIsWithin
<1>4. /\ Len(r) = n
      /\ \A k \in 1..n : r[k] = IF k < p THEN t[k] ELSE IF k = p THEN s[n] ELSE t[k - 1]
  <2>1. PICK e \in E : e = s[n]
    BY <1>2
  <2>2. /\ Len(Inserted(t, e)) = Len(t) + 1
        /\ \A k \in 1..(Len(t) + 1) :
             Inserted(t, e)[k] = IF k < PlaceFor(t, e) THEN t[k] ELSE IF k = PlaceFor(t, e) THEN e ELSE t[k - 1]
    BY InsertedEntries
  <2>3. r = Inserted(t, e) /\ p = PlaceFor(t, e)
    BY <2>1
  <2> HIDE DEF p, r
  <2>4. QED
    BY <1>2, <2>1, <2>2, <2>3
<1> HIDE DEF p, r
<1> DEFINE g == [k \in 1..n |-> IF k < p THEN from[k] ELSE IF k = p THEN n ELSE from[k - 1]]
<1>5. /\ \A k \in 1..(n - 1) : from[k] \in 1..(n - 1)
      /\ \A k, l \in 1..(n - 1) : from[k] = from[l] => k = l
  BY <1>1 DEF Injection, IsInjective
<1>6. \A k \in 1..n : \/ k < p /\ k \in 1..(n - 1)
                      \/ k = p
                      \/ k > p /\ k - 1 \in 1..(n - 1)
  BY <1>2, <1>3
<1>7. \A k \in 1..n : k < p => g[k] = from[k]
  OBVIOUS
<1>8. \A k \in 1..n : k = p => g[k] = n
  BY <1>3
<1>9. \A k \in 1..n : k > p => g[k] = from[k - 1]
  BY <1>3
<1>10. g \in [1..n -> 1..n]
  <2>1. \A k \in 1..n : g[k] \in 1..n
    BY <1>2, <1>3, <1>5, <1>6, <1>7, <1>8, <1>9
  <2>2. QED
    BY <2>1
<1> HIDE DEF g
<1>11. \A k, l \in 1..n : g[k] = g[l] => k = l
  <2> SUFFICES ASSUME NEW k \in 1..n, NEW l \in 1..n, g[k] = g[l]
               PROVE  k = l
    OBVIOUS
  <2>1. k \in Int /\ l \in Int /\ p \in Int /\ n \in Int /\ \A i \in 1..(n - 1) : from[i] # n
    BY <1>2, <1>3, <1>5
  <2>2. CASE k = p \/ l = p
    BY <1>5, <1>6, <1>7, <1>8, <1>9, <2>1, <2>2
  <2>3. CASE k < p /\ l < p
    <3>1. k \in 1..(n - 1) /\ l \in 1..(n - 1)
      BY <1>2, <1>3, <2>3
    <3>2. g[k] = from[k] /\ g[l] = from[l]
      BY <1>7, <2>3
    <3>3. QED
      BY <1>5, <3>1, <3>2
  <2>4. CASE k > p /\ l > p
    <3>1. k - 1 \in 1..(n - 1)
      BY <1>2, <1>3, <2>4
    <3>2. l - 1 \in 1..(n - 1)
      BY <1>2, <1>3, <2>4
    <3>3. g[k] = from[k - 1] /\ g[l] = from[l - 1]
      BY <1>9, <2>4
    <3>4. k - 1 = l - 1
      BY <1>5, <3>1, <3>2, <3>3
    <3>5. QED
      BY <2>1, <3>4
  <2>5. CASE k < p /\ l > p
    <3>1. k \in 1..(n - 1) /\ l - 1 \in 1..(n - 1) /\ k # l - 1
      BY <1>2, <1>3, <2>5
    <3>2. g[k] = from[k] /\ g[l] = from[l - 1]
      BY <1>7, <1>9, <2>5
    <3>3. QED
      BY <1>5, <3>1, <3>2
  <2>6. CASE k > p /\ l < p
    <3>1. l \in 1..(n - 1) /\ k - 1 \in 1..(n - 1) /\ l # k - 1
      BY <1>2, <1>3, <2>6
    <3>2. g[l] = from[l] /\ g[k] = from[k - 1]
      BY <1>7, <1>9, <2>6
    <3>3. QED
      BY <1>5, <3>1, <3>2
  <2>7. QED
    BY <2>1, <2>2, <2>3, <2>4, <2>5, <2>6
<1>12. g \in Injection(1..n, 1..n)
  BY <1>10, <1>11 DEF Injection, IsInjective
<1>13. \A k \in 1..n : r[k] = s[g[k]]
  <2> TAKE k \in 1..n
  <2>1. CASE k < p
    BY <1>1, <1>4, <1>6, <1>7, <2>1, <1>3
  <2>2. CASE k = p
    <3>1. g[k] = n /\ ~(k < p)
      BY <1>3, <1>8, <2>2
    <3>2. r[k] = s[n]
      BY <1>4, <2>2, <3>1
    <3>3. QED
      BY <3>1, <3>2
  <2>3. CASE k > p
    <3>1. k - 1 \in 1..(n - 1) /\ ~(k < p) /\ k # p
      BY <1>2, <1>3, <2>3
    <3>2. g[k] = from[k - 1] /\ r[k] = t[k - 1]
      BY <1>4, <1>9, <2>3, <3>1
    <3>3. QED
      BY <1>1, <3>1, <3>2
  <2>4. QED
    BY <1>3, <2>1, <2>2, <2>3
<1>14. QED
  BY <1>4, <1>12, <1>13 DEF Permuted, r

LEMMA RunPermutes ==
  ASSUME NEW E, NEW s \in Seq(E), NEW run \in [0..Len(s) -> Seq(E)], SortRun(s, run)
  PROVE  \A n \in 0..Len(s) : Permuted(s, n, run[n])
<1> DEFINE N == Len(s)
           S == {n \in 0..N : Permuted(s, n, run[n])}
<1>1. N \in Nat
  BY LenProperties
<1>2. 0 \in S
  <2>1. run[0] = <<>> /\ Len(<<>>) = 0
    BY DEF SortRun
  <2>2. <<>> \in Injection(1..0, 1..0)
    BY DEF Injection, IsInjective
  <2>3. QED
    BY <1>1, <2>1, <2>2 DEF Permuted
<1>3. ASSUME NEW n \in 1..N, n - 1 \in S
      PROVE  n \in S
  <2>1. PICK t \in Seq(E) : t = run[n - 1]
    BY <1>1
  <2>2. Permuted(s, n - 1, t) /\ run[n] = Inserted(t, s[n])
    BY <1>3, <2>1 DEF SortRun
  <2>3. Permuted(s, n, run[n])
    BY <2>2, InsertingPermutes
  <2>4. QED
    BY <1>1, <2>3
<1>4. \A n \in 1..N : n - 1 \in S => n \in S
  BY <1>3
<1> HIDE DEF S
<1>5. 0..N \subseteq S
  BY <1>1, <1>2, <1>4, Counting
<1>6. QED
  BY <1>5 DEF S

LEMMA SortPermutes ==
  ASSUME NEW E, NEW s \in Seq(E)
  PROVE  /\ NewestFirst(s) \in Seq(E) /\ Len(NewestFirst(s)) = Len(s)
         /\ \E from \in Bijection(1..Len(s), 1..Len(s)) :
              \A k \in 1..Len(s) : NewestFirst(s)[k] = s[from[k]]
<1> DEFINE N == Len(s)
<1>1. N \in Nat /\ N \in 0..N
  BY LenProperties
<1>2. PICK run \in [0..N -> Seq(E)] : SortRun(s, run) /\ NewestFirst(s) = run[N]
  BY SortRuns
<1>3. Permuted(s, N, run[N]) /\ run[N] \in Seq(E)
  BY <1>1, <1>2, RunPermutes
<1>4. ASSUME NEW from \in Injection(1..N, 1..N)
      PROVE  from \in Bijection(1..N, 1..N)
  <2>1. IsFiniteSet(1..N)
    BY <1>1, FS_Interval
  <2>2. QED
    BY <1>4, <2>1, FS_Injection DEF Bijection
<1>5. QED
  BY <1>2, <1>3, <1>4 DEF Permuted

-----------------------------------------------------------------------------
(* The order of the timeline (Arrivals).  Revisions can be compared when all *)
(* carry a resourceVersion or none does; the order is not transitive else.    *)
Comparable(E) ==
  /\ \A e \in E : e.rev.rv \in Int /\ e.rev.time \in Int /\ e.rev.id \in Int
  /\ (\A e \in E : e.rev.rv # 0) \/ (\A e \in E : e.rev.rv = 0)

Ordered(t) == \A i, j \in 1..Len(t) : i < j => ListedBefore(t[i], t[j])

(* An entry that is newer is listed before, one listed before is not older,   *)
(* of two that compare equal the one that arrived first is.                    *)
LEMMA ComparingAgrees ==
  ASSUME NEW E, Comparable(E), NEW e \in E, NEW f \in E
  PROVE  /\ NewerThan(e.rev, f.rev) => ListedBefore(e, f)
         /\ ListedBefore(e, f) => ~NewerThan(f.rev, e.rev)
         /\ ~NewerThan(f.rev, e.rev) /\ e.rev.id < f.rev.id => ListedBefore(e, f)
<1>1. /\ e.rev.rv \in Int /\ e.rev.time \in Int /\ e.rev.id \in Int
      /\ f.rev.rv \in Int /\ f.rev.time \in Int /\ f.rev.id \in Int
  BY DEF Comparable
<1>2. CASE e.rev.rv # 0 /\ f.rev.rv # 0
  BY <1>1, <1>2 DEF NewerThan, ListedBefore
<1>3. CASE e.rev.rv = 0 /\ f.rev.rv = 0
  BY <1>1, <1>3 DEF NewerThan, ListedBefore
<1>4. QED
  BY <1>2, <1>3 DEF Comparable

LEMMA ListingIsTransitive ==
  ASSUME NEW E, Comparable(E), NEW e \in E, NEW f \in E, NEW g \in E,
         ListedBefore(e, f), ListedBefore(f, g)
  PROVE  ListedBefore(e, g)
<1>1. /\ e.rev.rv \in Int /\ e.rev.time \in Int /\ e.rev.id \in Int
      /\ f.rev.rv \in Int /\ f.rev.time \in Int /\ f.rev.id \in Int
      /\ g.rev.rv \in Int /\ g.rev.time \in Int /\ g.rev.id \in Int
  BY DEF Comparable
<1>2. QED
  BY <1>1 DEF ListedBefore

(* In an ordered sequence a later arrival is put after all that are listed    *)
(* before it, and before all the others.                                       *)
LEMMA PlaceIsInOrder ==
  ASSUME NEW E, Comparable(E), NEW t \in Seq(E), NEW e \in E,
         Ordered(t), \A i \in 1..Len(t) : t[i].rev.id < e.rev.id
  PROVE  \A i \in 1..Len(t) : IF i < PlaceFor(t, e) THEN ListedBefore(t[i], e) ELSE ListedBefore(e, t[i])
<1> DEFINE stays == StaysBefore(t, e)
<1>1. Len(t) \in Nat /\ DOMAIN t = 1..Len(t) /\ \A i \in 1..Len(t) : t[i] \in E
  BY LenProperties, ElementOfSeq
<1>2. stays \in SUBSET (1..Len(t)) /\ stays = {i \in 1..Len(t) : ~NewerThan(e.rev, t[i].rev)}
  BY <1>1 DEF StaysBefore
<1>3. PlaceFor(t, e) = IF stays = {} THEN 1 ELSE Max(stays) + 1
  BY DEF PlaceFor
<1> HIDE DEF stays
<1> TAKE i \in 1..Len(t)
<1>4. CASE i < PlaceFor(t, e)
  <2>1. stays # {}
    BY <1>1, <1>3, <1>4
  <2>2. Max(stays) \in stays
    BY <1>1, <1>2, <2>1, GreatestOf
  <2>3. PICK m \in 1..Len(t) : m = Max(stays) /\ ~NewerThan(e.rev, t[m].rev)
    BY <1>2, <2>2
  <2>4. ListedBefore(t[m], e)
    BY <1>1, <2>3, ComparingAgrees
  <2>5. i < m \/ i = m
    BY <1>1, <1>3, <1>4, <2>1, <2>3
  <2>6. CASE i < m
    <3>1. ListedBefore(t[i], t[m])
      BY <2>6 DEF Ordered
    <3>2. ListedBefore(t[i], e)
      BY <1>1, <2>4, <3>1, ListingIsTransitive
    <3>3. QED
      BY <1>4, <3>2
  <2>7. QED
    BY <1>4, <2>4, <2>5, <2>6
<1>5. CASE ~(i < PlaceFor(t, e))
  <2>1. i \notin stays
    <3>1. CASE stays = {}
      BY <3>1
    <3>2. CASE stays # {}
      <4>1. \A x \in stays : x <= Max(stays)
        BY <1>1, <1>2, <3>2, GreatestOf
      <4>2. Max(stays) \in Int
        <5>1. Max(stays) \in stays
          BY <1>1, <1>2, <3>2, GreatestOf
        <5>2. QED
          BY <1>2, <5>1
      <4>3. ~(i < Max(stays) + 1)
        BY <1>3, <1>5, <3>2
      <4>4. ~(i <= Max(stays))
        BY <4>2, <4>3
      <4>5. QED
        BY <4>1, <4>4
    <3>3. QED
      BY <3>1, <3>2
  <2>2. NewerThan(e.rev, t[i].rev)
    BY <1>2, <2>1
  <2>3. ListedBefore(e, t[i])
    BY <1>1, <2>2, ComparingAgrees
  <2>4. QED
    BY <1>5, <2>3
<1>6. QED
  BY <1>4, <1>5

LEMMA InsertingOrders ==
  ASSUME NEW E, Comparable(E), NEW t \in Seq(E), NEW e \in E,
         Ordered(t), \A i \in 1..Len(t) : t[i].rev.id < e.rev.id
  PROVE  Ordered(Inserted(t, e))
<1> DEFINE n == Len(t)
<1>1. PICK p \in 1..(n + 1) : p = PlaceFor(t, e)
  BY PlaceIsWithin
<1>2. PICK r : r = Inserted(t, e)
  OBVIOUS
<1>3. /\ Len(r) = n + 1
      /\ \A k \in 1..(n + 1) : r[k] = IF k < p THEN t[k] ELSE IF k = p THEN e ELSE t[k - 1]
  <2>1. /\ Len(Inserted(t, e)) = Len(t) + 1
        /\ \A k \in 1..(Len(t) + 1) :
             Inserted(t, e)[k] = IF k < PlaceFor(t, e) THEN t[k] ELSE IF k = PlaceFor(t, e) THEN e ELSE t[k - 1]
    BY InsertedEntries
  <2>2. QED
    BY <1>1, <1>2, <2>1
<1>4. \A i \in 1..n : IF i < p THEN ListedBefore(t[i], e) ELSE ListedBefore(e, t[i])
  BY <1>1, PlaceIsInOrder
<1>5. \A i, j \in 1..n : i < j => ListedBefore(t[i], t[j])
  BY DEF Ordered
<1>6. n \in Nat
  BY LenProperties
<1> HIDE DEF n
<1>7. ASSUME NEW i \in 1..(n + 1), NEW j \in 1..(n + 1), i < j
      PROVE  ListedBefore(r[i], r[j])
  <2>1. CASE j < p
    <3>1. i \in 1..n /\ j \in 1..n /\ i < p
      BY <1>6, <1>7, <2>1
    <3>2. r[i] = t[i] /\ r[j] = t[j]
      BY <1>3, <2>1, <3>1
    <3>3. QED
      BY <1>5, <1>7, <3>1, <3>2
  <2>2. CASE j = p
    <3>1. i \in 1..n /\ i < p /\ ~(j < p)
      BY <1>6, <1>7, <2>2
    <3>2. r[i] = t[i] /\ r[j] = e
      BY <1>3, <2>2, <3>1
    <3>3. QED
      BY <1>4, <3>1, <3>2
  <2>3. CASE i < p /\ j > p
    <3>1. i \in 1..n /\ j - 1 \in 1..n /\ i < j - 1 /\ ~(j < p) /\ j # p
      BY <1>1, <1>6, <1>7, <2>3
    <3>2. r[i] = t[i] /\ r[j] = t[j - 1]
      BY <1>3, <2>3, <3>1
    <3>3. QED
      BY <1>5, <3>1, <3>2
  <2>4. CASE i = p
    <3>1. j - 1 \in 1..n /\ ~(j - 1 < p) /\ ~(j < p) /\ j # p /\ ~(i < p)
      BY <1>1, <1>6, <1>7, <2>4
    <3>2. r[i] = e /\ r[j] = t[j - 1]
      BY <1>3, <2>4, <3>1
    <3>3. QED
      BY <1>4, <3>1, <3>2
  <2>5. CASE i > p
    <3>1. /\ i - 1 \in 1..n /\ j - 1 \in 1..n /\ i - 1 < j - 1
          /\ ~(j < p) /\ j # p /\ ~(i < p) /\ i # p
      BY <1>1, <1>6, <1>7, <2>5
    <3>2. r[i] = t[i - 1] /\ r[j] = t[j - 1]
      BY <1>3, <3>1
    <3>3. QED
      BY <1>5, <3>1, <3>2
  <2>6. QED
    BY <1>1, <1>6, <1>7, <2>1, <2>2, <2>3, <2>4, <2>5
<1>8. QED
  BY <1>2, <1>3, <1>7 DEF Ordered

(* Sorting the revisions in the order of their arrival lists them in order. *)
LEMMA SortOrders ==
  ASSUME NEW E, Comparable(E), NEW s \in Seq(E), \A i \in 1..Len(s) : s[i].rev.id = i - 1
  PROVE  Ordered(NewestFirst(s))
<1> DEFINE N == Len(s)
<1>1. N \in Nat /\ \A i \in 1..N : s[i] \in E
  BY LenProperties, ElementOfSeq
<1>2. PICK run \in [0..N -> Seq(E)] : SortRun(s, run) /\ NewestFirst(s) = run[N]
  BY SortRuns
<1>3. \A n \in 0..N : Permuted(s, n, run[n])
  BY <1>2, RunPermutes
<1> DEFINE S == {n \in 0..N : Ordered(run[n])}
<1>4. 0 \in S
  <2>1. run[0] = <<>> /\ Len(<<>>) = 0
    BY <1>2 DEF SortRun
  <2>2. QED
    BY <1>1, <2>1 DEF Ordered
<1>5. ASSUME NEW n \in 1..N, n - 1 \in S
      PROVE  n \in S
  <2>1. PICK t \in Seq(E) : t = run[n - 1]
    BY <1>1
  <2>2. PICK e \in E : e = s[n]
    BY <1>1
  <2>3. Ordered(t) /\ run[n] = Inserted(t, e)
    BY <1>2, <1>5, <2>1, <2>2 DEF SortRun
  <2>4. Permuted(s, n - 1, t) /\ n - 1 \in Nat
    BY <1>1, <1>3, <2>1
  <2>5. PICK from \in Injection(1..(n - 1), 1..(n - 1)) : \A k \in 1..(n - 1) : t[k] = s[from[k]]
    BY <2>4 DEF Permuted
  <2>6. \A k \in 1..(n - 1) : from[k] \in 1..(n - 1)
    BY <2>5 DEF Injection
  <2>7. ASSUME NEW k \in 1..Len(t)
        PROVE  t[k].rev.id < e.rev.id
    <3>1. k \in 1..(n - 1)
      BY <2>4 DEF Permuted
    <3>2. from[k] \in 1..N /\ from[k] - 1 < n - 1
      BY <1>1, <2>6, <3>1
    <3>3. t[k].rev.id = from[k] - 1 /\ e.rev.id = n - 1
      BY <2>2, <2>5, <3>1, <3>2
    <3>4. QED
      BY <3>2, <3>3
  <2>8. Ordered(run[n])
    BY <2>3, <2>7, InsertingOrders
  <2>9. QED
    BY <1>1, <2>8
<1>6. \A n \in 1..N : n - 1 \in S => n \in S
  BY <1>5
<1> HIDE DEF S
<1>7. 0..N \subseteq S
  BY <1>1, <1>4, <1>6, Counting
<1>8. QED
  BY <1>1, <1>2, <1>7 DEF S

(* Sorting what is in order leaves it as it is: each entry is put behind all  *)
(* that were sorted before it.                                                *)
LEMMA LaterEntriesGoLast ==
  ASSUME NEW E, Comparable(E), NEW t \in Seq(E), NEW e \in E,
         \A i \in 1..Len(t) : ListedBefore(t[i], e)
  PROVE  PlaceFor(t, e) = Len(t) + 1
<1>1. Len(t) \in Nat /\ DOMAIN t = 1..Len(t) /\ \A i \in 1..Len(t) : t[i] \in E
  BY LenProperties, ElementOfSeq
<1>2. \A i \in 1..Len(t) : ~NewerThan(e.rev, t[i].rev)
  BY <1>1, ComparingAgrees
<1>3. StaysBefore(t, e) = 1..Len(t)
  BY <1>1, <1>2 DEF StaysBefore
<1>4. CASE Len(t) = 0
  BY <1>3, <1>4 DEF PlaceFor
<1>5. CASE Len(t) # 0
  <2>1. Len(t) \in 1..Len(t) /\ 1..Len(t) \in SUBSET (1..Len(t))
    BY <1>1, <1>5
  <2>2. Max(1..Len(t)) \in 1..Len(t) /\ \A x \in 1..Len(t) : x <= Max(1..Len(t))
    BY <1>1, <2>1, GreatestOf
  <2>3. Max(1..Len(t)) = Len(t)
    BY <1>1, <2>1, <2>2
  <2>4. QED
    BY <1>3, <2>1, <2>3 DEF PlaceFor
<1>6. QED
  BY <1>4, <1>5

LEMMA SortingAgainChangesNothing ==
  ASSUME NEW E, Comparable(E), NEW s \in Seq(E), Ordered(s)
  PROVE  NewestFirst(s) = s
<1> DEFINE N == Len(s)
<1>1. N \in Nat /\ \A i \in 1..N : s[i] \in E
  BY LenProperties, ElementOfSeq
<1>2. PICK run \in [0..N -> Seq(E)] : SortRun(s, run) /\ NewestFirst(s) = run[N]
  BY SortRuns
<1> DEFINE S == {n \in 0..N : Len(run[n]) = n /\ \A k \in 1..n : run[n][k] = s[k]}
<1>3. 0 \in S
  <2>1. run[0] = <<>> /\ Len(<<>>) = 0
    BY <1>2 DEF SortRun
  <2>2. QED
    BY <1>1, <2>1
<1>4. ASSUME NEW n \in 1..N, n - 1 \in S
      PROVE  n \in S
  <2>1. PICK t \in Seq(E) : t = run[n - 1]
    BY <1>1
  <2>2. PICK e \in E : e = s[n]
    BY <1>1
  <2>3. Len(t) = n - 1 /\ \A k \in 1..(n - 1) : t[k] = s[k]
    BY <1>4, <2>1
  <2>4. run[n] = Inserted(t, e) /\ n \in Nat
    BY <1>1, <1>2, <2>1, <2>2 DEF SortRun
  <2>5. ASSUME NEW i \in 1..Len(t)
        PROVE  ListedBefore(t[i], e)
    <3>1. i \in 1..(n - 1) /\ i \in 1..N /\ i < n
      BY <1>1, <2>3, <2>4
    <3>2. ListedBefore(s[i], s[n])
      BY <3>1 DEF Ordered
    <3>3. QED
      BY <2>2, <2>3, <3>1, <3>2
  <2>6. PlaceFor(t, e) = n
    <3>1. PlaceFor(t, e) = Len(t) + 1
      BY <2>5, LaterEntriesGoLast
    <3>2. QED
      BY <2>3, <2>4, <3>1
  <2>7. /\ Len(Inserted(t, e)) = Len(t) + 1
        /\ \A k \in 1..(Len(t) + 1) :
             Inserted(t, e)[k] = IF k < PlaceFor(t, e) THEN t[k] ELSE IF k = PlaceFor(t, e) THEN e ELSE t[k - 1]
    BY InsertedEntries
  <2> HIDE DEF S
  <2>8. Len(t) + 1 = n
    BY <2>3, <2>4
  <2>9. Len(run[n]) = n /\ \A k \in 1..n : run[n][k] = IF k < n THEN t[k] ELSE IF k = n THEN e ELSE t[k - 1]
    BY <2>4, <2>6, <2>7, <2>8
  <2>10. \A k \in 1..n : run[n][k] = s[k]
    <3> TAKE k \in 1..n
    <3>1. CASE k < n
      <4>1. k \in 1..(n - 1)
        BY <2>4, <3>1
      <4>2. QED
        BY <2>3, <2>9, <3>1, <4>1
    <3>2. CASE k = n
      BY <2>2, <2>4, <2>9, <3>2
    <3>3. QED
      BY <2>4, <3>1, <3>2
  <2>11. QED
    BY <1>1, <2>9, <2>10 DEF S
<1>5. \A n \in 1..N : n - 1 \in S => n \in S
  BY <1>4
<1> HIDE DEF S
<1>6. 0..N \subseteq S
  BY <1>1, <1>3, <1>5, Counting
<1>7. N \in S
  BY <1>1, <1>6
<1>8. run[N] \in Seq(E) /\ Len(run[N]) = N /\ \A k \in 1..N : run[N][k] = s[k]
  BY <1>1, <1>7 DEF S
<1>9. run[N] = s
  <2>1. DOMAIN run[N] = 1..N /\ DOMAIN s = 1..N
    BY <1>8, LenProperties
  <2>2. run[N] = [k \in 1..N |-> run[N][k]] /\ s = [k \in 1..N |-> s[k]]
    BY <1>8, <2>1, LenProperties
  <2>3. QED
    BY <1>8, <2>2
<1>10. QED
  BY <1>2, <1>9

(* Every arrival gets the next number. *)
LEMMA ArrivalKeepsNumbers ==
  ASSUME ArrivalsAreNumbered, [NextRevision]_revs
  PROVE  ArrivalsAreNumbered'
<1> DEFINE Rev == [id : Nat, rv : Nat, time : Int, obj : {r.obj : r \in Arriving}]
<1>1. revs \in Seq(Rev) /\ \A i \in DOMAIN revs : revs[i].id = i - 1
  BY DEF ArrivalsAreNumbered
<1>2. CASE UNCHANGED revs
  BY <1>1, <1>2 DEF ArrivalsAreNumbered
<1>3. CASE NextRevision
  <2>1. PICK r \in Arriving : revs' = Append(revs, [r EXCEPT !.id = Len(revs)])
    BY <1>3 DEF NextRevision
  <2>2. /\ r = [id |-> r.id, rv |-> r.rv, time |-> r.time, obj |-> r.obj]
        /\ r.rv \in Nat /\ r.time \in Int /\ Len(revs) \in Nat
    BY <1>1, ArrivingAssumption, LenProperties
  <2>3. PICK q : q = [r EXCEPT !.id = Len(revs)]
    OBVIOUS
  <2>4. q = [id |-> Len(revs), rv |-> r.rv, time |-> r.time, obj |-> r.obj]
    BY <2>2, <2>3
  <2>5. q \in Rev /\ q.id = Len(revs)
    BY <2>2, <2>4
  <2> HIDE DEF Rev
  <2>6. /\ Append(revs, q) \in Seq(Rev) /\ Len(Append(revs, q)) = Len(revs) + 1
        /\ \A i \in 1..Len(revs) : Append(revs, q)[i] = revs[i]
        /\ Append(revs, q)[Len(revs) + 1] = q
    BY <1>1, <2>5, AppendProperties
  <2>7. DOMAIN revs = 1..Len(revs) /\ DOMAIN revs' = 1..(Len(revs) + 1)
    BY <1>1, <2>1, <2>3, <2>6, LenProperties
  <2>8. \A i \in DOMAIN revs' : revs'[i].id = i - 1
    <3> TAKE i \in DOMAIN revs'
    <3>1. i \in 1..Len(revs) \/ i = Len(revs) + 1
      BY <2>2, <2>7
    <3>2. CASE i \in 1..Len(revs)
      BY <1>1, <2>1, <2>3, <2>6, <2>7, <3>2
    <3>3. CASE i = Len(revs) + 1
      <4>1. revs'[i] = q /\ i - 1 = Len(revs)
        BY <2>1, <2>2, <2>3, <2>6, <3>3
      <4>2. QED
        BY <2>5, <4>1
    <3>4. QED
      BY <3>1, <3>2, <3>3
  <2>9. QED
    BY <2>1, <2>3, <2>6, <2>8 DEF ArrivalsAreNumbered, Rev
<1>4. QED
  BY <1>2, <1>3

(* What is numbered is sorted into a timeline in order. *)
LEMMA NumberedIsSorted ==
  ArrivalsAreNumbered => TimelineIsNewestFirst
<1> DEFINE Rev      == [id : Nat, rv : Nat, time : Int, obj : {r.obj : r \in Arriving}]
           s        == [i \in DOMAIN revs |-> [res |-> None, rev |-> revs[i]]]
           E        == {s[i] : i \in DOMAIN revs}
           sorted   == NewestFirst(s)
           numbered == {r \in Range(revs) : r.rv # 0}
<1> SUFFICES ASSUME ArrivalsAreNumbered, numbered = {} \/ numbered = Range(revs)
             PROVE  /\ {sorted[i].rev : i \in DOMAIN sorted} = Range(revs) /\ Len(sorted) = Len(revs)
                    /\ \A i, j \in DOMAIN sorted : i < j => ListedBefore(sorted[i], sorted[j])
                    /\ NewestFirst(sorted) = sorted
  BY DEF TimelineIsNewestFirst
<1>1. revs \in Seq(Rev) /\ \A i \in DOMAIN revs : revs[i].id = i - 1
  BY DEF ArrivalsAreNumbered
<1> DEFINE N == Len(revs)
<1>2. N \in Nat /\ DOMAIN revs = 1..N /\ \A i \in 1..N : revs[i] \in Rev
  BY <1>1, LenProperties, ElementOfSeq
<1>3. /\ s \in Seq(E) /\ Len(s) = N
      /\ \A i \in 1..N : s[i].rev = revs[i]
  <2>1. s \in [1..N -> E]
    BY <1>2
  <2>2. \A i \in 1..N : s[i].rev = revs[i]
    BY <1>2
  <2> HIDE DEF s, E, N
  <2>3. s \in Seq(E) /\ DOMAIN s = 1..N
    BY <1>2, <2>1
  <2>4. Len(s) = N
    BY <1>2, <2>3, LenProperties
  <2>5. QED
    BY <2>2, <2>3, <2>4
<1>4. Comparable(E)
  <2>1. \A e \in E : \E i \in 1..N : e.rev = revs[i]
    BY <1>2, <1>3
  <2>2. \A i \in 1..N : revs[i].rv \in Int /\ revs[i].time \in Int /\ revs[i].id \in Int
    BY <1>2
  <2>3. (\A i \in 1..N : revs[i].rv # 0) \/ (\A i \in 1..N : revs[i].rv = 0)
    <3>1. \A i \in 1..N : revs[i] \in Range(revs)
      BY <1>2 DEF Range
    <3>2. QED
      BY <3>1
  <2> HIDE DEF E
  <2>4. QED
    BY <2>1, <2>2, <2>3 DEF Comparable
<1>5. \A i \in 1..Len(s) : s[i].rev.id = i - 1
  BY <1>1, <1>2, <1>3
<1> HIDE DEF s, E, N, Rev
<1>6. /\ sorted \in Seq(E) /\ Len(sorted) = N
      /\ \E from \in Bijection(1..N, 1..N) : \A k \in 1..N : sorted[k] = s[from[k]]
  BY <1>3, SortPermutes
<1>7. Ordered(sorted)
  BY <1>3, <1>4, <1>5, SortOrders
<1>8. NewestFirst(sorted) = sorted
  BY <1>4, <1>6, <1>7, SortingAgainChangesNothing
<1> HIDE DEF sorted
<1>9. DOMAIN sorted = 1..N
  BY <1>6, LenProperties
<1>10. {sorted[i].rev : i \in DOMAIN sorted} = Range(revs)
  <2>1. PICK from \in Bijection(1..N, 1..N) : \A k \in 1..N : sorted[k] = s[from[k]]
    BY <1>6
  <2>2. /\ \A k \in 1..N : from[k] \in 1..N
        /\ \A i \in 1..N : \E k \in 1..N : from[k] = i
    BY <2>1 DEF Bijection, Injection, Surjection
  <2>3. \A k \in 1..N : sorted[k].rev = revs[from[k]]
    BY <1>3, <2>1, <2>2
  <2>4. \A k \in 1..N : sorted[k].rev \in Range(revs)
    BY <1>2, <2>2, <2>3 DEF Range
  <2>5. \A r \in Range(revs) : \E k \in 1..N : sorted[k].rev = r
    <3> TAKE r \in Range(revs)
    <3>1. PICK i \in 1..N : revs[i] = r
      BY <1>2 DEF Range
    <3>2. PICK k \in 1..N : from[k] = i
      BY <2>2
    <3>3. sorted[k].rev = r
      BY <2>3, <3>1, <3>2
    <3>4. QED
      BY <3>3
  <2>6. QED
    BY <1>9, <2>4, <2>5
<1>11. QED
  BY <1>6, <1>7, <1>8, <1>9, <1>10 DEF Ordered, N

(* For every set of revisions that can arrive, any number of them and in any  *)
(* order: SortTimelineNewestFirst lists them newest first, whatever clock they *)
(* were recorded by, if all of them carry a resourceVersion or none does, and  *)
(* sorting again changes nothing.                                              *)
THEOREM TimelineIsSorted == ArrivalsSpec => []TimelineIsNewestFirst
<1>1. ArrivalsInit => ArrivalsAreNumbered
  BY EmptySeq DEF ArrivalsInit, ArrivalsAreNumbered
<1>2. ArrivalsAreNumbered /\ [NextRevision]_revs => ArrivalsAreNumbered'
  BY ArrivalKeepsNumbers
<1>3. ArrivalsAreNumbered => TimelineIsNewestFirst
  BY NumberedIsSorted
<1>4. QED
  BY <1>1, <1>2, <1>3, PTL DEF ArrivalsSpec

-----------------------------------------------------------------------------
(* Reports on loops.  Up to the next position, a set has grown by it or not. *)
UpTo(S, k) == {i \in S : i <= k}

Grows(S, k) ==
  /\ Cardinality(UpTo(S, k)) \in Nat /\ Cardinality(UpTo(S, k - 1)) \in Nat
  /\ k \in S => /\ UpTo(S, k) = UpTo(S, k - 1) \union {k}
                /\ Cardinality(UpTo(S, k)) = Cardinality(UpTo(S, k - 1)) + 1
  /\ k \notin S => UpTo(S, k) = UpTo(S, k - 1)

LEMMA GrowingByOne ==
  ASSUME NEW n \in Nat, NEW S \in SUBSET (1..n)
  PROVE  /\ UpTo(S, 0) = {} /\ UpTo(S, n) = S
         /\ \A k \in 1..n : Grows(S, k)
<1>1. IsFiniteSet(1..n)
  BY FS_Interval
<1>2. \A i \in S : i \in Int /\ 1 <= i /\ i <= n
  OBVIOUS
<1>3. UpTo(S, 0) = {} /\ UpTo(S, n) = S
  <2>1. \A i \in S : ~(i <= 0)
    BY <1>2
  <2>2. QED
    BY <1>2, <2>1 DEF UpTo
<1>4. ASSUME NEW k \in 1..n PROVE Grows(S, k)
  <2>1. \A i \in S : i <= k <=> i <= k - 1 \/ i = k
    BY <1>2
  <2>2. ~(k <= k - 1)
    OBVIOUS
  <2>3. IsFiniteSet(UpTo(S, k)) /\ IsFiniteSet(UpTo(S, k - 1))
    <3>1. UpTo(S, k) \subseteq 1..n /\ UpTo(S, k - 1) \subseteq 1..n
      BY DEF UpTo
    <3>2. QED
      BY <1>1, <3>1, FS_Subset
  <2>4. k \in S => UpTo(S, k) = UpTo(S, k - 1) \union {k}
    BY <2>1 DEF UpTo
  <2>5. k \notin S => UpTo(S, k) = UpTo(S, k - 1)
    BY <2>1 DEF UpTo
  <2>6. k \notin UpTo(S, k - 1)
    BY <2>2 DEF UpTo
  <2>7. Cardinality(UpTo(S, k - 1) \union {k}) = Cardinality(UpTo(S, k - 1)) + 1
    BY <2>3, <2>6, FS_AddElement
  <2>8. QED
    BY <2>3, <2>4, <2>5, <2>7, FS_CardinalityType DEF Grows
<1>5. QED
  BY <1>3, <1>4

(* The last position of a set up to k: it precedes the next one. *)
LEMMA LastUpTo ==
  ASSUME NEW n \in Nat, NEW S \in SUBSET (1..n), NEW k \in 0..n, UpTo(S, k) # {}
  PROVE  /\ Max(UpTo(S, k)) \in UpTo(S, k) /\ \A i \in UpTo(S, k) : i <= Max(UpTo(S, k))
         /\ k + 1 \in S => \A j \in S : Precedes(j, k + 1, S) <=> j = Max(UpTo(S, k))
<1> DEFINE low == UpTo(S, k)
           m   == Max(low)
<1>1. low \in SUBSET (1..n) /\ low # {}
  BY DEF UpTo
<1>2. m \in low /\ \A i \in low : i <= m
  <2> HIDE DEF low
  <2> QED BY <1>1, GreatestOf
<1>3. m \in S /\ m <= k /\ \A i \in S : i <= k => i <= m
  BY <1>2 DEF UpTo
<1> HIDE DEF m, low
<1>4. k + 1 \in S => \A j \in S : Precedes(j, k + 1, S) <=> j = m
  <2> SUFFICES ASSUME k + 1 \in S, NEW j \in S PROVE Precedes(j, k + 1, S) <=> j = m
    OBVIOUS
  <2>1. \A i \in S : i \in Int /\ (i < k + 1 <=> i <= k)
    OBVIOUS
  <2>2. j = m => Precedes(j, k + 1, S)
    BY <1>3, <2>1 DEF Precedes
  <2>3. j < k + 1 /\ j # m => j < m /\ m < k + 1
    BY <1>3, <2>1
  <2>4. QED
    BY <1>3, <2>2, <2>3 DEF Precedes
<1>5. QED
  BY <1>2, <1>4 DEF m, low

(* Of two labels the first of which comes first, every second change goes    *)
(* back to it.                                                                *)
Starts(g) == {i \in DOMAIN g : ~ \E j \in DOMAIN g : Precedes(j, i, DOMAIN g) /\ g[j] = g[i]}
Returns(g) == {i \in Starts(g) : g[i] = 1}

LEMMA EverySecondTurnReturns ==
  ASSUME NEW n \in Nat, NEW S \in SUBSET (1..n), NEW g \in [S -> {1, 2}],
         NEW least \in S, \A i \in S : least <= i, g[least] = 1
  PROVE  Cardinality(Turns(g)) \div 2 = Cardinality(Returns(g)) - 1
<1> DEFINE T(k) == Cardinality(UpTo(Turns(g), k))
           R(k) == Cardinality(UpTo(Returns(g), k))
           last(k) == Max(UpTo(S, k))
           Ok == {k \in 0..n : IF UpTo(S, k) = {} THEN T(k) = 0 /\ R(k) = 0
                               ELSE T(k) = IF g[last(k)] = 1 THEN 2 * (R(k) - 1) ELSE 2 * R(k) - 1}
<1>1. Turns(g) \in SUBSET S /\ Returns(g) \in SUBSET S /\ DOMAIN g = S
  BY DEF Turns, Returns, Starts
<1>2. 0 \in Ok
  <2>1. UpTo(S, 0) = {} /\ UpTo(Turns(g), 0) = {} /\ UpTo(Returns(g), 0) = {}
    BY <1>1, GrowingByOne
  <2>2. QED
    BY <2>1, FS_EmptySet
<1>3. ASSUME NEW k \in 1..n, k - 1 \in Ok PROVE k \in Ok
  <2>1. /\ T(k) \in Nat /\ T(k - 1) \in Nat /\ R(k) \in Nat /\ R(k - 1) \in Nat
        /\ T(k) = IF k \in Turns(g) THEN T(k - 1) + 1 ELSE T(k - 1)
        /\ R(k) = IF k \in Returns(g) THEN R(k - 1) + 1 ELSE R(k - 1)
    <3>1. Turns(g) \in SUBSET (1..n) /\ Returns(g) \in SUBSET (1..n)
      BY <1>1
    <3>2. Grows(Turns(g), k)
      BY <3>1, GrowingByOne
    <3>3. Grows(Returns(g), k)
      BY <3>1, GrowingByOne
    <3>4. QED
      BY <3>2, <3>3 DEF Grows
  <2>2. Grows(S, k)
    BY GrowingByOne
  <2>3. k \notin S => UpTo(S, k) = UpTo(S, k - 1)
    BY <2>2 DEF Grows
  <2>4. CASE k \notin S
    BY <1>1, <1>3, <2>1, <2>3, <2>4
  <2>5. CASE k \in S
    <3>1. last(k) = k /\ UpTo(S, k) # {}
      <4>1. UpTo(S, k) # {} /\ k \in UpTo(S, k)
        BY <2>5 DEF UpTo
      <4>2. last(k) \in UpTo(S, k) /\ k <= last(k)
        <5>1. k \in 0..n
          OBVIOUS
        <5>2. QED
          BY <4>1, <5>1, LastUpTo
      <4>3. last(k) \in S /\ last(k) <= k
        BY <4>2 DEF UpTo
      <4>4. \A i \in S : k <= i /\ i <= k => i = k
        OBVIOUS
      <4> HIDE DEF last
      <4>5. QED
        BY <4>1, <4>2, <4>3, <4>4
    <3>2. g[k] \in {1, 2}
      BY <2>5
    <3>3. CASE UpTo(S, k - 1) = {}
      <4>1. k = least
        BY <2>5, <3>3 DEF UpTo
      <4>2. ~ \E j \in S : j < k
        BY <4>1
      <4>3. k \notin Turns(g) /\ k \in Returns(g)
        BY <1>1, <2>5, <4>1, <4>2 DEF Turns, Returns, Starts, Precedes
      <4>4. QED
        BY <1>3, <2>1, <3>1, <3>3, <4>1, <4>3
    <3>4. CASE UpTo(S, k - 1) # {}
      <4> DEFINE m == last(k - 1)
      <4>1. m \in S /\ \A j \in S : Precedes(j, k, S) <=> j = m
        <5>1. k - 1 \in 0..n /\ k - 1 + 1 = k
          OBVIOUS
        <5>2. m \in UpTo(S, k - 1) /\ \A j \in S : Precedes(j, k, S) <=> j = m
          <6>1. PICK l : l = k - 1
            OBVIOUS
          <6>2. /\ Max(UpTo(S, l)) \in UpTo(S, l)
                /\ \A j \in S : Precedes(j, l + 1, S) <=> j = Max(UpTo(S, l))
            BY <2>5, <3>4, <5>1, <6>1, LastUpTo
          <6>3. QED
            BY <5>1, <6>1, <6>2
        <5>3. QED
          BY <5>2 DEF UpTo
      <4>2. g[m] \in {1, 2}
        BY <4>1
      <4>3. k \in Turns(g) <=> g[m] # g[k]
        BY <1>1, <2>5, <4>1 DEF Turns
      <4>4. k \in Returns(g) <=> g[m] # g[k] /\ g[k] = 1
        BY <1>1, <2>5, <4>1 DEF Returns, Starts
      <4>5. T(k - 1) = IF g[m] = 1 THEN 2 * (R(k - 1) - 1) ELSE 2 * R(k - 1) - 1
        BY <1>3, <3>4
      <4> HIDE DEF T, R, m, last
      <4>6. T(k) = IF g[k] = 1 THEN 2 * (R(k) - 1) ELSE 2 * R(k) - 1
        BY <2>1, <3>2, <4>2, <4>3, <4>4, <4>5
      <4>7. QED
        BY <3>1, <4>6 DEF last
    <3>5. QED
      BY <3>3, <3>4
  <2>6. QED
    BY <2>4, <2>5
<1>4. n \in Ok
  <2> HIDE DEF Ok
  <2>1. 0..n \subseteq Ok
    BY <1>2, <1>3, Counting
  <2>2. QED
    BY <2>1
<1>5. UpTo(S, n) = S /\ UpTo(Turns(g), n) = Turns(g) /\ UpTo(Returns(g), n) = Returns(g)
  BY <1>1, GrowingByOne
<1>6. g[last(n)] \in {1, 2} /\ S # {}
  <2>1. last(n) \in S
    <3>1. n \in 0..n
      OBVIOUS
    <3>2. last(n) \in UpTo(S, n)
      BY <1>5, <3>1, LastUpTo
    <3>3. QED
      BY <1>5, <3>2
  <2>2. QED
    BY <2>1
<1>7. Cardinality(Turns(g)) = IF g[last(n)] = 1 THEN 2 * (Cardinality(Returns(g)) - 1)
                                               ELSE 2 * Cardinality(Returns(g)) - 1
  BY <1>4, <1>5, <1>6
<1>8. Cardinality(Returns(g)) \in Nat
  <2>1. IsFiniteSet(1..n)
    BY FS_Interval
  <2>2. Returns(g) \subseteq 1..n
    BY <1>1
  <2>3. QED
    BY <2>1, <2>2, FS_Subset, FS_CardinalityType
<1>9. QED
  BY <1>6, <1>7, <1>8

(* The mean of the distances of neighbours lies between the bounds of each. *)
LEMMA ProductsGrow ==
  ASSUME NEW c \in Nat, NEW a \in Int, NEW b \in Int, a <= b
  PROVE  c * a <= c * b
<1> DEFINE Ok == {k \in 0..c : k * a <= k * b}
<1>1. 0 \in Ok
  OBVIOUS
<1>2. \A k \in 1..c : k - 1 \in Ok => k \in Ok
  <2> SUFFICES ASSUME NEW k \in 1..c, k - 1 \in Ok PROVE k \in Ok
    OBVIOUS
  <2>1. k * a = (k - 1) * a + a /\ k * b = (k - 1) * b + b
    OBVIOUS
  <2>2. (k - 1) * a \in Int /\ (k - 1) * b \in Int /\ (k - 1) * a <= (k - 1) * b
    OBVIOUS
  <2>3. QED
    BY <2>1, <2>2
<1>3. 0..c \subseteq Ok
  <2> HIDE DEF Ok
  <2> QED BY <1>1, <1>2, Counting
<1>4. c \in Ok
  BY <1>3
<1>5. QED
  BY <1>4

LEMMA MeansAreBetween ==
  ASSUME NEW c \in Nat, c > 0, NEW d \in Int, NEW low \in Int, NEW high \in Int,
         c * low <= d, d <= c * high
  PROVE  d \div c \in Int /\ low <= d \div c /\ d \div c <= high
<1> DEFINE q == d \div c
           r == d % c
<1>1. q \in Int /\ r \in 0..(c - 1) /\ d = c * q + r
  OBVIOUS
<1> HIDE DEF q, r
<1>2. q >= low
  <2> SUFFICES ASSUME q + 1 <= low PROVE FALSE
    BY <1>1
  <2>1. c * (q + 1) <= c * low
    BY <1>1, ProductsGrow
  <2>2. c * (q + 1) = c * q + c
    BY <1>1
  <2>3. c * q \in Int /\ c * low \in Int
    BY <1>1
  <2>4. QED
    BY <1>1, <2>1, <2>2, <2>3
<1>3. q <= high
  <2> SUFFICES ASSUME high + 1 <= q PROVE FALSE
    BY <1>1
  <2>1. c * (high + 1) <= c * q
    BY <1>1, ProductsGrow
  <2>2. c * (high + 1) = c * high + c
    OBVIOUS
  <2>3. c * q \in Int /\ c * high \in Int
    BY <1>1
  <2>4. QED
    BY <1>1, <2>1, <2>2, <2>3
<1>4. QED
  BY <1>1, <1>2, <1>3 DEF q

Spread(S, t, low, high) ==
  \A i, j \in S : Precedes(i, j, S) => low <= t[j] - t[i] /\ t[j] - t[i] <= high

LEMMA DistancesAdd ==
  ASSUME NEW n \in Nat, NEW S \in SUBSET (1..n), NEW t, \A i \in S : t[i] \in Int,
         NEW low \in Int, NEW high \in Int, Spread(S, t, low, high),
         NEW least \in S, \A i \in S : least <= i
  PROVE  LET d == t[Max(S)] - t[least]
             c == Cardinality(S) - 1
         IN  Max(S) \in S /\ c \in Nat /\ c * low <= d /\ d <= c * high
<1> DEFINE N(k) == Cardinality(UpTo(S, k))
           last(k) == Max(UpTo(S, k))
           Ok == {k \in 0..n : UpTo(S, k) # {} =>
                    /\ last(k) \in S /\ N(k) - 1 \in Nat
                    /\ (N(k) - 1) * low <= t[last(k)] - t[least] /\ t[last(k)] - t[least] <= (N(k) - 1) * high}
<1>1. 0 \in Ok
  <2>1. UpTo(S, 0) = {}
    BY GrowingByOne
  <2>2. QED
    BY <2>1
<1>2. ASSUME NEW k \in 1..n, k - 1 \in Ok PROVE k \in Ok
  <2>1. Grows(S, k)
    BY GrowingByOne
  <2>2. CASE k \notin S
    BY <1>2, <2>1, <2>2 DEF Grows
  <2>3. CASE k \in S
    <3>1. last(k) = k
      <4>1. UpTo(S, k) # {} /\ k \in UpTo(S, k)
        BY <2>3 DEF UpTo
      <4>2. last(k) \in UpTo(S, k) /\ k <= last(k)
        <5>1. k \in 0..n
          OBVIOUS
        <5>2. QED
          BY <4>1, <5>1, LastUpTo
      <4>3. last(k) \in S /\ last(k) <= k
        BY <4>2 DEF UpTo
      <4>4. \A i \in S : k <= i /\ i <= k => i = k
        OBVIOUS
      <4> HIDE DEF last
      <4>5. QED
        BY <4>2, <4>3, <4>4
    <3>2. N(k) = N(k - 1) + 1 /\ N(k - 1) \in Nat
      BY <2>1, <2>3 DEF Grows
    <3>3. CASE UpTo(S, k - 1) = {}
      <4>1. k = least
        BY <2>3, <3>3 DEF UpTo
      <4>2. N(k) - 1 = 0
        BY <3>2, <3>3, FS_EmptySet
      <4>3. (N(k) - 1) * low = 0 /\ (N(k) - 1) * high = 0 /\ t[least] - t[least] = 0
        BY <4>2
      <4>4. QED
        BY <2>3, <3>1, <4>1, <4>2, <4>3
    <3>4. CASE UpTo(S, k - 1) # {}
      <4> DEFINE m == last(k - 1)
                 c == N(k - 1) - 1
      <4>1. /\ m \in S /\ c \in Nat
            /\ c * low <= t[m] - t[least] /\ t[m] - t[least] <= c * high
        BY <1>2, <3>4
      <4>2. Precedes(m, k, S)
        <5>1. PICK l \in 0..n : l = k - 1 /\ l + 1 = k
          OBVIOUS
        <5>2. \A j \in S : Precedes(j, l + 1, S) <=> j = Max(UpTo(S, l))
          BY <2>3, <3>4, <5>1, LastUpTo
        <5>3. QED
          BY <4>1, <5>1, <5>2
      <4>3. low <= t[k] - t[m] /\ t[k] - t[m] <= high
        BY <2>3, <4>1, <4>2 DEF Spread
      <4>4. N(k) - 1 = c + 1
        BY <3>2
      <4> HIDE DEF N, m, c, last
      <4>5. (c + 1) * low = c * low + low /\ (c + 1) * high = c * high + high
        BY <4>1
      <4>6. c * low \in Int /\ c * high \in Int /\ t[m] \in Int /\ t[k] \in Int /\ t[least] \in Int
        BY <2>3, <4>1
      <4>7. (c + 1) * low <= t[k] - t[least] /\ t[k] - t[least] <= (c + 1) * high
        BY <4>1, <4>3, <4>5, <4>6
      <4>8. N(k) - 1 \in Nat
        BY <4>1, <4>4
      <4>9. QED
        BY <2>3, <3>1, <4>4, <4>7, <4>8
    <3>5. QED
      BY <3>3, <3>4
  <2>4. QED
    BY <2>2, <2>3
<1>3. n \in Ok
  <2> HIDE DEF Ok
  <2>1. 0..n \subseteq Ok
    BY <1>1, <1>2, Counting
  <2>2. QED
    BY <2>1
<1>4. UpTo(S, n) = S
  BY GrowingByOne
<1>5. QED
  BY <1>3, <1>4

(* The least and the greatest of finitely many numbers. *)
HasExtremes(G) == /\ Min(G) \in G /\ \A x \in G : Min(G) <= x
                  /\ Max(G) \in G /\ \A x \in G : x <= Max(G)

AreNumbers(G, S, d) == (\A i \in S : d[i] \in Int) /\ G = {d[i] : i \in S}

LEMMA ExtremesAreMembers ==
  ASSUME NEW n \in Nat, NEW S \in SUBSET (1..n), S # {}, NEW d, NEW G, AreNumbers(G, S, d)
  PROVE  HasExtremes(G)
<1>0. (\A i \in S : d[i] \in Int) /\ G = {d[i] : i \in S}
  BY DEF AreNumbers
<1> DEFINE Ok == {k \in 0..n : UpTo(S, k) # {} =>
                     /\ \E i \in S : \A j \in UpTo(S, k) : d[i] <= d[j]
                     /\ \E i \in S : \A j \in UpTo(S, k) : d[j] <= d[i]}
<1>1. 0 \in Ok
  <2>1. UpTo(S, 0) = {}
    BY GrowingByOne
  <2>2. QED
    BY <2>1
<1>2. ASSUME NEW k \in 1..n, k - 1 \in Ok PROVE k \in Ok
  <2>1. Grows(S, k)
    BY GrowingByOne
  <2>2. CASE k \notin S
    BY <1>2, <2>1, <2>2 DEF Grows
  <2>3. CASE k \in S
    <3>1. UpTo(S, k) = UpTo(S, k - 1) \union {k}
      BY <2>1, <2>3 DEF Grows
    <3>2. UpTo(S, k - 1) \subseteq S
      BY DEF UpTo
    <3>3. CASE UpTo(S, k - 1) = {}
      BY <1>0, <2>3, <3>1, <3>3
    <3>4. CASE UpTo(S, k - 1) # {}
      <4>1. PICK i \in S : \A j \in UpTo(S, k - 1) : d[i] <= d[j]
        BY <1>2, <3>4
      <4>2. PICK h \in S : \A j \in UpTo(S, k - 1) : d[j] <= d[h]
        BY <1>2, <3>4
      <4>3. d[i] \in Int /\ d[h] \in Int /\ d[k] \in Int /\ \A j \in UpTo(S, k - 1) : d[j] \in Int
        BY <1>0, <2>3, <3>2
      <4>4. \E x \in S : \A j \in UpTo(S, k) : d[x] <= d[j]
        <5>1. CASE d[i] <= d[k]
          BY <3>1, <4>1, <5>1
        <5>2. CASE d[k] <= d[i]
          <6>1. \A j \in UpTo(S, k - 1) : d[k] <= d[j]
            BY <4>1, <4>3, <5>2
          <6>2. d[k] <= d[k]
            BY <4>3
          <6>3. QED
            BY <2>3, <3>1, <6>1, <6>2
        <5>3. QED
          BY <4>3, <5>1, <5>2
      <4>5. \E x \in S : \A j \in UpTo(S, k) : d[j] <= d[x]
        <5>1. CASE d[k] <= d[h]
          BY <3>1, <4>2, <5>1
        <5>2. CASE d[h] <= d[k]
          <6>1. \A j \in UpTo(S, k - 1) : d[j] <= d[k]
            BY <4>2, <4>3, <5>2
          <6>2. d[k] <= d[k]
            BY <4>3
          <6>3. QED
            BY <2>3, <3>1, <6>1, <6>2
        <5>3. QED
          BY <4>3, <5>1, <5>2
      <4>6. k \in 0..n
        OBVIOUS
      <4>7. QED
        BY <4>4, <4>5, <4>6
    <3>5. QED
      BY <3>3, <3>4
  <2>4. QED
    BY <2>2, <2>3
<1>3. n \in Ok
  <2> HIDE DEF Ok
  <2>1. 0..n \subseteq Ok
    BY <1>1, <1>2, Counting
  <2>2. QED
    BY <2>1
<1>4. UpTo(S, n) = S
  BY GrowingByOne
<1>5. \E x \in G : \A y \in G : x <= y
  BY <1>0, <1>3, <1>4
<1>6. \E x \in G : \A y \in G : x >= y
  <2>1. S # {} => \E i \in S : \A j \in S : d[j] <= d[i]
    BY <1>3, <1>4
  <2>2. PICK i \in S : \A j \in S : d[j] <= d[i]
    BY <2>1
  <2>3. \A j \in S : d[i] >= d[j]
    BY <2>2
  <2>4. QED
    BY <1>0, <2>3
<1>7. /\ Min(G) \in G /\ \A x \in G : Min(G) <= x
      /\ Max(G) \in G /\ \A x \in G : Max(G) >= x
  BY <1>5, <1>6 DEF Min, Max
<1>8. G \in SUBSET Int
  BY <1>0
<1>9. \A x \in G : x <= Max(G)
  BY <1>7, <1>8
<1>10. QED
  BY <1>7, <1>9 DEF HasExtremes

(* The definitions AnalyzeLoop makes on its way, for what has arrived. *)
Repeating == Looping(revs, LoopWindow(revs, WindowSize))
Seen(i)   == Occurrences(revs, LoopWindow(revs, WindowSize), i)
FirstSeen == {i \in Repeating : i = Min(Seen(i))}
Labels    == [i \in Repeating |-> Cardinality({j \in FirstSeen : j <= Min(Seen(i))})]

IsState(i) ==
  /\ Seen(i) \in SUBSET Repeating /\ i \in Seen(i)
  /\ Cardinality(Seen(i)) \in Nat /\ Cardinality(Seen(i)) >= 2 /\ \E j \in Seen(i) : j # i
  /\ Min(Seen(i)) \in Seen(i) /\ \A j \in Seen(i) : Min(Seen(i)) <= j
  /\ \A j \in Repeating : revs[j].obj = revs[i].obj <=> j \in Seen(i)
  /\ \A j \in Seen(i) : Seen(j) = Seen(i)

LEMMA RepeatingAreOfStates ==
  ASSUME NEW n \in Nat, DOMAIN revs = 1..n
  PROVE  Repeating \in SUBSET (1..n) /\ IsFiniteSet(Repeating) /\ \A i \in Repeating : IsState(i)
<1> DEFINE W == LoopWindow(revs, WindowSize)
<1>1. W \in SUBSET (1..n)
  BY DEF LoopWindow
<1>2. Repeating = {i \in W : Cardinality(Seen(i)) >= 2} /\ \A i : Seen(i) = {j \in W : revs[j].obj = revs[i].obj}
  BY DEF Repeating, Seen, Looping, Occurrences
<1> HIDE DEF W
<1>3. IsFiniteSet(1..n)
  BY FS_Interval
<1>4. ASSUME NEW i \in Repeating PROVE IsState(i)
  <2>1. i \in W /\ i \in Seen(i) /\ Cardinality(Seen(i)) >= 2 /\ Seen(i) \in SUBSET (1..n)
    BY <1>1, <1>2
  <2>2. IsFiniteSet(Seen(i)) /\ Cardinality(Seen(i)) \in Nat
    BY <1>3, <2>1, FS_Subset, FS_CardinalityType
  <2>3. \A j \in Seen(i) : Seen(j) = Seen(i) /\ j \in Repeating
    BY <1>2
  <2>4. \E j \in Seen(i) : j # i
    <3> SUFFICES ASSUME Seen(i) = {i} PROVE FALSE
      BY <2>1
    <3>1. Cardinality(Seen(i)) = 1
      BY FS_Singleton
    <3>2. QED
      BY <2>1, <3>1
  <2>5. Min(Seen(i)) \in Seen(i) /\ \A j \in Seen(i) : Min(Seen(i)) <= j
    <3>1. PICK S : S = Seen(i)
      OBVIOUS
    <3>2. S \in SUBSET Nat /\ S # {}
      BY <2>1, <3>1
    <3>3. \E x \in S : \A y \in S : x <= y
      BY <3>2, LeastOf
    <3>4. QED
      BY <3>1, <3>3 DEF Min
  <2>6. \A j \in Repeating : revs[j].obj = revs[i].obj <=> j \in Seen(i)
    BY <1>2
  <2>7. QED
    BY <2>1, <2>2, <2>3, <2>4, <2>5, <2>6 DEF IsState
<1>5. Repeating \in SUBSET (1..n) /\ IsFiniteSet(Repeating)
  BY <1>1, <1>2, <1>3, FS_Subset
<1>6. QED
  BY <1>4, <1>5

LEMMA LabelsTellStates ==
  ASSUME NEW n \in Nat, DOMAIN revs = 1..n
  PROVE  /\ Labels \in [Repeating -> 1..Cardinality(FirstSeen)] /\ Cardinality(FirstSeen) \in Nat
         /\ \A i, j \in Repeating : Labels[i] = Labels[j] <=> revs[i].obj = revs[j].obj
         /\ \A i \in Repeating : (\A j \in Repeating : i <= j) => Labels[i] = 1
<1> DEFINE F    == FirstSeen
           f(i) == Min(Seen(i))
           B(i) == {j \in F : j <= f(i)}
<1>1. Repeating \in SUBSET (1..n) /\ IsFiniteSet(Repeating) /\ \A i \in Repeating : IsState(i)
  BY RepeatingAreOfStates
<1>2. F \in SUBSET Repeating /\ IsFiniteSet(F) /\ Cardinality(F) \in Nat
  <2>1. F \in SUBSET Repeating
    BY DEF FirstSeen
  <2>2. QED
    BY <1>1, <2>1, FS_Subset, FS_CardinalityType
<1>3. \A i \in Repeating : f(i) \in F /\ f(i) \in Seen(i) /\ f(i) <= i /\ f(i) \in 1..n
  BY <1>1 DEF FirstSeen, IsState
<1>4. \A i \in Repeating : Labels[i] = Cardinality(B(i))
  BY DEF Labels
<1>5. \A i \in Repeating : IsFiniteSet(B(i)) /\ B(i) \subseteq F /\ f(i) \in B(i)
  <2> SUFFICES ASSUME NEW i \in Repeating PROVE IsFiniteSet(B(i)) /\ B(i) \subseteq F /\ f(i) \in B(i)
    OBVIOUS
  <2>1. B(i) \subseteq F /\ f(i) \in B(i)
    BY <1>3
  <2>2. QED
    BY <1>2, <2>1, FS_Subset
<1>6. \A i \in Repeating : Cardinality(B(i)) \in 1..Cardinality(F)
  <2> SUFFICES ASSUME NEW i \in Repeating PROVE Cardinality(B(i)) \in 1..Cardinality(F)
    OBVIOUS
  <2>1. Cardinality(B(i)) <= Cardinality(F) /\ Cardinality(B(i)) \in Nat
    BY <1>2, <1>5, FS_Subset, FS_CardinalityType
  <2>2. Cardinality(B(i)) # 0
    BY <1>5, FS_EmptySet
  <2>3. QED
    BY <1>2, <2>1, <2>2
<1>7. ASSUME NEW i \in Repeating, NEW j \in Repeating, f(i) < f(j) PROVE Cardinality(B(i)) < Cardinality(B(j))
  <2>1. \A k \in F : k \in Int
    BY <1>1, <1>2
  <2>2. B(i) \subseteq B(j)
    BY <1>3, <1>7, <2>1
  <2>3. f(j) \in B(j) /\ f(j) \notin B(i)
    BY <1>3, <1>7, <2>1
  <2>4. Cardinality(B(i)) \in Int /\ Cardinality(B(j)) \in Int
    BY <1>6
  <2>5. B(i) # B(j) /\ IsFiniteSet(B(j))
    BY <1>5, <2>3
  <2> HIDE DEF B
  <2>6. Cardinality(B(i)) <= Cardinality(B(j)) /\ Cardinality(B(j)) # Cardinality(B(i))
    BY <2>2, <2>5, FS_Subset
  <2>7. QED
    BY <2>4, <2>6
<1>8. ASSUME NEW i \in Repeating, NEW j \in Repeating PROVE Labels[i] = Labels[j] <=> revs[i].obj = revs[j].obj
  <2>1. CASE revs[i].obj = revs[j].obj
    <3>1. Seen(i) = Seen(j)
      BY <1>1, <2>1 DEF IsState
    <3>2. QED
      BY <2>1, <3>1 DEF Labels
  <2>2. CASE revs[i].obj # revs[j].obj
    <3>1. f(i) # f(j)
      <4>1. j \notin Seen(i)
        BY <1>1, <2>2 DEF IsState
      <4>2. f(i) = f(j) => Seen(i) = Seen(j)
        BY <1>1, <1>3 DEF IsState
      <4>3. QED
        BY <1>1, <4>1, <4>2 DEF IsState
    <3>2. f(i) \in Int /\ f(j) \in Int
      BY <1>3
    <3>3. f(i) < f(j) \/ f(j) < f(i)
      BY <3>1, <3>2
    <3>4. Cardinality(B(i)) \in Int /\ Cardinality(B(j)) \in Int
      BY <1>6
    <3>5. Cardinality(B(i)) < Cardinality(B(j)) \/ Cardinality(B(j)) < Cardinality(B(i))
      BY <1>7, <3>3
    <3>6. QED
      BY <1>4, <2>2, <3>4, <3>5
  <2>3. QED
    BY <2>1, <2>2
<1>9. ASSUME NEW i \in Repeating, \A j \in Repeating : i <= j PROVE Labels[i] = 1
  <2>1. f(i) = i
    <3>1. f(i) \in Repeating /\ f(i) <= i /\ f(i) \in Int /\ i \in Int
      BY <1>1, <1>2, <1>3
    <3>2. QED
      BY <1>9, <3>1
  <2>2. B(i) = {i}
    <3>1. \A j \in F : j <= i => j = i
      BY <1>1, <1>2, <1>9
    <3>2. QED
      BY <1>5, <2>1, <3>1
  <2>3. QED
    BY <1>4, <2>2, FS_Singleton
<1>10. Labels \in [Repeating -> 1..Cardinality(FirstSeen)]
  BY <1>4, <1>6 DEF Labels
<1>11. QED
  BY <1>2, <1>8, <1>9, <1>10

(* Of a resource whose revisions are numbered, what a report says is so. *)
LEMMA ReportsAreSound ==
  ASSUME ArrivalsAreNumbered, NEW report, report = AnalyzeLoop(revs, WindowSize), report.isLoop
  PROVE  DetectLoop(revs, WindowSize) /\ ReportIsSound(report)
<1> DEFINE n == Len(revs)
           Heavier(i) == \A j \in FirstSeen \ {i} : \/ Cardinality(Seen(i)) > Cardinality(Seen(j))
                                                    \/ Cardinality(Seen(i)) = Cardinality(Seen(j)) /\ i < j
           most  == CHOOSE i \in FirstSeen : Heavier(i)
           first == revs[Min(Seen(most))].time
<1>1. n \in Nat /\ DOMAIN revs = 1..n /\ \A i \in 1..n : revs[i].time \in Int /\ revs[i].id = i - 1
  <2> DEFINE Rev == [id : Nat, rv : Nat, time : Int, obj : {r.obj : r \in Arriving}]
  <2>1. revs \in Seq(Rev) /\ \A i \in DOMAIN revs : revs[i].id = i - 1
    BY DEF ArrivalsAreNumbered
  <2>2. \A r \in Rev : r.time \in Int
    OBVIOUS
  <2> HIDE DEF Rev
  <2>3. n \in Nat /\ DOMAIN revs = 1..n /\ \A i \in 1..n : revs[i] \in Rev
    BY <2>1
  <2>4. QED
    BY <2>1, <2>2, <2>3
<1>0. Cardinality(FirstSeen) \in Nat
  <2> HIDE DEF n
  <2> QED BY <1>1, LabelsTellStates
<1>2. /\ n >= 4 /\ Cardinality(FirstSeen) >= 2
      /\ report.states = Cardinality(FirstSeen)
      /\ report.cycles = Cardinality(Turns(Labels)) \div 2
      /\ report.period = (revs[Max(Seen(most))].time - first) \div (Cardinality(Seen(most)) - 1)
      /\ report.labels = [id \in {revs[i].id : i \in DOMAIN Labels} |->
                            Labels[CHOOSE i \in DOMAIN Labels : revs[i].id = id]]
  <2>1. report = IF n < 4 \/ Cardinality(FirstSeen) < 2 THEN NoLoop
                 ELSE [isLoop |-> TRUE,
                       states |-> Cardinality(FirstSeen),
                       cycles |-> Cardinality(Turns(Labels)) \div 2,
                       period |-> (revs[Max(Seen(most))].time - first) \div (Cardinality(Seen(most)) - 1),
                       first  |-> first,
                       labels |-> [id \in {revs[i].id : i \in DOMAIN Labels} |->
                                     Labels[CHOOSE i \in DOMAIN Labels : revs[i].id = id]],
                       sample |-> PatternSample(Labels)]
    BY DEF AnalyzeLoop, Repeating, Seen, FirstSeen, Labels
  <2>2. ~NoLoop.isLoop
    BY DEF NoLoop
  <2>3. ~(n < 4 \/ Cardinality(FirstSeen) < 2)
    BY <2>1, <2>2
  <2> HIDE DEF n, most, first
  <2>4. report = [isLoop |-> TRUE,
                  states |-> Cardinality(FirstSeen),
                  cycles |-> Cardinality(Turns(Labels)) \div 2,
                  period |-> (revs[Max(Seen(most))].time - first) \div (Cardinality(Seen(most)) - 1),
                  first  |-> first,
                  labels |-> [id \in {revs[i].id : i \in DOMAIN Labels} |->
                                Labels[CHOOSE i \in DOMAIN Labels : revs[i].id = id]],
                  sample |-> PatternSample(Labels)]
    BY <2>1, <2>3
  <2>6. n >= 4 /\ Cardinality(FirstSeen) >= 2
    BY <1>0, <1>1, <2>3
  <2>7. QED
    BY <2>4, <2>6
<1> HIDE DEF most, first, n
<1>3. Repeating \in SUBSET (1..n) /\ \A i \in Repeating : IsState(i)
  BY <1>1, RepeatingAreOfStates
<1>4. /\ Labels \in [Repeating -> 1..Cardinality(FirstSeen)] /\ DOMAIN Labels = Repeating
      /\ \A i, j \in Repeating : Labels[i] = Labels[j] <=> revs[i].obj = revs[j].obj
      /\ \A i \in Repeating : (\A j \in Repeating : i <= j) => Labels[i] = 1
  BY <1>1, LabelsTellStates
<1>5. FirstSeen # {} /\ FirstSeen \subseteq Repeating
  <2>1. FirstSeen = {} => Cardinality(FirstSeen) = 0
    BY FS_EmptySet
  <2>2. QED
    BY <1>2, <2>1 DEF FirstSeen
<1>6. DetectLoop(revs, WindowSize)
  <2>1. Looping(revs, LoopWindow(revs, WindowSize)) # {}
    BY <1>5 DEF Repeating
  <2>2. Len(revs) >= 3
    BY <1>1, <1>2 DEF n
  <2>3. QED
    BY <2>1, <2>2 DEF DetectLoop
<1> DEFINE labelled   == {i \in DOMAIN revs : revs[i].id \in DOMAIN report.labels}
           label(i)   == report.labels[revs[i].id]
           returns(i) == {j \in labelled : j > i /\ label(j) = label(i)}
<1>7. labelled = Repeating /\ \A i \in Repeating : label(i) = Labels[i]
  <2>1. \A i, j \in 1..n : revs[i].id = revs[j].id => i = j
    BY <1>1
  <2>2. /\ DOMAIN report.labels = {revs[i].id : i \in Repeating}
        /\ \A id \in DOMAIN report.labels : report.labels[id] = Labels[CHOOSE i \in Repeating : revs[i].id = id]
    BY <1>2, <1>4
  <2>3. labelled = Repeating
    <3>1. Repeating \subseteq labelled
      BY <1>1, <1>3, <2>2
    <3>2. ASSUME NEW i \in labelled PROVE i \in Repeating
      <4>1. PICK j \in Repeating : revs[j].id = revs[i].id
        BY <2>2
      <4>2. j = i
        BY <1>1, <1>3, <2>1, <4>1
      <4>3. QED
        BY <4>1, <4>2
    <3>3. QED
      BY <3>1, <3>2
  <2>4. ASSUME NEW i \in Repeating PROVE label(i) = Labels[i]
    <3>1. (CHOOSE j \in Repeating : revs[j].id = revs[i].id) = i
      BY <1>3, <2>1
    <3>2. revs[i].id \in DOMAIN report.labels
      BY <2>2
    <3>3. report.labels[revs[i].id] = Labels[CHOOSE j \in Repeating : revs[j].id = revs[i].id]
      BY <2>2, <3>2
    <3>4. QED
      BY <3>1, <3>3
  <2>5. QED
    BY <2>3, <2>4
<1> HIDE DEF labelled, label
<1>8. \A i, j \in labelled : label(i) = label(j) <=> revs[i].obj = revs[j].obj
  BY <1>4, <1>7
<1>9. \A i \in Repeating : returns(i) = {j \in Seen(i) : j > i}
  <2> SUFFICES ASSUME NEW i \in Repeating PROVE returns(i) = {j \in Seen(i) : j > i}
    OBVIOUS
  <2>1. \A j \in Repeating : label(j) = label(i) <=> j \in Seen(i)
    BY <1>3, <1>4, <1>7 DEF IsState
  <2>2. Seen(i) \subseteq Repeating
    BY <1>3 DEF IsState
  <2>3. QED
    BY <1>7, <2>1, <2>2
<1>10. \A i \in labelled : returns(i) # {} \/ \E j \in labelled : j < i /\ label(j) = label(i)
  <2> SUFFICES ASSUME NEW i \in Repeating PROVE returns(i) # {} \/ \E j \in Repeating : j < i /\ label(j) = label(i)
    BY <1>7
  <2>1. PICK j \in Seen(i) : j # i
    BY <1>3 DEF IsState
  <2>2. j \in Repeating /\ i \in Seen(i) /\ revs[j].obj = revs[i].obj
    BY <1>3 DEF IsState
  <2>3. label(j) = label(i)
    BY <1>4, <1>7, <2>2
  <2>4. i \in Int /\ j \in Int
    BY <1>3, <2>2
  <2>5. j > i \/ j < i
    BY <2>1, <2>4
  <2>6. QED
    BY <1>9, <2>2, <2>3, <2>5
<1> DEFINE starts == {i \in labelled : ~ \E j \in labelled : Precedes(j, i, labelled) /\ revs[j].obj = revs[i].obj}
<1>11. report.states = 2 => report.cycles = Cardinality({i \in starts : label(i) = 1}) - 1
  <2> SUFFICES ASSUME report.states = 2 PROVE report.cycles = Cardinality({i \in starts : label(i) = 1}) - 1
    OBVIOUS
  <2>1. Labels \in [Repeating -> {1, 2}]
    <3>1. 1..Cardinality(FirstSeen) = {1, 2}
      BY <1>2
    <3>2. QED
      BY <1>4, <3>1
  <2>2. starts = Starts(Labels)
    BY <1>4, <1>7 DEF Starts
  <2>3. {i \in starts : label(i) = 1} = Returns(Labels)
    BY <1>4, <1>7, <2>2 DEF Returns, Starts
  <2>4. PICK least \in Repeating : \A i \in Repeating : least <= i
    <3>1. Repeating \in SUBSET (1..n) /\ Repeating # {}
      BY <1>3, <1>5
    <3>2. Repeating \in SUBSET Nat
      BY <3>1
    <3>3. QED
      BY <3>1, <3>2, LeastOf
  <2>5. Labels[least] = 1
    BY <1>4, <2>4
  <2>6. Cardinality(Turns(Labels)) \div 2 = Cardinality(Returns(Labels)) - 1
    BY <1>1, <1>3, <2>1, <2>4, <2>5, EverySecondTurnReturns
  <2>7. QED
    BY <1>2, <2>3, <2>6
<1> DEFINE again   == {k \in labelled : returns(k) # {}}
           gap(i)  == revs[Min(returns(i))].time - revs[i].time
           gaps    == {gap(i) : i \in again}
<1>12. gaps # {} /\ Min(gaps) <= report.period /\ report.period <= Max(gaps)
  <2> DEFINE d == [i \in again |-> gap(i)]
             S == Seen(most)
             t == [i \in DOMAIN revs |-> revs[i].time]
  <2>1. most \in FirstSeen
    <3> DEFINE w == [i \in FirstSeen |-> Cardinality(Seen(i))]
               W == {w[i] : i \in FirstSeen}
               H == {i \in FirstSeen : w[i] = Max(W)}
    <3>1. FirstSeen \in SUBSET (1..n) /\ \A i \in FirstSeen : w[i] \in Nat
      BY <1>3, <1>5 DEF IsState
    <3>2. Max(W) \in W /\ \A x \in W : x <= Max(W)
      <4>1. \A i \in FirstSeen : w[i] \in Int
        BY <3>1
      <4>2. AreNumbers(W, FirstSeen, w)
        BY <4>1 DEF AreNumbers
      <4> HIDE DEF w, W
      <4>3. HasExtremes(W)
        BY <1>1, <1>5, <3>1, <4>2, ExtremesAreMembers
      <4>4. QED
        BY <4>3 DEF HasExtremes
    <3>3. H # {} /\ \A i \in FirstSeen : w[i] <= Max(W)
      <4> HIDE DEF w
      <4> QED BY <3>2
    <3>4. PICK i \in H : \A j \in H : i <= j
      <4>1. H \in SUBSET Nat
        <5>1. H \subseteq FirstSeen
          OBVIOUS
        <5> HIDE DEF H
        <5>2. \A i \in FirstSeen : i \in Nat
          BY <3>1, <1>1
        <5>3. QED
          BY <5>1, <5>2
      <4> HIDE DEF H
      <4>2. QED
        BY <3>3, <4>1, LeastOf
    <3>5. ASSUME NEW j \in FirstSeen \ {i} PROVE w[i] > w[j] \/ (w[i] = w[j] /\ i < j)
      <4>1. w[i] \in Int /\ w[j] \in Int /\ i \in Int /\ j \in Int /\ i # j
        BY <3>1
      <4>2. w[i] = Max(W) /\ w[j] <= w[i]
        BY <3>3
      <4>3. w[j] = w[i] => i <= j
        BY <3>4, <4>2
      <4> HIDE DEF w, W, H
      <4>4. QED
        BY <4>1, <4>2, <4>3
    <3>6. \E h \in FirstSeen : Heavier(h)
      <4>1. i \in FirstSeen /\ Heavier(i)
        BY <3>5
      <4>2. QED
        BY <4>1
    <3> HIDE DEF Heavier
    <3>7. QED
      BY <3>6 DEF most
  <2>2. most \in Repeating /\ IsState(most) /\ S \in SUBSET (1..n)
    <3>1. most \in Repeating /\ IsState(most)
      BY <1>3, <1>5, <2>1
    <3>2. S \subseteq Repeating
      BY <3>1 DEF IsState
    <3>3. QED
      BY <1>3, <3>1, <3>2
  <2>3. ASSUME NEW i \in S, NEW j \in S, Precedes(i, j, S)
        PROVE  i \in again /\ gap(i) = t[j] - t[i]
    <3>1. i \in Repeating /\ Seen(i) = S
      BY <2>2 DEF IsState
    <3>2. returns(i) = {k \in S : k > i}
      BY <1>9, <3>1
    <3>3. \A k \in S : k \in Int
      BY <2>2
    <3>4. j \in returns(i) /\ \A k \in returns(i) : j <= k
      BY <2>3, <3>2, <3>3 DEF Precedes
    <3>5. \A k \in returns(i) : k \in Int
      BY <3>2, <3>3
    <3> HIDE DEF returns
    <3>6. Min(returns(i)) = j
      <4>1. Min(returns(i)) \in returns(i) /\ \A k \in returns(i) : Min(returns(i)) <= k
        BY <3>4 DEF Min
      <4>2. QED
        BY <3>4, <3>5, <4>1
    <3>7. i \in DOMAIN revs /\ j \in DOMAIN revs
      BY <1>1, <2>2
    <3>8. QED
      BY <1>7, <3>1, <3>4, <3>6, <3>7
  <2>4. again \in SUBSET (1..n) /\ \A i \in again : gap(i) \in Int
    <3>1. again \in SUBSET (1..n)
      BY <1>3, <1>7
    <3>2. ASSUME NEW i \in again PROVE gap(i) \in Int
      <4>1. PICK R : R = returns(i)
        OBVIOUS
      <4>2. R # {} /\ R \in SUBSET (1..n)
        BY <1>3, <1>7, <4>1
      <4>3. PICK k \in R : \A j \in R : k <= j
        <5>1. R \in SUBSET Nat
          BY <4>2
        <5>2. QED
          BY <4>2, <5>1, LeastOf
      <4>4. Min(R) \in R
        BY <4>3 DEF Min
      <4>5. Min(R) \in 1..n /\ i \in 1..n
        BY <3>1, <4>2, <4>4
      <4> HIDE DEF returns, again
      <4>6. revs[Min(R)].time \in Int /\ revs[i].time \in Int
        BY <1>1, <4>5
      <4>7. QED
        BY <4>1, <4>6
    <3>3. QED
      BY <3>1, <3>2
  <2>5. PICK least \in S : least = Min(S) /\ \A j \in S : least <= j
    BY <2>2 DEF IsState
  <2>6. again # {}
    <3>1. PICK j \in S : j # least
      BY <2>2, <2>5 DEF IsState
    <3>2. least \in Int /\ j \in Int /\ least <= j
      BY <2>2, <2>5
    <3>3. j > least
      BY <3>1, <3>2
    <3>4. least \in Repeating /\ Seen(least) = S
      BY <2>2, <2>5 DEF IsState
    <3>5. j \in returns(least)
      BY <1>9, <3>3, <3>4
    <3> HIDE DEF returns
    <3>6. QED
      BY <1>7, <3>4, <3>5
  <2>7. /\ gaps # {} /\ Min(gaps) \in Int /\ Max(gaps) \in Int
        /\ \A i \in again : Min(gaps) <= gap(i) /\ gap(i) <= Max(gaps)
    <3>1. gaps = {d[i] : i \in again} /\ \A i \in again : d[i] = gap(i)
      OBVIOUS
    <3> HIDE DEF d, gap, gaps, again
    <3>2. \A i \in again : d[i] \in Int
      BY <2>4, <3>1
    <3>3. /\ Min(gaps) \in gaps /\ \A x \in gaps : Min(gaps) <= x
          /\ Max(gaps) \in gaps /\ \A x \in gaps : x <= Max(gaps)
      <4>1. AreNumbers(gaps, again, d)
        BY <3>1, <3>2 DEF AreNumbers
      <4>2. HasExtremes(gaps)
        BY <1>1, <2>4, <2>6, <4>1, ExtremesAreMembers
      <4>3. QED
        BY <4>2 DEF HasExtremes
    <3>4. QED
      BY <2>4, <3>1, <3>3
  <2>8. Spread(S, t, Min(gaps), Max(gaps)) /\ \A i \in S : t[i] \in Int
    <3> HIDE DEF gap, gaps, again, t
    <3>1. Spread(S, t, Min(gaps), Max(gaps))
      BY <2>3, <2>7 DEF Spread
    <3>2. \A i \in S : t[i] \in Int
      BY <1>1, <2>2 DEF t
    <3>3. QED
      BY <3>1, <3>2
  <2>9. PICK c, dist : c = Cardinality(S) - 1 /\ dist = t[Max(S)] - t[least]
    OBVIOUS
  <2>10. Max(S) \in S /\ c \in Nat /\ c * Min(gaps) <= dist /\ dist <= c * Max(gaps)
    <3> HIDE DEF gaps, t, S
    <3> QED BY <1>1, <2>2, <2>5, <2>7, <2>8, <2>9, DistancesAdd
  <2>11. c > 0 /\ dist \in Int
    <3>1. Cardinality(S) \in Nat /\ Cardinality(S) >= 2
      BY <2>2 DEF IsState
    <3> HIDE DEF gaps, t, S
    <3>2. c > 0
      BY <2>9, <3>1
    <3>3. dist \in Int
      BY <2>5, <2>8, <2>9, <2>10
    <3>4. QED
      BY <3>2, <3>3
  <2>12. report.period = dist \div c
    <3>1. Max(S) \in DOMAIN revs /\ least \in DOMAIN revs
      BY <1>1, <2>2, <2>5, <2>10
    <3>2. t[Max(S)] = revs[Max(S)].time /\ t[least] = first
      BY <2>5, <3>1 DEF first
    <3>3. QED
      BY <1>2, <2>9, <3>2
  <2> HIDE DEF gaps, t, S
  <2>13. QED
    BY <2>7, <2>10, <2>11, <2>12, MeansAreBetween
<1>13. QED
  <2>1. ReportIsSound(report)
    BY <1>8, <1>10, <1>11, <1>12 DEF ReportIsSound, labelled, label
  <2>2. QED
    BY <1>6, <2>1

(* However many revisions arrive and however wide the window is, the report   *)
(* that two states keep coming back labels those states, and counts and        *)
(* times their returns (internal/resource, AnalyzeLoop).                       *)
THEOREM LoopReportsAreSound == ArrivalsSpec => []LoopReportIsSound
<1>1. ArrivalsInit => ArrivalsAreNumbered
  BY EmptySeq DEF ArrivalsInit, ArrivalsAreNumbered
<1>2. ArrivalsAreNumbered /\ [NextRevision]_revs => ArrivalsAreNumbered'
  BY ArrivalKeepsNumbers
<1>3. ArrivalsAreNumbered => LoopReportIsSound
  BY ReportsAreSound DEF LoopReportIsSound
<1>4. QED
  BY <1>1, <1>2, <1>3, PTL DEF ArrivalsSpec

-----------------------------------------------------------------------------
(* An interval of numbers is finite, and has as many as its bounds say. *)
LEMMA IntervalCounts ==
  ASSUME NEW n \in Nat
  PROVE  IsFiniteSet(1..n) /\ Cardinality(1..n) = n
<1>1. IsFiniteSet(1..n) /\ Cardinality(1..n) = IF 1 > n THEN 0 ELSE n - 1 + 1
  BY FS_Interval
<1>2. QED
  BY <1>1

(* Places lists its members as pairs. *)
LEMMA PlacesArePairs ==
  ASSUME NEW s, NEW uids
  PROVE  \A p : p \in Places(s, uids) <=> \E u \in uids : \E n \in DOMAIN s.data[u].revs : p = <<u, n>>
BY DEF Places

(* A store that is listed is what StoreIsConsistent says: the places are as *)
(* many as the entries, which stand for them.                               *)
LEMMA ListedIsConsistent ==
  ASSUME NEW s, StoreIsListed(s)
  PROVE  StoreIsConsistent(s)
<1> DEFINE T == s.timeline
           U == DOMAIN s.data
<1>1. PICK place \in Bijection(DOMAIN T, Places(s, U)) : ListedAt(s, place)
  BY DEF StoreIsListed
<1>2. /\ T \in Seq(Range(T)) /\ s.total = Len(T)
      /\ \A u \in U : s.data[u] = [res |-> s.data[u].res, revs |-> s.data[u].revs] /\ s.data[u].res.uid = u
  BY DEF StoreIsListed, IsStore
<1>3. Len(T) \in Nat /\ DOMAIN T = 1..Len(T)
  BY <1>2, LenProperties
<1>4. s.total = RevisionCount(s, U)
  <2>1. ExistsBijection(DOMAIN T, Places(s, U))
    BY <1>1 DEF ExistsBijection
  <2>2. IsFiniteSet(DOMAIN T) /\ Cardinality(DOMAIN T) = Len(T)
    BY <1>3, IntervalCounts
  <2>3. Cardinality(Places(s, U)) = Len(T)
    BY <2>1, <2>2, FS_Bijection
  <2>4. QED
    BY <1>2, <2>3 DEF RevisionCount
<1>5. /\ \A i \in DOMAIN T : \E u \in U : \E n \in DOMAIN s.data[u].revs : place[i] = <<u, n>>
      /\ \A u \in U : \A n \in DOMAIN s.data[u].revs : \E i \in DOMAIN T : place[i] = <<u, n>>
  <2>1. \A p : p \in Places(s, U) <=> \E u \in U : \E n \in DOMAIN s.data[u].revs : p = <<u, n>>
    BY PlacesArePairs
  <2> DEFINE P == Places(s, U)
  <2> HIDE DEF P
  <2>2. place \in [DOMAIN T -> P] /\ \A p \in P : \E i \in DOMAIN T : place[i] = p
    BY <1>1 DEF Bijection, Injection, Surjection, P
  <2>3. \A i \in DOMAIN T : place[i] \in P
    BY <2>2
  <2>4. QED
    BY <2>1, <2>2, <2>3 DEF P
<1>6. \A i \in DOMAIN T : T[i] = [res |-> s.data[place[i][1]].res, rev |-> s.data[place[i][1]].revs[place[i][2]]]
  BY <1>1 DEF ListedAt
<1>7. ASSUME NEW e \in Range(T)
      PROVE  Stored(s, e.res.uid) /\ e.res = s.data[e.res.uid].res /\ e.rev \in Range(s.data[e.res.uid].revs)
  <2>1. PICK i \in DOMAIN T : e = T[i]
    BY DEF Range
  <2>2. PICK u \in U : \E n \in DOMAIN s.data[u].revs : place[i] = <<u, n>>
    BY <1>5
  <2>n. PICK n \in DOMAIN s.data[u].revs : place[i] = <<u, n>>
    BY <2>2
  <2>3. e = [res |-> s.data[u].res, rev |-> s.data[u].revs[n]]
    BY <1>6, <2>1, <2>n
  <2>4. e.res.uid = u
    BY <1>2, <2>3
  <2>5. QED
    BY <2>3, <2>4 DEF Stored, Range
<1>8. ASSUME NEW u \in U, NEW r \in Range(s.data[u].revs)
      PROVE  [res |-> s.data[u].res, rev |-> r] \in Range(T)
  <2>1. PICK n \in DOMAIN s.data[u].revs : r = s.data[u].revs[n]
    BY DEF Range
  <2>2. PICK i \in DOMAIN T : place[i] = <<u, n>>
    BY <1>5
  <2>3. T[i] = [res |-> s.data[u].res, rev |-> r]
    BY <1>6, <2>1, <2>2
  <2>4. QED
    BY <2>3 DEF Range
<1>9. QED
  BY <1>2, <1>4, <1>7, <1>8 DEF StoreIsConsistent

(* A resource as it may be stored, with the revisions it has. *)
IsData(d) ==
  /\ d = [res |-> d.res, revs |-> d.revs]
  /\ "uid" \in DOMAIN d.res /\ d.revs \in Seq(Range(d.revs))

(* A revision is appended to its resource and put in front of the timeline: *)
(* it has the one new place, and the first entry.                           *)
LEMMA RevisionIsListed ==
  ASSUME NEW s, StoreIsListed(s), NEW d, IsData(d), NEW rev,
         IF Stored(s, d.res.uid) THEN d = s.data[d.res.uid] ELSE d.revs = <<>>
  PROVE  StoreIsListed(WithRevision(s, d, rev))
<1> DEFINE T == s.timeline
           U == DOMAIN s.data
           uid == d.res.uid
           t == WithRevision(s, d, rev)
           e == [res |-> d.res, rev |-> rev]
           last == Len(d.revs) + 1
           new == [res |-> d.res, revs |-> Append(d.revs, rev)]
<1>1. PICK place \in Bijection(DOMAIN T, Places(s, U)) : ListedAt(s, place)
  BY DEF StoreIsListed
<1>2. /\ s = [data |-> s.data, timeline |-> T, groups |-> s.groups,
              watched |-> s.watched, unwatched |-> s.unwatched, total |-> s.total]
      /\ T \in Seq(Range(T)) /\ s.total = Len(T)
      /\ \A u \in U : IsData(s.data[u]) /\ s.data[u].res.uid = u
  BY DEF StoreIsListed, IsStore, IsData
<1>3. Len(T) \in Nat /\ DOMAIN T = 1..Len(T)
  BY <1>2, LenProperties
<1>4. /\ Len(d.revs) \in Nat /\ DOMAIN d.revs = 1..Len(d.revs)
      /\ \A n \in 1..Len(d.revs) : d.revs[n] \in Range(d.revs)
  <2>1. d.revs \in Seq(Range(d.revs))
    BY DEF IsData
  <2>2. QED
    BY <2>1, LenProperties, ElementOfSeq
<1>5. /\ Append(d.revs, rev) \in Seq(Range(d.revs) \union {rev}) /\ Len(Append(d.revs, rev)) = last
      /\ DOMAIN Append(d.revs, rev) = 1..last
      /\ \A n \in 1..Len(d.revs) : Append(d.revs, rev)[n] = d.revs[n]
      /\ Append(d.revs, rev)[last] = rev
  <2> DEFINE R == Range(d.revs) \union {rev}
  <2>1. d.revs \in Seq(R)
    <3>1. d.revs \in Seq(Range(d.revs)) /\ Range(d.revs) \subseteq R
      BY DEF IsData
    <3>2. QED
      BY <3>1, SeqMonotonic
  <2>2. rev \in R
    OBVIOUS
  <2> HIDE DEF R
  <2>3. /\ Append(d.revs, rev) \in Seq(R) /\ Len(Append(d.revs, rev)) = last
        /\ \A n \in 1..Len(d.revs) : Append(d.revs, rev)[n] = d.revs[n]
        /\ Append(d.revs, rev)[last] = rev
    BY <2>1, <2>2, AppendProperties
  <2>4. DOMAIN Append(d.revs, rev) = 1..last
    BY <2>3, LenProperties
  <2>5. QED
    BY <2>3, <2>4 DEF R
<1>6. /\ <<e>> \o T \in Seq(Range(T) \union {e}) /\ Len(<<e>> \o T) = Len(T) + 1
      /\ DOMAIN (<<e>> \o T) = 1..(Len(T) + 1)
      /\ (<<e>> \o T)[1] = e /\ \A i \in 2..(Len(T) + 1) : (<<e>> \o T)[i] = T[i - 1]
  <2> DEFINE R == Range(T) \union {e}
  <2> HIDE DEF e
  <2>1. T \in Seq(R) /\ <<e>> \in Seq(R) /\ Len(<<e>>) = 1 /\ <<e>>[1] = e
    <3>1. Range(T) \subseteq R
      OBVIOUS
    <3>2. T \in Seq(R)
      BY <1>2, <3>1, SeqMonotonic
    <3>3. QED
      BY <3>2
  <2> HIDE DEF R, T
  <2>2. /\ <<e>> \o T \in Seq(R) /\ Len(<<e>> \o T) = 1 + Len(T)
        /\ \A i \in 1..(1 + Len(T)) : (<<e>> \o T)[i] = IF i <= 1 THEN <<e>>[1] ELSE T[i - 1]
    <3>1. /\ <<e>> \o T \in Seq(R) /\ Len(<<e>> \o T) = Len(<<e>>) + Len(T)
          /\ \A i \in 1..(Len(<<e>>) + Len(T)) : (<<e>> \o T)[i] = IF i <= Len(<<e>>) THEN <<e>>[i] ELSE T[i - Len(<<e>>)]
      BY <2>1, ConcatProperties
    <3>2. QED
      BY <1>3, <2>1, <3>1
  <2>3. DOMAIN (<<e>> \o T) = 1..(Len(T) + 1)
    BY <1>3, <2>2, LenProperties
  <2>4. QED
    BY <1>3, <2>1, <2>2, <2>3 DEF R
<1>7. /\ DOMAIN t.data = U \union {uid}
      /\ t.data[uid] = new /\ \A u \in U : u # uid => t.data[u] = s.data[u]
      /\ t.timeline = <<e>> \o T /\ t.total = s.total + 1
      /\ t = [data |-> t.data, timeline |-> t.timeline, groups |-> t.groups,
              watched |-> t.watched, unwatched |-> t.unwatched, total |-> t.total]
  <2> DEFINE D2 == Put(s.data, uid, [d EXCEPT !.revs = Append(d.revs, rev)])
             E2 == <<e>> \o T
             N2 == s.total + 1
  <2>2. t = [s EXCEPT !.data = D2, !.timeline = E2, !.total = N2]
    BY DEF WithRevision
  <2> HIDE DEF t, D2, E2, N2
  <2>3. t = [data |-> D2, timeline |-> E2, groups |-> s.groups, watched |-> s.watched,
             unwatched |-> s.unwatched, total |-> N2]
    BY <1>2, <2>2
  <2>4. [d EXCEPT !.revs = Append(d.revs, rev)] = new
    BY DEF IsData
  <2>5. D2 = [u \in U \union {uid} |-> IF u = uid THEN new ELSE s.data[u]]
    BY <2>4 DEF D2, Put
  <2>6. t.data = D2 /\ t.timeline = E2 /\ t.total = N2
    BY <2>3
  <2>7. QED
    BY <2>3, <2>5, <2>6 DEF E2, N2
<1> HIDE DEF t
<1>8. IsStore(t)
  <2>1. t.timeline \in Seq(Range(t.timeline)) /\ t.total = Len(t.timeline)
    <3>1. t.timeline \in Seq(Range(t.timeline))
      BY <1>6, <1>7, SeqOfRange
    <3>2. QED
      BY <1>2, <1>3, <1>6, <1>7, <3>1
  <2>2. ASSUME NEW u \in DOMAIN t.data
        PROVE  /\ t.data[u] = [res |-> t.data[u].res, revs |-> t.data[u].revs]
               /\ t.data[u].res.uid = u /\ "uid" \in DOMAIN t.data[u].res
               /\ t.data[u].revs \in Seq(Range(t.data[u].revs))
    <3>1. CASE u = uid
      <4>1. t.data[u] = new
        BY <1>7, <3>1
      <4>2. new.revs \in Seq(Range(new.revs))
        BY <1>5, SeqOfRange
      <4>3. QED
        BY <3>1, <4>1, <4>2 DEF IsData
    <3>2. CASE u # uid
      BY <1>2, <1>7, <3>2 DEF IsData
    <3>3. QED
      BY <3>1, <3>2
  <2>3. QED
    BY <1>7, <2>1, <2>2 DEF IsStore
<1> DEFINE P == Places(s, U)
           Q == Places(t, DOMAIN t.data)
<1>9. Q = P \union {<<uid, last>>} /\ <<uid, last>> \notin P
  <2>1. ASSUME NEW u \in U
        PROVE  /\ u # uid => DOMAIN t.data[u].revs = DOMAIN s.data[u].revs
               /\ u = uid => DOMAIN s.data[u].revs = 1..Len(d.revs)
    BY <1>4, <1>7 DEF Stored
  <2>2. DOMAIN t.data[uid].revs = 1..last
    BY <1>5, <1>7
  <2>3. 1..last = (1..Len(d.revs)) \union {last} /\ last \notin 1..Len(d.revs)
    BY <1>4
  <2>4. uid \notin U => Len(d.revs) = 0
    BY DEF Stored
  <2> HIDE DEF uid, last
  <2>5. ASSUME NEW p
        PROVE  p \in Q <=> p \in P \/ p = <<uid, last>>
    <3>1. p \in Q <=> \E u \in U \union {uid} : \E n \in DOMAIN t.data[u].revs : p = <<u, n>>
      <4>1. p \in Places(t, DOMAIN t.data) <=>
              \E u \in DOMAIN t.data : \E n \in DOMAIN t.data[u].revs : p = <<u, n>>
        BY PlacesArePairs
      <4>2. DOMAIN t.data = U \union {uid}
        BY <1>7 DEF uid
      <4>3. QED
        BY ONLY <4>1, <4>2 DEF Q
    <3>2. p \in P <=> \E u \in U : \E n \in DOMAIN s.data[u].revs : p = <<u, n>>
      BY PlacesArePairs
    <3>3. ASSUME NEW u \in U, NEW n \in DOMAIN s.data[u].revs
          PROVE  n \in DOMAIN t.data[u].revs
      BY <2>1, <2>2, <2>3
    <3>4. ASSUME NEW u \in U \union {uid}, NEW n \in DOMAIN t.data[u].revs
          PROVE  (u \in U /\ n \in DOMAIN s.data[u].revs) \/ (u = uid /\ n = last)
      <4>1. CASE u # uid
        BY <2>1, <4>1
      <4>2. CASE u = uid /\ n # last
        <5>1. n \in 1..Len(d.revs)
          BY <2>2, <2>3, <4>2
        <5>2. uid \in U
          BY <2>4, <5>1
        <5>3. QED
          BY <2>1, <4>2, <5>1, <5>2
      <4>3. QED
        BY <4>1, <4>2
    <3>5. last \in DOMAIN t.data[uid].revs
      BY <2>2, <2>3
    <3>6. QED
      BY <3>1, <3>2, <3>3, <3>4, <3>5
  <2>6. <<uid, last>> \notin P
    <3> SUFFICES ASSUME <<uid, last>> \in P PROVE FALSE
      OBVIOUS
    <3>1. PICK u \in U : \E n \in DOMAIN s.data[u].revs : <<uid, last>> = <<u, n>>
      BY PlacesArePairs
    <3>2. QED
      BY <2>1, <2>3, <3>1
  <2> HIDE DEF P, Q
  <2>7. QED
    BY <2>5, <2>6
<1> DEFINE g == [i \in 1..(Len(T) + 1) |-> IF i = 1 THEN <<uid, last>> ELSE place[i - 1]]
<1>10. /\ place \in [1..Len(T) -> P]
       /\ \A i, j \in 1..Len(T) : place[i] = place[j] => i = j
       /\ \A p \in P : \E i \in 1..Len(T) : place[i] = p
  BY <1>1, <1>3 DEF Bijection, Injection, IsInjective, Surjection
<1> HIDE DEF P, Q, uid, last
<1>11. DOMAIN t.timeline = 1..(Len(T) + 1)
  BY <1>6, <1>7
<1>12. g \in Bijection(DOMAIN t.timeline, Q)
  <2>1. \A i \in 1..(Len(T) + 1) : i = 1 \/ (i # 1 /\ i - 1 \in 1..Len(T))
    BY <1>3
  <2>2. g \in [1..(Len(T) + 1) -> Q]
    BY <1>9, <1>10, <2>1
  <2>3. ASSUME NEW i \in 1..(Len(T) + 1), NEW j \in 1..(Len(T) + 1), g[i] = g[j]
        PROVE  i = j
    <3>1. \A k \in 1..(Len(T) + 1) : k # 1 => g[k] = place[k - 1] /\ k - 1 \in 1..Len(T) /\ place[k - 1] \in P
      BY <1>10, <2>1
    <3>2. g[1] = <<uid, last>> /\ 1 \in 1..(Len(T) + 1)
      BY <1>3
    <3> HIDE DEF g
    <3>3. CASE i = 1 \/ j = 1
      BY <1>9, <2>3, <3>1, <3>2, <3>3
    <3>4. CASE i # 1 /\ j # 1
      <4>1. i - 1 = j - 1
        BY <1>10, <2>3, <3>1, <3>4
      <4>2. QED
        BY <1>3, <4>1
    <3>5. QED
      BY <3>3, <3>4
  <2>4. \A p \in Q : \E i \in 1..(Len(T) + 1) : g[i] = p
    <3> TAKE p \in Q
    <3>1. CASE p = <<uid, last>>
      BY <1>3, <3>1
    <3>2. CASE p \in P
      <4>1. PICK i \in 1..Len(T) : place[i] = p
        BY <1>10, <3>2
      <4>2. i + 1 \in 1..(Len(T) + 1) /\ i + 1 # 1 /\ (i + 1) - 1 = i
        BY <1>3
      <4>3. g[i + 1] = p
        BY <4>1, <4>2
      <4>4. QED
        BY <4>2, <4>3
    <3>3. QED
      BY <1>9, <3>1, <3>2
  <2> HIDE DEF g
  <2>5. QED
    BY <1>11, <2>2, <2>3, <2>4 DEF Bijection, Injection, IsInjective, Surjection
<1>13. ListedAt(t, g)
  <2> SUFFICES ASSUME NEW i \in 1..(Len(T) + 1)
               PROVE  t.timeline[i] = [res |-> t.data[g[i][1]].res, rev |-> t.data[g[i][1]].revs[g[i][2]]]
    BY <1>11 DEF ListedAt
  <2>1. CASE i = 1
    <3>1. g[i] = <<uid, last>> /\ t.timeline[i] = e
      BY <1>3, <1>6, <1>7, <2>1
    <3>2. t.data[uid].res = d.res /\ t.data[uid].revs[last] = rev
      BY <1>5, <1>7 DEF last
    <3> HIDE DEF g
    <3>3. g[i][1] = uid /\ g[i][2] = last
      BY <3>1
    <3>4. QED
      BY <3>1, <3>2, <3>3
  <2>2. CASE i # 1
    <3>1. /\ i - 1 \in 1..Len(T) /\ i \in 2..(Len(T) + 1)
          /\ g[i] = place[i - 1] /\ t.timeline[i] = T[i - 1]
      BY <1>3, <1>6, <1>7, <2>2
    <3>2. PICK u \in U : \E n \in DOMAIN s.data[u].revs : place[i - 1] = <<u, n>>
      BY <1>10, <3>1, PlacesArePairs DEF P
    <3>n. PICK n \in DOMAIN s.data[u].revs : place[i - 1] = <<u, n>>
      BY <3>2
    <3>3. T[i - 1] = [res |-> s.data[u].res, rev |-> s.data[u].revs[n]]
      <4>1. T[i - 1] = [res |-> s.data[place[i - 1][1]].res,
                        rev |-> s.data[place[i - 1][1]].revs[place[i - 1][2]]]
        BY <1>1, <1>3, <3>1 DEF ListedAt
      <4>2. place[i - 1][1] = u /\ place[i - 1][2] = n
        BY <3>n
      <4>3. QED
        BY <4>1, <4>2
    <3>4. t.data[u].res = s.data[u].res /\ t.data[u].revs[n] = s.data[u].revs[n]
      <4>1. CASE u # uid
        BY <1>7, <4>1
      <4>2. CASE u = uid
        <5>1. d = s.data[u]
          BY <4>2 DEF Stored, uid
        <5>2. n \in 1..Len(d.revs)
          BY <1>4, <5>1
        <5>3. t.data[u] = new
          BY <1>7, <4>2
        <5>4. QED
          BY <1>5, <5>1, <5>2, <5>3
      <4>3. QED
        BY <4>1, <4>2
    <3>5. QED
      <4>1. g[i][1] = u /\ g[i][2] = n
        BY <3>1, <3>n
      <4> HIDE DEF g
      <4>2. QED
        BY <3>1, <3>3, <3>4, <4>1
  <2>3. QED
    BY <2>1, <2>2
<1>14. QED
  BY <1>8, <1>12, <1>13 DEF StoreIsListed, Q, t

(* What a method changes besides the resources and the timeline is not listed. *)
LEMMA FrameKeepsListed ==
  ASSUME NEW s, StoreIsListed(s), NEW t, NEW groups, NEW watched, NEW unwatched,
         t = [data |-> s.data, timeline |-> s.timeline, groups |-> groups,
              watched |-> watched, unwatched |-> unwatched, total |-> s.total]
  PROVE  StoreIsListed(t)
<1>1. t.data = s.data /\ t.timeline = s.timeline /\ t.total = s.total
  OBVIOUS
<1>2. t = [data |-> t.data, timeline |-> t.timeline, groups |-> t.groups,
           watched |-> t.watched, unwatched |-> t.unwatched, total |-> t.total]
  OBVIOUS
<1>3. IsStore(t)
  BY <1>1, <1>2 DEF StoreIsListed, IsStore
<1>4. Places(t, DOMAIN t.data) = Places(s, DOMAIN s.data)
  BY <1>1 DEF Places
<1>5. PICK place \in Bijection(DOMAIN s.timeline, Places(s, DOMAIN s.data)) : ListedAt(s, place)
  BY DEF StoreIsListed
<1>6. place \in Bijection(DOMAIN t.timeline, Places(t, DOMAIN t.data))
  BY <1>1, <1>4, <1>5
<1>7. ListedAt(t, place)
  BY <1>1, <1>5 DEF ListedAt
<1>8. QED
  BY <1>3, <1>6, <1>7 DEF StoreIsListed

(* What NewLiveStore returns. *)
LEMMA EmptyStoreIsListed == StoreIsListed(EmptyStore)
<1> DEFINE t == EmptyStore
<1>1. t.data = << >> /\ t.timeline = <<>> /\ t.total = 0
  BY DEF EmptyStore
<1>2. IsStore(t)
  <2>1. <<>> \in Seq(Range(<<>>)) /\ Len(<<>>) = 0
    BY EmptySeq
  <2>2. DOMAIN << >> = {}
    OBVIOUS
  <2>3. t = [data |-> t.data, timeline |-> t.timeline, groups |-> t.groups,
             watched |-> t.watched, unwatched |-> t.unwatched, total |-> t.total]
    BY DEF EmptyStore
  <2> HIDE DEF t
  <2>4. QED
    BY <1>1, <2>1, <2>2, <2>3 DEF IsStore
<1> HIDE DEF t
<1>3. Places(t, DOMAIN t.data) = {}
  BY <1>1 DEF Places
<1>4. DOMAIN t.timeline = {}
  BY <1>1
<1>5. << >> \in Bijection({}, {})
  BY DEF Bijection, Injection, Surjection, IsInjective
<1>6. ListedAt(t, << >>)
  BY <1>4 DEF ListedAt
<1>7. QED
  BY <1>2, <1>3, <1>4, <1>5, <1>6 DEF StoreIsListed, t

(* A resource as the records carry it: it has a UID. *)
LEMMA IngestKeepsListed ==
  ASSUME NEW s, StoreIsListed(s), NEW res, "uid" \in DOMAIN res, NEW rev
  PROVE  StoreIsListed(IngestRevision(s, res, rev))
<1>1. /\ s = [data |-> s.data, timeline |-> s.timeline, groups |-> s.groups,
              watched |-> s.watched, unwatched |-> s.unwatched, total |-> s.total]
      /\ \A u \in DOMAIN s.data : IsData(s.data[u]) /\ s.data[u].res.uid = u
  BY DEF StoreIsListed, IsStore, IsData
<1>2. CASE Stored(s, res.uid)
  <2>1. IsData(s.data[res.uid]) /\ s.data[res.uid].res.uid = res.uid
    BY <1>1, <1>2 DEF Stored
  <2>2. StoreIsListed(WithRevision(s, s.data[res.uid], rev))
    BY <1>2, <2>1, RevisionIsListed
  <2>3. QED
    BY <1>2, <2>2 DEF IngestRevision
<1>3. CASE ~Stored(s, res.uid)
  <2> DEFINE w == [s EXCEPT !.watched = @ \union {res.kind}]
             d == [res |-> res, revs |-> <<>>]
  <2>1. w = [data |-> s.data, timeline |-> s.timeline, groups |-> s.groups,
             watched |-> s.watched \union {res.kind}, unwatched |-> s.unwatched, total |-> s.total]
    <3> DEFINE W == s.watched \union {res.kind}
    <3>1. w = [s EXCEPT !.watched = W]
      OBVIOUS
    <3> HIDE DEF w, W
    <3>2. w = [data |-> s.data, timeline |-> s.timeline, groups |-> s.groups,
               watched |-> W, unwatched |-> s.unwatched, total |-> s.total]
      BY <1>1, <3>1
    <3>3. QED
      BY <3>2 DEF W
  <2> HIDE DEF w
  <2>2. StoreIsListed(w) /\ w.data = s.data
    BY <2>1, FrameKeepsListed
  <2>3. IsData(d) /\ d.res.uid = res.uid /\ d.revs = <<>>
    <3>1. <<>> \in Seq(Range(<<>>))
      BY EmptySeq
    <3>2. QED
      BY <3>1 DEF IsData
  <2> HIDE DEF d
  <2>4. ~Stored(w, d.res.uid)
    BY <1>3, <2>2, <2>3 DEF Stored
  <2>5. StoreIsListed(WithRevision(w, d, rev))
    BY <2>2, <2>3, <2>4, RevisionIsListed
  <2>6. QED
    BY <1>3, <2>5 DEF IngestRevision, w, d
<1>4. QED
  BY <1>2, <1>3

(* Watched and unwatched kinds, groups: nothing of what is listed. *)
LEMMA AddWatchKeepsListed ==
  ASSUME NEW s, StoreIsListed(s), NEW kind
  PROVE  StoreIsListed(AddWatchKind(s, kind))
<1> DEFINE t == AddWatchKind(s, kind)
           W == s.watched \union {kind}
           V == s.unwatched \ {kind}
<1>1. s = [data |-> s.data, timeline |-> s.timeline, groups |-> s.groups,
           watched |-> s.watched, unwatched |-> s.unwatched, total |-> s.total]
  BY DEF StoreIsListed, IsStore
<1>2. t = [s EXCEPT !.watched = W, !.unwatched = V]
  BY DEF AddWatchKind
<1> HIDE DEF t, W, V
<1>3. t = [data |-> s.data, timeline |-> s.timeline, groups |-> s.groups,
           watched |-> W, unwatched |-> V, total |-> s.total]
  BY <1>1, <1>2
<1>4. StoreIsListed(t)
  BY <1>3, FrameKeepsListed
<1>5. QED
  BY <1>4 DEF t

LEMMA SetUnwatchedKeepsListed ==
  ASSUME NEW s, StoreIsListed(s), NEW kinds
  PROVE  StoreIsListed(SetUnwatchedKinds(s, kinds))
<1> DEFINE t == SetUnwatchedKinds(s, kinds)
<1>1. s = [data |-> s.data, timeline |-> s.timeline, groups |-> s.groups,
           watched |-> s.watched, unwatched |-> s.unwatched, total |-> s.total]
  BY DEF StoreIsListed, IsStore
<1>2. t = [s EXCEPT !.unwatched = kinds]
  BY DEF SetUnwatchedKinds
<1> HIDE DEF t
<1>3. t = [data |-> s.data, timeline |-> s.timeline, groups |-> s.groups,
           watched |-> s.watched, unwatched |-> kinds, total |-> s.total]
  BY <1>1, <1>2
<1>4. StoreIsListed(t)
  BY <1>3, FrameKeepsListed
<1>5. QED
  BY <1>4 DEF t

LEMMA RegroupingKeepsListed ==
  ASSUME NEW s, StoreIsListed(s), NEW all
  PROVE  StoreIsListed(RebuildKindGroups(s, all))
<1> DEFINE t == RebuildKindGroups(s, all)
           G == BuildKindGroups(all)
<1>1. s = [data |-> s.data, timeline |-> s.timeline, groups |-> s.groups,
           watched |-> s.watched, unwatched |-> s.unwatched, total |-> s.total]
  BY DEF StoreIsListed, IsStore
<1>2. t = [s EXCEPT !.groups = G]
  BY DEF RebuildKindGroups
<1> HIDE DEF t, G
<1>3. t = [data |-> s.data, timeline |-> s.timeline, groups |-> G,
           watched |-> s.watched, unwatched |-> s.unwatched, total |-> s.total]
  BY <1>1, <1>2
<1>4. StoreIsListed(t)
  BY <1>3, FrameKeepsListed
<1>5. QED
  BY <1>4 DEF t

(* A function on 1..n is a sequence of that length. *)
LEMMA NumberedIsASequence ==
  ASSUME NEW n \in Nat, NEW f, f = [i \in 1..n |-> f[i]]
  PROVE  f \in Seq(Range(f)) /\ Len(f) = n
<1>1. f \in [1..n -> Range(f)]
  BY DEF Range
<1>2. f \in Seq(Range(f))
  BY <1>1, SeqDef
<1>3. DOMAIN f = 1..n /\ DOMAIN f = 1..Len(f) /\ Len(f) \in Nat
  BY <1>1, <1>2, LenProperties
<1>4. QED
  BY <1>2, <1>3

(* Sorting moves the entries and their places with them. *)
LEMMA SortingKeepsListed ==
  ASSUME NEW s, StoreIsListed(s)
  PROVE  StoreIsListed(SortTimeline(s))
<1> DEFINE T == s.timeline
           N == Len(T)
           R == NewestFirst(T)
           P == Places(s, DOMAIN s.data)
           t == SortTimeline(s)
<1>1. /\ s = [data |-> s.data, timeline |-> T, groups |-> s.groups,
              watched |-> s.watched, unwatched |-> s.unwatched, total |-> s.total]
      /\ T \in Seq(Range(T)) /\ s.total = N
  BY DEF StoreIsListed, IsStore
<1>2. N \in Nat /\ DOMAIN T = 1..N
  BY <1>1, LenProperties
<1>3. PICK place \in Bijection(1..N, P) : ListedAt(s, place)
  BY <1>2 DEF StoreIsListed
<1>4. /\ R \in Seq(Range(T)) /\ Len(R) = N
      /\ \E from \in Bijection(1..N, 1..N) : \A k \in 1..N : R[k] = T[from[k]]
  BY <1>1, SortPermutes
<1>5. PICK from \in Bijection(1..N, 1..N) : \A k \in 1..N : R[k] = T[from[k]]
  BY <1>4
<1>6. t = [s EXCEPT !.timeline = R]
  BY DEF SortTimeline
<1>7. DOMAIN R = 1..N /\ R \in Seq(Range(R))
  BY <1>4, LenProperties, SeqOfRange
<1> HIDE DEF R, t
<1>8. t = [data |-> s.data, timeline |-> R, groups |-> s.groups,
           watched |-> s.watched, unwatched |-> s.unwatched, total |-> s.total]
  BY <1>1, <1>6
<1>9. /\ t.data = s.data /\ t.timeline = R /\ t.total = s.total
      /\ t = [data |-> t.data, timeline |-> t.timeline, groups |-> t.groups,
              watched |-> t.watched, unwatched |-> t.unwatched, total |-> t.total]
  BY <1>8
<1>10. IsStore(t)
  BY <1>1, <1>4, <1>7, <1>9 DEF StoreIsListed, IsStore
<1>11. Places(t, DOMAIN t.data) = P
  BY <1>9 DEF Places
<1> DEFINE g == [k \in 1..N |-> place[from[k]]]
<1> HIDE DEF P
<1>12. /\ place \in [1..N -> P] /\ \A i, j \in 1..N : place[i] = place[j] => i = j
       /\ \A p \in P : \E i \in 1..N : place[i] = p
       /\ from \in [1..N -> 1..N] /\ \A i, j \in 1..N : from[i] = from[j] => i = j
       /\ \A p \in 1..N : \E i \in 1..N : from[i] = p
  BY <1>3, <1>5 DEF Bijection, Injection, IsInjective, Surjection
<1>13. g \in Bijection(1..N, P)
  <2>1. g \in [1..N -> P]
    BY <1>12
  <2>2. \A i, j \in 1..N : g[i] = g[j] => i = j
    BY <1>12
  <2>3. \A p \in P : \E i \in 1..N : g[i] = p
    <3> TAKE p \in P
    <3>1. PICK i \in 1..N : place[i] = p
      BY <1>12
    <3>2. PICK k \in 1..N : from[k] = i
      BY <1>12
    <3>3. g[k] = p
      BY <3>1, <3>2
    <3>4. QED
      BY <3>3
  <2> HIDE DEF g
  <2>4. QED
    BY <2>1, <2>2, <2>3 DEF Bijection, Injection, IsInjective, Surjection
<1>14. ListedAt(t, g)
  <2> SUFFICES ASSUME NEW k \in 1..N
               PROVE  R[k] = [res |-> s.data[g[k][1]].res, rev |-> s.data[g[k][1]].revs[g[k][2]]]
    BY <1>7, <1>9 DEF ListedAt
  <2>1. from[k] \in 1..N /\ g[k] = place[from[k]]
    BY <1>12
  <2> HIDE DEF g
  <2>2. T[from[k]] = [res |-> s.data[place[from[k]][1]].res, rev |-> s.data[place[from[k]][1]].revs[place[from[k]][2]]]
    BY <1>2, <1>3, <2>1 DEF ListedAt
  <2>3. QED
    BY <1>5, <2>1, <2>2
<1>15. QED
  BY <1>7, <1>9, <1>10, <1>11, <1>13, <1>14 DEF StoreIsListed, t

(* A star is turned on the resource and on every entry of it, which leaves *)
(* each entry what its place says.                                         *)
LEMMA StarringKeepsListed ==
  ASSUME NEW s, StoreIsListed(s), NEW uid
  PROVE  StoreIsListed(ToggleStar(s, uid))
<1> DEFINE T == s.timeline
           U == DOMAIN s.data
           on == ~s.data[uid].res.starred
           star == [s.data[uid].res EXCEPT !.starred = on]
           R == [i \in DOMAIN T |-> IF T[i].res.uid = uid THEN [T[i] EXCEPT !.res.starred = on] ELSE T[i]]
           t == ToggleStar(s, uid)
<1>1. CASE ~Stored(s, uid)
  BY <1>1 DEF ToggleStar
<1>2. CASE Stored(s, uid)
  <2>1. /\ s = [data |-> s.data, timeline |-> T, groups |-> s.groups,
                watched |-> s.watched, unwatched |-> s.unwatched, total |-> s.total]
        /\ T \in Seq(Range(T)) /\ s.total = Len(T)
        /\ \A u \in U : /\ s.data[u] = [res |-> s.data[u].res, revs |-> s.data[u].revs]
                        /\ s.data[u].res.uid = u /\ "uid" \in DOMAIN s.data[u].res
                        /\ s.data[u].revs \in Seq(Range(s.data[u].revs))
    BY DEF StoreIsListed, IsStore
  <2>2. Len(T) \in Nat /\ DOMAIN T = 1..Len(T)
    BY <2>1, LenProperties
  <2>3. uid \in U
    BY <1>2 DEF Stored
  <2> DEFINE D == [s.data EXCEPT ![uid].res.starred = on]
  <2>4. t = [s EXCEPT !.data = D, !.timeline = R]
    BY <1>2, Zenon DEF ToggleStar
  <2>5. /\ DOMAIN D = U
        /\ D[uid] = [res |-> star, revs |-> s.data[uid].revs]
        /\ \A u \in U : u # uid => D[u] = s.data[u]
    <3> HIDE DEF on
    <3>1. DOMAIN D = U /\ \A u \in U : u # uid => D[u] = s.data[u]
      OBVIOUS
    <3>2. D[uid] = [s.data[uid] EXCEPT !.res.starred = on]
      BY <2>3
    <3> DEFINE d == s.data[uid]
    <3>3. d = [res |-> d.res, revs |-> d.revs]
      BY <2>1, <2>3
    <3> HIDE DEF D
    <3>4. D[uid] = [res |-> star, revs |-> s.data[uid].revs]
      BY <3>2, <3>3
    <3>5. QED
      BY <3>1, <3>4
  <2>6. star.uid = uid /\ "uid" \in DOMAIN star
    BY <2>1, <2>3
  <2> HIDE DEF t, D, R, star
  <2>7. /\ t.data = D /\ t.timeline = R /\ t.total = s.total
        /\ t = [data |-> t.data, timeline |-> t.timeline, groups |-> t.groups,
                watched |-> t.watched, unwatched |-> t.unwatched, total |-> t.total]
    BY <2>1, <2>4
  <2>8. DOMAIN R = 1..Len(T) /\ Len(R) = Len(T) /\ R \in Seq(Range(R))
    <3>1. R = [i \in 1..Len(T) |-> R[i]] /\ DOMAIN R = 1..Len(T)
      BY <2>2 DEF R
    <3>2. QED
      BY <2>2, <3>1, NumberedIsASequence
  <2>9. IsStore(t)
    <3>1. ASSUME NEW u \in DOMAIN t.data
          PROVE  /\ t.data[u] = [res |-> t.data[u].res, revs |-> t.data[u].revs]
                 /\ t.data[u].res.uid = u /\ "uid" \in DOMAIN t.data[u].res
                 /\ t.data[u].revs \in Seq(Range(t.data[u].revs))
      <4>1. CASE u = uid
        BY <2>1, <2>3, <2>5, <2>6, <2>7, <4>1
      <4>2. CASE u # uid
        BY <2>1, <2>5, <2>7, <4>2
      <4>3. QED
        BY <4>1, <4>2
    <3>2. QED
      BY <2>1, <2>7, <2>8, <3>1 DEF IsStore
  <2>10. \A u \in U : DOMAIN D[u].revs = DOMAIN s.data[u].revs /\ D[u].revs = s.data[u].revs
    BY <2>3, <2>5
  <2>11. Places(t, DOMAIN t.data) = Places(s, U)
    BY <2>5, <2>7, <2>10 DEF Places
  <2>12. PICK place \in Bijection(DOMAIN T, Places(s, U)) : ListedAt(s, place)
    BY DEF StoreIsListed
  <2>13. ListedAt(t, place)
    <3> SUFFICES ASSUME NEW i \in DOMAIN T
                 PROVE  R[i] = [res |-> D[place[i][1]].res, rev |-> D[place[i][1]].revs[place[i][2]]]
      BY <2>2, <2>7, <2>8 DEF ListedAt
    <3>1. place[i] \in Places(s, U)
      BY <2>12 DEF Bijection, Injection
    <3>2. PICK u \in U : \E n \in DOMAIN s.data[u].revs : place[i] = <<u, n>>
      BY <3>1, PlacesArePairs
    <3>3. PICK n \in DOMAIN s.data[u].revs : place[i] = <<u, n>>
      BY <3>2
    <3>4. place[i][1] = u /\ place[i][2] = n
      BY <3>3
    <3>5. T[i] = [res |-> s.data[u].res, rev |-> s.data[u].revs[n]]
      BY <2>12, <3>4 DEF ListedAt
    <3>6. T[i].res.uid = u
      BY <2>1, <3>5
    <3>7. CASE u = uid
      <4>1. R[i] = [T[i] EXCEPT !.res.starred = on]
        BY <3>6, <3>7 DEF R
      <4>2. R[i] = [res |-> star, rev |-> s.data[u].revs[n]]
        <5> HIDE DEF on
        <5>1. QED
          BY <3>5, <3>7, <4>1 DEF star
      <4>3. QED
        BY <2>5, <2>10, <3>4, <3>7, <4>2
    <3>8. CASE u # uid
      BY <2>5, <3>4, <3>5, <3>6, <3>8 DEF R
    <3>9. QED
      BY <3>7, <3>8
  <2>14. place \in Bijection(DOMAIN t.timeline, Places(t, DOMAIN t.data))
    BY <2>2, <2>7, <2>8, <2>11, <2>12
  <2>15. StoreIsListed(t)
    BY <2>9, <2>13, <2>14 DEF StoreIsListed
  <2>16. QED
    BY <2>15 DEF t
<1>3. QED
  BY <1>1, <1>2

(* A kind's resources go, and with them the entries of their places: what is *)
(* kept of the timeline still has the places that are kept, one each, and    *)
(* the counter loses as many as there were revisions.                        *)
LEMMA RemovingKeepsListed ==
  ASSUME NEW s, StoreIsListed(s), NEW kind
  PROVE  StoreIsListed(RemoveWatchKind(s, kind))
<1> DEFINE T == s.timeline
           U == DOMAIN s.data
           Gone == OfKind(s, kind)
           Left == U \ Gone
           at == {i \in DOMAIN T : T[i].res.kind # kind}
           pick == [k \in 1..Cardinality(at) |-> CHOOSE i \in at : Cardinality({j \in at : j <= i}) = k]
           D == [u \in Left |-> s.data[u]]
           R == [k \in 1..Cardinality(at) |-> T[CHOOSE i \in at : Cardinality({j \in at : j <= i}) = k]]
           M == s.total - RevisionCount(s, Gone)
           W == s.watched \ {kind}
           t == RemoveWatchKind(s, kind)
<1>1. /\ s = [data |-> s.data, timeline |-> T, groups |-> s.groups,
              watched |-> s.watched, unwatched |-> s.unwatched, total |-> s.total]
      /\ T \in Seq(Range(T)) /\ s.total = Len(T)
      /\ \A u \in U : /\ s.data[u] = [res |-> s.data[u].res, revs |-> s.data[u].revs]
                      /\ s.data[u].res.uid = u /\ "uid" \in DOMAIN s.data[u].res
                      /\ s.data[u].revs \in Seq(Range(s.data[u].revs))
  BY DEF StoreIsListed, IsStore
<1>2. Len(T) \in Nat /\ DOMAIN T = 1..Len(T)
  BY <1>1, LenProperties
<1>3. PICK place \in Bijection(DOMAIN T, Places(s, U)) : ListedAt(s, place)
  BY DEF StoreIsListed
<1>4. t = [s EXCEPT !.watched = W, !.total = M, !.data = D, !.timeline = R]
  BY DEF RemoveWatchKind, Filtered
<1>5. at \in SUBSET Nat /\ at \subseteq DOMAIN T /\ IsFiniteSet(at)
  <2>1. IsFiniteSet(1..Len(T))
    BY <1>2, IntervalCounts
  <2>2. at \in SUBSET (1..Len(T))
    BY <1>2
  <2>3. QED
    BY <1>2, <2>1, <2>2, FS_Subset
<1> HIDE DEF at
<1>6. Cardinality(at) \in Nat /\ pick \in Bijection(1..Cardinality(at), at)
  BY <1>5, RanksNumberASet
<1> DEFINE n == Cardinality(at)
<1>7. \A k \in 1..n : R[k] = T[pick[k]]
  OBVIOUS
<1>8. R = [k \in 1..n |-> R[k]] /\ DOMAIN R = 1..n
  OBVIOUS
<1> HIDE DEF pick, R, t, M, W, n
<1>9. t = [data |-> D, timeline |-> R, groups |-> s.groups,
           watched |-> W, unwatched |-> s.unwatched, total |-> M]
  <2> HIDE DEF D
  <2>1. QED
    BY <1>1, <1>4
<1>10. /\ t.data = D /\ t.timeline = R /\ t.total = M
       /\ t = [data |-> t.data, timeline |-> t.timeline, groups |-> t.groups,
               watched |-> t.watched, unwatched |-> t.unwatched, total |-> t.total]
  <2> HIDE DEF D
  <2>1. QED
    BY <1>9
<1>11. n \in Nat /\ pick \in Bijection(1..n, at)
  BY <1>6 DEF n
<1>12. R \in Seq(Range(R)) /\ Len(R) = n
  BY <1>8, <1>11, NumberedIsASequence
<1> DEFINE P == Places(s, U)
           Q == Places(t, DOMAIN t.data)
           lost == Places(s, Gone)
<1>13. \A p : /\ p \in P <=> \E u \in U : \E k \in DOMAIN s.data[u].revs : p = <<u, k>>
              /\ p \in lost <=> \E u \in Gone : \E k \in DOMAIN s.data[u].revs : p = <<u, k>>
              /\ p \in Q <=> \E u \in Left : \E k \in DOMAIN s.data[u].revs : p = <<u, k>>
  <2>1. \A p : p \in Q <=> \E u \in DOMAIN t.data : \E k \in DOMAIN t.data[u].revs : p = <<u, k>>
    BY PlacesArePairs
  <2>2. DOMAIN t.data = Left /\ \A u \in Left : t.data[u] = s.data[u]
    BY <1>10
  <2>3. \A p : p \in P <=> \E u \in U : \E k \in DOMAIN s.data[u].revs : p = <<u, k>>
    BY PlacesArePairs
  <2>4. \A p : p \in lost <=> \E u \in Gone : \E k \in DOMAIN s.data[u].revs : p = <<u, k>>
    BY PlacesArePairs
  <2> HIDE DEF P, Q, lost, Left, Gone, U
  <2>5. QED
    BY <2>1, <2>2, <2>3, <2>4
<1>14. Q = P \ lost /\ lost \subseteq P
  <2>1. Gone \subseteq U
    BY DEF OfKind
  <2> HIDE DEF P, Q, lost, Gone, U
  <2>2. \A p : p \in lost => p \in P
    BY <1>13, <2>1
  <2>3. \A p : p \in Q => p \in P /\ p \notin lost
    BY <1>13
  <2>4. \A p : p \in P /\ p \notin lost => p \in Q
    BY <1>13
  <2>5. QED
    BY <2>2, <2>3, <2>4
<1> HIDE DEF P, Q, lost
<1>15. /\ place \in [DOMAIN T -> P] /\ \A i, j \in DOMAIN T : place[i] = place[j] => i = j
       /\ \A p \in P : \E i \in DOMAIN T : place[i] = p
       /\ pick \in [1..n -> at] /\ \A i, j \in 1..n : pick[i] = pick[j] => i = j
       /\ \A i \in at : \E k \in 1..n : pick[k] = i
  BY <1>3, <1>11 DEF Bijection, Injection, IsInjective, Surjection, P
<1>16. ASSUME NEW i \in DOMAIN T
       PROVE  i \in at <=> place[i] \in Q
  <2>1. PICK u \in U : \E k \in DOMAIN s.data[u].revs : place[i] = <<u, k>>
    BY <1>13, <1>15
  <2>2. PICK k \in DOMAIN s.data[u].revs : place[i] = <<u, k>>
    BY <2>1
  <2>3. T[i] = [res |-> s.data[u].res, rev |-> s.data[u].revs[k]]
    <3>1. T[i] = [res |-> s.data[place[i][1]].res, rev |-> s.data[place[i][1]].revs[place[i][2]]]
      BY <1>3 DEF ListedAt
    <3>2. place[i][1] = u /\ place[i][2] = k
      BY <2>2
    <3>3. QED
      BY <3>1, <3>2
  <2>4. i \in at <=> s.data[u].res.kind # kind
    BY <2>3 DEF at
  <2>5. u \in Left <=> s.data[u].res.kind # kind
    BY DEF OfKind
  <2> HIDE DEF Left
  <2>6. place[i] \in Q <=> u \in Left
    BY <1>13, <2>2
  <2>7. QED
    BY <2>4, <2>5, <2>6
<1> DEFINE g == [k \in 1..n |-> place[pick[k]]]
<1>17. g \in Bijection(1..n, Q)
  <2>1. \A k \in 1..n : pick[k] \in at /\ pick[k] \in DOMAIN T
    BY <1>5, <1>15
  <2>2. g \in [1..n -> Q]
    BY <1>16, <2>1
  <2>3. \A k, l \in 1..n : g[k] = g[l] => k = l
    BY <1>15, <2>1
  <2>4. \A p \in Q : \E k \in 1..n : g[k] = p
    <3> TAKE p \in Q
    <3>1. PICK i \in DOMAIN T : place[i] = p
      BY <1>14, <1>15
    <3>2. i \in at
      BY <1>16, <3>1
    <3>3. PICK k \in 1..n : pick[k] = i
      BY <1>15, <3>2
    <3>4. g[k] = p
      BY <3>1, <3>3
    <3>5. QED
      BY <3>4
  <2> HIDE DEF g
  <2>5. QED
    BY <2>2, <2>3, <2>4 DEF Bijection, Injection, IsInjective, Surjection
<1>18. M = n
  <2>1. IsFiniteSet(1..Len(T)) /\ Cardinality(1..Len(T)) = Len(T)
    BY <1>2, IntervalCounts
  <2>2. IsFiniteSet(1..n) /\ Cardinality(1..n) = n
    BY <1>11, IntervalCounts
  <2>3. IsFiniteSet(P) /\ Cardinality(P) = Len(T)
    <3>1. ExistsBijection(1..Len(T), P)
      BY <1>2, <1>3 DEF ExistsBijection, P
    <3>2. QED
      BY <2>1, <3>1, FS_Bijection
  <2>4. IsFiniteSet(Q) /\ Cardinality(Q) = n
    <3>1. ExistsBijection(1..n, Q)
      BY <1>17 DEF ExistsBijection
    <3>2. QED
      BY <2>2, <3>1, FS_Bijection
  <2>5. IsFiniteSet(lost) /\ Cardinality(lost) \in Nat
    <3>1. lost \in SUBSET P
      BY <1>14
    <3>2. IsFiniteSet(lost)
      BY <2>3, <3>1, FS_Subset
    <3>3. QED
      BY <3>2, FS_CardinalityType
  <2>6. Cardinality(P \ lost) = Cardinality(P) - Cardinality(P \cap lost)
    BY <2>3, FS_Difference
  <2>7. P \cap lost = lost
    BY <1>14
  <2>8. M = Len(T) - Cardinality(lost)
    BY <1>1 DEF M, RevisionCount, lost
  <2>9. QED
    BY <1>2, <1>11, <1>14, <2>3, <2>4, <2>5, <2>6, <2>7, <2>8
<1>19. IsStore(t)
  <2>1. ASSUME NEW u \in DOMAIN t.data
        PROVE  /\ t.data[u] = [res |-> t.data[u].res, revs |-> t.data[u].revs]
               /\ t.data[u].res.uid = u /\ "uid" \in DOMAIN t.data[u].res
               /\ t.data[u].revs \in Seq(Range(t.data[u].revs))
    <3>1. u \in U /\ t.data[u] = s.data[u]
      BY <1>10
    <3>2. QED
      BY <1>1, <3>1
  <2>2. QED
    BY <1>10, <1>12, <1>18, <2>1 DEF IsStore
<1>20. ListedAt(t, g)
  <2> SUFFICES ASSUME NEW k \in 1..n
               PROVE  R[k] = [res |-> D[g[k][1]].res, rev |-> D[g[k][1]].revs[g[k][2]]]
    BY <1>8, <1>10 DEF ListedAt, n
  <2>1. pick[k] \in DOMAIN T /\ g[k] = place[pick[k]] /\ g[k] \in Q
    BY <1>5, <1>15, <1>16
  <2> HIDE DEF g
  <2>2. R[k] = [res |-> s.data[g[k][1]].res, rev |-> s.data[g[k][1]].revs[g[k][2]]]
    BY <1>3, <1>7, <2>1 DEF ListedAt, n
  <2>3. g[k][1] \in Left
    <3> HIDE DEF Left
    <3>1. PICK u \in Left : \E m \in DOMAIN s.data[u].revs : g[k] = <<u, m>>
      BY <1>13, <2>1
    <3>2. QED
      BY <3>1
  <2>4. D[g[k][1]] = s.data[g[k][1]]
    BY <2>3
  <2>5. QED
    BY <2>2, <2>4
<1>21. StoreIsListed(t)
  <2>1. DOMAIN t.timeline = 1..n
    BY <1>8, <1>10 DEF n
  <2>2. QED
    BY <1>17, <1>19, <1>20, <2>1 DEF StoreIsListed, Q
<1>22. QED
  BY <1>21 DEF t

-----------------------------------------------------------------------------
(* In a session that is no simulation the store is listed and every job that *)
(* is left is one of the scenario's.                                          *)
StoreInv ==
  /\ scenario \in Scenarios
  /\ ~Simulating => /\ StoreIsListed(store)
                    /\ DOMAIN feed = Senders
                    /\ \A sender \in Senders : feed[sender] \in Seq(Range(scenario.feed[sender]))

(* The invariant is about the store and the work of the goroutines. *)
LEMMA StoreKept ==
  ASSUME StoreInv, ~Simulating => StoreIsListed(store'), UNCHANGED <<scenario, feed>>
  PROVE  StoreInv'
BY DEF StoreInv, Simulating

(* Messages that leave the store alone. *)
LEMMA MessageKeepsStore ==
  ASSUME StoreInv, NEW m,
    \/ ResourceSelected(m) \/ RevisionSelected(m) \/ TimelineEntrySelected(m)
    \/ ToggleTimelineStarred(m) \/ ToggleExplorerStarred(m)
    \/ ViewModeChanged(m) \/ CompareMark(m) \/ CompareClear(m) \/ JumpToTimeline(m)
    \/ SetAutoScrollOff(m) \/ AnalysisComplete(m) \/ Pause(m)
    \/ PaletteCommand(m) \/ ShowJump(m) \/ Quit(m)
  PROVE  StoreInv'
<1>1. SUFFICES UNCHANGED <<store, scenario, feed>>
  BY <1>1 DEF StoreInv, Simulating
<1>2. CASE ResourceSelected(m)
  BY <1>2 DEF ResourceSelected, Handled, Becomes
<1>3. CASE RevisionSelected(m)
  BY <1>3 DEF RevisionSelected, Handled, Becomes
<1>4. CASE TimelineEntrySelected(m)
  BY <1>4 DEF TimelineEntrySelected, Handled, Becomes
<1>5. CASE ToggleTimelineStarred(m)
  BY <1>5 DEF ToggleTimelineStarred, Handled, Becomes
<1>6. CASE ToggleExplorerStarred(m)
  BY <1>6 DEF ToggleExplorerStarred, Handled, Becomes
<1>7. CASE ViewModeChanged(m)
  BY <1>7 DEF ViewModeChanged, Handled, Becomes
<1>8. CASE CompareMark(m)
  BY <1>8 DEF CompareMark, Handled, Becomes
<1>9. CASE CompareClear(m)
  BY <1>9 DEF CompareClear, Handled, Becomes
<1>10. CASE JumpToTimeline(m)
  BY <1>10 DEF JumpToTimeline, Handled, Becomes
<1>11. CASE SetAutoScrollOff(m)
  BY <1>11 DEF SetAutoScrollOff, Handled, Becomes
<1>12. CASE AnalysisComplete(m)
  BY <1>12 DEF AnalysisComplete, Handled, Becomes
<1>13. CASE Pause(m)
  BY <1>13 DEF Pause, Handled, Becomes
<1>14. CASE PaletteCommand(m)
  BY <1>14 DEF PaletteCommand, Plainly, Handled, Becomes
<1>15. CASE ShowJump(m)
  BY <1>15 DEF ShowJump, Plainly, Handled, Becomes
<1>16. CASE Quit(m)
  BY <1>16 DEF Quit
<1>17. QED
  BY <1>2, <1>3, <1>4, <1>5, <1>6, <1>7, <1>8, <1>9, <1>10, <1>11, <1>12, <1>13, <1>14, <1>15, <1>16

(* Grouping anew, in whatever order the map is iterated over. *)
LEMMA RegroupedIsListed ==
  ASSUME NEW s, StoreIsListed(s), NEW t \in Regrouped(s)
  PROVE  StoreIsListed(t)
BY RegroupingKeepsListed DEF Regrouped

(* toggleStar. *)
LEMMA StarKeepsStore ==
  ASSUME StoreInv, NEW m, ToggleStarred(m)
  PROVE  StoreInv'
<1>1. UNCHANGED <<scenario, feed>> /\ (store' = store \/ store' \in Regrouped(ToggleStar(store, m.arg)))
  BY DEF ToggleStarred, Handled, Becomes
<1>2. ASSUME ~Simulating PROVE StoreIsListed(store')
  <2>1. StoreIsListed(store)
    BY <1>2 DEF StoreInv
  <2>2. StoreIsListed(ToggleStar(store, m.arg))
    BY <2>1, StarringKeepsListed
  <2>3. QED
    BY <1>1, <2>1, <2>2, RegroupedIsListed
<1>3. QED
  BY <1>1, <1>2, StoreKept

(* AddWatchKindMsg and RemoveWatchKindMsg. *)
LEMMA KindsKeepStore ==
  ASSUME StoreInv, NEW m, AddKind(m) \/ RemoveKind(m)
  PROVE  StoreInv'
<1>1. /\ UNCHANGED <<scenario, feed>>
      /\ ~Simulating => store' \in Regrouped(AddWatchKind(store, m.arg)) \union Regrouped(RemoveWatchKind(store, m.arg))
  <2>1. CASE AddKind(m)
    BY <2>1 DEF AddKind, Handled, Becomes
  <2>2. CASE RemoveKind(m)
    BY <2>2 DEF RemoveKind, Handled, Becomes
  <2>3. QED
    BY <2>1, <2>2
<1>2. ASSUME ~Simulating PROVE StoreIsListed(store')
  <2>1. StoreIsListed(store)
    BY <1>2 DEF StoreInv
  <2>2. StoreIsListed(AddWatchKind(store, m.arg)) /\ StoreIsListed(RemoveWatchKind(store, m.arg))
    BY <2>1, AddWatchKeepsListed, RemovingKeepsListed
  <2>3. QED
    BY <1>1, <1>2, <2>2, RegroupedIsListed
<1>3. QED
  BY <1>1, <1>2, StoreKept

(* The end of a freeze. *)
LEMMA ThawingKeepsStore ==
  ASSUME StoreInv, NEW m, Freeze(m)
  PROVE  StoreInv'
<1>1. UNCHANGED <<scenario, feed>> /\ (store' = store \/ store' \in Regrouped(store))
  BY DEF Freeze, Handled, Becomes
<1>2. ASSUME ~Simulating PROVE StoreIsListed(store')
  BY <1>1, <1>2, RegroupedIsListed DEF StoreInv
<1>3. QED
  BY <1>1, <1>2, StoreKept

(* Only a simulation's tick changes what is stored. *)
LEMMA TicksAreSimulated ==
  ASSUME StoreInv, NEW m, SimulationTick(m)
  PROVE  StoreInv'
<1>1. UNCHANGED <<scenario, feed>> /\ (~Simulating => store' = store)
  BY DEF SimulationTick, Handled, Becomes
<1>2. ASSUME ~Simulating PROVE StoreIsListed(store')
  BY <1>1, <1>2 DEF StoreInv
<1>3. QED
  BY <1>1, <1>2, StoreKept

(* No key changes the store: its messages may. *)
LEMMA KeysKeepStore ==
  ASSUME StoreInv, NEW key, KeyToOverlay(key) \/ KeyToFilter(key) \/ KeyToApp(key) \/ KeyToView(key)
  PROVE  StoreInv'
<1>1. UNCHANGED <<store, scenario, feed>>
  BY DEF KeyToOverlay, KeyToFilter, KeyToApp, KeyToView, Pressed, Becomes
<1>2. QED
  BY <1>1 DEF StoreInv, Simulating

(* A goroutine that took a job still has jobs of the scenario's. *)
LEMMA WorkLeavesJobs ==
  ASSUME StoreInv, ~Simulating, NEW sender \in Senders, NEW job, Work(sender, job)
  PROVE  /\ UNCHANGED scenario /\ job \in Range(scenario.feed[sender])
         /\ DOMAIN feed' = Senders
         /\ \A other \in Senders : feed'[other] \in Seq(Range(scenario.feed[other]))
<1>1. /\ DOMAIN feed = Senders
      /\ \A other \in Senders : feed[other] \in Seq(Range(scenario.feed[other]))
  BY DEF StoreInv
<1>2. /\ UNCHANGED scenario /\ feed[sender] # <<>> /\ job = Head(feed[sender])
      /\ feed' = [feed EXCEPT ![sender] = Tail(@)]
  BY DEF Work
<1>3. Tail(feed[sender]) \in Seq(Range(scenario.feed[sender])) /\ job \in Range(scenario.feed[sender])
  <2>1. feed[sender] \in Seq(Range(scenario.feed[sender]))
    BY <1>1
  <2>2. QED
    BY <1>2, <2>1, HeadTailProperties
<1>4. feed'[sender] = Tail(feed[sender]) /\ \A other \in Senders \ {sender} : feed'[other] = feed[other]
  BY <1>1, <1>2
<1>5. DOMAIN feed' = Senders
  BY <1>1, <1>2
<1>6. QED
  BY <1>1, <1>2, <1>3, <1>4, <1>5

(* The collector, the loader and the discovery. *)
LEMMA GoroutinesKeepStore ==
  ASSUME StoreInv, NEW sender \in Senders,
         HandleRevision(sender) \/ SortHistory(sender) \/ DiscoverKinds(sender)
  PROVE  StoreInv'
<1>1. PICK job : /\ Work(sender, job)
                 /\ \/ job.do = "ingest" /\ store' = IngestRevision(store, job.res, job.rev)
                    \/ store' = SortTimeline(store)
                    \/ store' = SetUnwatchedKinds(store, job.kinds)
  BY DEF HandleRevision, SortHistory, DiscoverKinds
<1>2. UNCHANGED scenario
  BY <1>1 DEF Work
<1>3. CASE Simulating
  BY <1>2, <1>3 DEF StoreInv, Simulating
<1>4. CASE ~Simulating
  <2>1. /\ job \in Range(scenario.feed[sender]) /\ DOMAIN feed' = Senders
        /\ \A other \in Senders : feed'[other] \in Seq(Range(scenario.feed[other]))
    BY <1>1, <1>4, WorkLeavesJobs
  <2>2. StoreIsListed(store)
    BY <1>4 DEF StoreInv
  <2>3. job.do = "ingest" => "uid" \in DOMAIN job.res
    BY <1>4, <2>1, SessionsAssumption DEF StoreInv, Simulating
  <2>4. StoreIsListed(store')
    <3>1. CASE job.do = "ingest" /\ store' = IngestRevision(store, job.res, job.rev)
      BY <2>2, <2>3, <3>1, IngestKeepsListed
    <3>2. CASE store' = SortTimeline(store)
      BY <2>2, <3>2, SortingKeepsListed
    <3>3. CASE store' = SetUnwatchedKinds(store, job.kinds)
      BY <2>2, <3>3, SetUnwatchedKeepsListed
    <3>4. QED
      BY <1>1, <3>1, <3>2, <3>3
  <2>5. QED
    BY <1>2, <2>1, <2>4 DEF StoreInv
<1>5. QED
  BY <1>3, <1>4

(* The loop takes a message of a goroutine. *)
LEMMA DeliveryKeepsStore ==
  ASSUME StoreInv, NEW sender \in Senders, LiveRevision(sender) \/ SendReturns(sender)
  PROVE  StoreInv'
<1>1. UNCHANGED <<scenario, feed>> /\ (store' = store \/ store' \in Regrouped(store))
  BY DEF LiveRevision, SendReturns, RegroupedUnlessFrozen, Becomes
<1>2. ASSUME ~Simulating PROVE StoreIsListed(store')
  BY <1>1, <1>2, RegroupedIsListed DEF StoreInv
<1>3. QED
  BY <1>1, <1>2, StoreKept

(* Every step of the program. *)
LEMMA StepKeepsStore ==
  ASSUME StoreInv, [Next]_vars
  PROVE  StoreInv'
<1>1. ASSUME NEW m, m \in BagToSet(pending),
             \/ ResourceSelected(m) \/ RevisionSelected(m) \/ TimelineEntrySelected(m)
             \/ ToggleStarred(m) \/ ToggleTimelineStarred(m) \/ ToggleExplorerStarred(m)
             \/ ViewModeChanged(m) \/ CompareMark(m) \/ CompareClear(m) \/ JumpToTimeline(m)
             \/ AddKind(m) \/ RemoveKind(m) \/ SetAutoScrollOff(m) \/ AnalysisComplete(m)
             \/ Pause(m) \/ Freeze(m) \/ SimulationTick(m)
             \/ PaletteCommand(m) \/ ShowJump(m) \/ Quit(m)
      PROVE  StoreInv'
  BY <1>1, MessageKeepsStore, StarKeepsStore, KindsKeepStore, ThawingKeepsStore, TicksAreSimulated
<1>2. CASE Key
  BY <1>2, KeysKeepStore DEF Key
<1>3. CASE Goroutine
  BY <1>3, GoroutinesKeepStore, DeliveryKeepsStore DEF Goroutine
<1>4. CASE UNCHANGED vars
  BY <1>4 DEF StoreInv, Simulating, vars
<1>5. QED
  BY <1>1, <1>2, <1>3, <1>4 DEF Next, Message

(* Whatever the user stars, watches and removes while goroutines ingest and   *)
(* sort, in every session that is no simulation the timeline is what is       *)
(* stored, entry by entry, and the counter their number (livestore.go).        *)
THEOREM StoreIsConsistentAlways == Spec => []StoreStaysConsistent
<1>1. Init => StoreInv
  <2> SUFFICES ASSUME Init PROVE StoreInv
    OBVIOUS
  <2>1. scenario \in Scenarios /\ store = scenario.store /\ feed = scenario.feed
    BY DEF Init
  <2>2. QED
    BY <2>1, SessionsAssumption DEF StoreInv, Simulating
<1>2. StoreInv /\ [Next]_vars => StoreInv'
  BY StepKeepsStore
<1>3. StoreInv => StoreStaysConsistent
  BY ListedIsConsistent DEF StoreInv, StoreStaysConsistent
<1>4. QED
  BY <1>1, <1>2, <1>3, PTL DEF Spec

-----------------------------------------------------------------------------
(* The simulation's ticks.  A message of no tick, and messages that are none; *)
(* what App.TicksAreAccounted says of a queue, and of an App's record.        *)
IsPlain(m)    == "type" \in DOMAIN m /\ m.type # "simulationTick"
PlainOut(out) == out \in Seq(Range(out)) /\ \A m \in Range(out) : IsPlain(m)

Dated(a, epoch) == "epoch" \in DOMAIN a /\ a.epoch = epoch

IsCurrent(m, epoch) == m.type = "simulationTick" /\ m.arg.epoch = epoch
Accounted(queue, epoch) ==
  /\ \A m \in DOMAIN queue : "type" \in DOMAIN m /\ (m.type = "simulationTick" => m.arg.epoch \in 0..epoch)
  /\ \A m, n \in DOMAIN queue : IsCurrent(m, epoch) /\ IsCurrent(n, epoch) => m = n
  /\ \A m \in DOMAIN queue : IsCurrent(m, epoch) => queue[m] = 1

LEMMA NoMessageIsPlain == PlainOut(<<>>)
BY DEF PlainOut, Range

LEMMA OneMessageIsPlain ==
  ASSUME NEW type, NEW arg, type # "simulationTick"
  PROVE  PlainOut(<<Msg(type, arg)>>)
BY DEF PlainOut, IsPlain, Range, Msg

LEMMA BothArePlain ==
  ASSUME NEW s, NEW t, PlainOut(s), PlainOut(t)
  PROVE  PlainOut(s \o t)
<1> DEFINE S == Range(s) \union Range(t)
<1>1. s \in Seq(S) /\ t \in Seq(S)
  BY DEF PlainOut
<1>2. \A i \in 1..Len(s \o t) : (s \o t)[i] \in S
  BY <1>1
<1>3. PICK u : u = s \o t
  OBVIOUS
<1>4. u \in Seq(S) /\ Range(u) \subseteq S
  BY <1>1, <1>2, <1>3 DEF Range
<1>5. u \in Seq(Range(u))
  BY <1>4 DEF Range
<1>6. QED
  BY <1>3, <1>4, <1>5 DEF PlainOut

(* One copy of a message is taken from the queue. *)
LEMMA TakingAccounts ==
  ASSUME NEW queue, NEW epoch \in Nat, NEW m \in DOMAIN queue, Accounted(queue, epoch)
  PROVE  LET left == queue (-) SetToBag({m})
         IN  Accounted(left, epoch) /\ (IsCurrent(m, epoch) => \A n \in DOMAIN left : ~IsCurrent(n, epoch))
<1> DEFINE left == queue (-) SetToBag({m})
<1>1. /\ DOMAIN left \subseteq DOMAIN queue
      /\ \A n \in DOMAIN left \ {m} : left[n] = queue[n]
      /\ m \in DOMAIN left => queue[m] - 1 > 0
  BY DEF (-), SetToBag
<1>2. IsCurrent(m, epoch) => m \notin DOMAIN left
  BY <1>1 DEF Accounted
<1> HIDE DEF left
<1>3. Accounted(left, epoch) /\ (IsCurrent(m, epoch) => \A n \in DOMAIN left : ~IsCurrent(n, epoch))
  BY <1>1, <1>2 DEF Accounted
<1>4. QED
  BY <1>3 DEF left

(* Messages that are no ticks are put into it. *)
LEMMA SendingAccounts ==
  ASSUME NEW queue, NEW epoch \in Nat, NEW out, Accounted(queue, epoch), PlainOut(out)
  PROVE  Accounted(queue (+) MessagesIn(out), epoch)
<1> DEFINE all == queue (+) MessagesIn(out)
<1>1. \A m \in DOMAIN MessagesIn(out) : IsPlain(m)
  BY DEF MessagesIn, PlainOut
<1>2. /\ \A m \in DOMAIN all : m \in DOMAIN queue \/ m \in DOMAIN MessagesIn(out)
      /\ \A m \in DOMAIN queue : m \notin DOMAIN MessagesIn(out) => all[m] = queue[m] + 0
  BY DEF (+)
<1> HIDE DEF all
<1>3. \A m \in DOMAIN all : IsCurrent(m, epoch) => m \in DOMAIN queue /\ all[m] = queue[m] + 0
  BY <1>1, <1>2 DEF IsPlain, IsCurrent
<1>4. Accounted(all, epoch)
  BY <1>1, <1>2, <1>3 DEF Accounted, IsPlain
<1>5. QED
  BY <1>4 DEF all

(* A tick of an epoch that has none under way is put into it. *)
LEMMA TickIsSentOnce ==
  ASSUME NEW s, NEW epoch, DOMAIN s.data # {}
  PROVE  \E tick : /\ IsCurrent(tick, epoch) /\ "type" \in DOMAIN tick
                   /\ DOMAIN MessagesIn(NextTick(s, epoch)) = {tick} /\ MessagesIn(NextTick(s, epoch))[tick] = 1
<1> DEFINE tick == [type |-> "simulationTick", arg |-> [uids |-> DOMAIN s.data, epoch |-> epoch]]
           sent == MessagesIn(<<tick>>)
<1>1. tick # Panic /\ Range(<<tick>>) = {tick}
  BY DEF Panic, Msg, Range
<1>2. DOMAIN sent = {tick} /\ sent[tick] = 1
  <2>1. {i \in DOMAIN <<tick>> : <<tick>>[i] = tick} = {1}
    OBVIOUS
  <2>2. QED
    BY <1>1, <2>1, FS_Singleton DEF MessagesIn
<1>3. IsCurrent(tick, epoch) /\ "type" \in DOMAIN tick
  BY DEF IsCurrent
<1>4. NextTick(s, epoch) = <<tick>>
  BY DEF NextTick
<1> HIDE DEF tick
<1>5. QED
  BY <1>2, <1>3, <1>4

LEMMA TickingAccounts ==
  ASSUME NEW queue, NEW epoch \in Nat, NEW s, Accounted(queue, epoch), \A m \in DOMAIN queue : ~IsCurrent(m, epoch)
  PROVE  Accounted(queue (+) MessagesIn(NextTick(s, epoch)), epoch)
<1>1. CASE DOMAIN s.data = {}
  BY <1>1, NoMessageIsPlain, SendingAccounts DEF NextTick
<1>2. CASE DOMAIN s.data # {}
  <2> DEFINE sent == MessagesIn(NextTick(s, epoch))
             all  == queue (+) sent
  <2>1. PICK tick : IsCurrent(tick, epoch) /\ "type" \in DOMAIN tick /\ DOMAIN sent = {tick} /\ sent[tick] = 1
    BY <1>2, TickIsSentOnce
  <2> HIDE DEF sent
  <2>2. DOMAIN all = DOMAIN queue \union {tick} /\ all[tick] = 0 + 1
    BY <2>1 DEF (+)
  <2> HIDE DEF all
  <2>3. Accounted(all, epoch)
    BY <2>1, <2>2 DEF Accounted, IsCurrent
  <2>4. QED
    BY <2>3 DEF all, sent
<1>3. QED
  BY <1>1, <1>2

(* The first tick of a session. *)
LEMMA FirstTickAccounts ==
  ASSUME NEW s, NEW out, out = <<>> \/ out = NextTick(s, 0)
  PROVE  Accounted(MessagesIn(out), 0)
<1>1. CASE out = <<>>
  BY <1>1 DEF MessagesIn, Accounted, Range
<1>2. CASE out = NextTick(s, 0) /\ DOMAIN s.data = {}
  BY <1>2 DEF MessagesIn, Accounted, Range, NextTick
<1>3. CASE out = NextTick(s, 0) /\ DOMAIN s.data # {}
  <2>1. PICK tick : /\ IsCurrent(tick, 0) /\ "type" \in DOMAIN tick
                    /\ DOMAIN MessagesIn(out) = {tick} /\ MessagesIn(out)[tick] = 1
    BY <1>3, TickIsSentOnce
  <2>2. QED
    BY <2>1 DEF Accounted, IsCurrent
<1>4. QED
  BY <1>1, <1>2, <1>3

(* The messages change with the *Data they carry; a tick carries none. *)
LEMMA SharingAccounts ==
  ASSUME NEW queue, NEW epoch \in Nat, NEW old, NEW new, Accounted(queue, epoch)
  PROVE  Accounted(SharedQueue(queue, old, new), epoch)
<1> DEFINE Now(m) == SharedMessage(m, old, new)
           copies == UNION {{m} \X (1..queue[m]) : m \in DOMAIN queue}
           shared == SharedQueue(queue, old, new)
<1>1. \A m \in DOMAIN queue : /\ "type" \in DOMAIN Now(m) /\ Now(m).type = m.type
                              /\ m.type = "simulationTick" => Now(m) = m
  BY DEF SharedMessage, Accounted
<1>2. /\ DOMAIN shared = {Now(m) : m \in DOMAIN queue}
      /\ \A m \in DOMAIN shared : shared[m] = Cardinality({c \in copies : Now(c[1]) = m})
  BY DEF SharedQueue
<1> HIDE DEF Now, shared
<1>3. \A m \in DOMAIN shared : "type" \in DOMAIN m /\ (m.type = "simulationTick" => m \in DOMAIN queue)
  BY <1>1, <1>2
<1>4. ASSUME NEW m \in DOMAIN shared, IsCurrent(m, epoch)
      PROVE  shared[m] = 1
  <2>1. m \in DOMAIN queue /\ queue[m] = 1
    BY <1>3, <1>4 DEF Accounted, IsCurrent
  <2>2. \A n \in DOMAIN queue : Now(n) = m <=> n = m
    BY <1>1, <1>4, <2>1 DEF IsCurrent
  <2>3. {c \in copies : Now(c[1]) = m} = {<<m, 1>>}
    <3>1. <<m, 1>> \in copies
      BY <2>1
    <3>2. ASSUME NEW c \in copies, Now(c[1]) = m PROVE c = <<m, 1>>
      <4>1. PICK n \in DOMAIN queue : c \in {n} \X (1..queue[n])
        BY <3>2
      <4>2. n = m
        BY <2>2, <3>2, <4>1
      <4>3. QED
        BY <2>1, <4>1, <4>2
    <3>3. Now(m) = m
      BY <2>1, <2>2
    <3>4. QED
      BY <3>1, <3>2, <3>3
  <2>4. QED
    BY <1>2, <2>3, FS_Singleton
<1>5. Accounted(shared, epoch)
  BY <1>3, <1>4 DEF Accounted, IsCurrent
<1>6. QED
  BY <1>5 DEF shared

-----------------------------------------------------------------------------
(* What every panel sends when a key is pressed: no tick. *)
LEMMA FilterSendsNoTick ==
  ASSUME NEW f, NEW key
  PROVE  PlainOut(FilterKey(f, key).out)
BY NoMessageIsPlain, OneMessageIsPlain DEF FilterKey, Step

LEMMA SelectSendsNoTick ==
  ASSUME NEW t
  PROVE  PlainOut(SelectInTree(t).out)
BY NoMessageIsPlain, OneMessageIsPlain DEF SelectInTree, Step, Panic

LEMMA TreeSendsNoTick ==
  ASSUME NEW t, NEW key
  PROVE  PlainOut(TreeKey(t, key).out)
<1>1. ASSUME NEW at PROVE PlainOut(RowKey(t, at, key).out)
  BY NoMessageIsPlain, OneMessageIsPlain, SelectSendsNoTick DEF RowKey, Step
<1>2. PlainOut(EditTreeFilter(t, FilterKey(t.filter, key)).out)
  BY FilterSendsNoTick DEF EditTreeFilter, Step
<1>3. \A u : PlainOut(SelectInTree(u).out)
  BY SelectSendsNoTick
<1>4. \A u : PlainOut(Step(u, <<>>).out)
  BY NoMessageIsPlain DEF Step
<1>5. PlainOut(Step(t, <<Msg("toggleExplorerStarred", 0)>>).out)
  BY OneMessageIsPlain DEF Step
<1>6. QED
  BY <1>1, <1>2, <1>3, <1>4, <1>5 DEF TreeKey

LEMMA FollowingSendsNoTick ==
  ASSUME NEW auto
  PROVE  PlainOut(PauseFollowing(auto))
BY NoMessageIsPlain, OneMessageIsPlain DEF PauseFollowing

LEMMA RevisionsSendNoTick ==
  ASSUME NEW rl, NEW key
  PROVE  PlainOut(RevisionKey(rl, key).out)
<1>1. \A arg : PlainOut(<<Msg("revisionSelected", arg)>>)
  BY OneMessageIsPlain
<1>2. \A arg : PlainOut(<<Msg("revisionSelected", arg)>> \o PauseFollowing(rl.auto))
  BY <1>1, FollowingSendsNoTick, BothArePlain
<1>3. \A arg : PlainOut(<<Msg("toggleStar", arg)>>) /\ PlainOut(<<Msg("compareMark", arg)>>)
  BY OneMessageIsPlain
<1>4. QED
  BY <1>1, <1>2, <1>3, NoMessageIsPlain DEF RevisionKey, Step

LEMMA DetailSendsNoTick ==
  ASSUME NEW dv, NEW key
  PROVE  PlainOut(DetailKey(dv, key).out)
BY NoMessageIsPlain, OneMessageIsPlain DEF DetailKey, Step

LEMMA ExplorerSendsNoTick ==
  ASSUME NEW ev, NEW key
  PROVE  PlainOut(ExplorerKey(ev, key).out)
BY TreeSendsNoTick, RevisionsSendNoTick, DetailSendsNoTick DEF ExplorerKey, TreeStep, RevisionStep, DetailStep, Step

LEMMA EntrySendsNoTick ==
  ASSUME NEW tl
  PROVE  PlainOut(SelectEntryAt(tl).out)
BY NoMessageIsPlain, OneMessageIsPlain DEF SelectEntryAt, Step

LEMMA TimelineSendsNoTick ==
  ASSUME NEW tl, NEW key
  PROVE  PlainOut(TimelineKey(tl, key).out)
<1>1. PlainOut(EditTimelineFilter(tl, FilterKey(tl.filter, key)).out)
  BY FilterSendsNoTick DEF EditTimelineFilter, Step
<1>2. ASSUME NEW u PROVE PlainOut(Followed(SelectEntryAt(u), PauseFollowing(tl.auto)).out)
  <2>1. "out" \in DOMAIN SelectEntryAt(u)
    BY DEF SelectEntryAt, Step
  <2>2. QED
    BY <2>1, EntrySendsNoTick, FollowingSendsNoTick, BothArePlain DEF Followed
<1>3. PlainOut(SelectEntryAt(tl).out)
  BY EntrySendsNoTick
<1>4. \A u : PlainOut(Step(u, <<>>).out)
  BY NoMessageIsPlain DEF Step
<1>5. /\ PlainOut(Step(tl, <<Panic>>).out)
      /\ \A arg : PlainOut(Step(tl, <<Msg("toggleStar", arg)>>).out)
      /\ PlainOut(Step(tl, <<Msg("toggleTimelineStarred", 0)>>).out)
  BY OneMessageIsPlain DEF Step, Panic
<1>6. QED
  BY <1>1, <1>2, <1>3, <1>4, <1>5 DEF TimelineKey

LEMMA MarkSendsNoTick ==
  ASSUME NEW s, NEW e
  PROVE  PlainOut(MarkOf(s, e))
BY NoMessageIsPlain, OneMessageIsPlain DEF MarkOf

LEMMA TimelineViewSendsNoTick ==
  ASSUME NEW tv, NEW s, NEW key
  PROVE  PlainOut(TimelineViewKey(tv, s, key).out)
BY TimelineSendsNoTick, MarkSendsNoTick, DetailSendsNoTick DEF TimelineViewKey, ListStep, DetailStep, Step

(* The overlays. *)
LEMMA CommandsAreNoTicks ==
  ASSUME NEW i \in DOMAIN Commands
  PROVE  PlainOut(<<Commands[i]>>)
<1>1. \E type, arg : type # "simulationTick" /\ Commands[i] = Msg(type, arg)
  BY DEF Commands
<1>2. QED
  BY <1>1, OneMessageIsPlain

LEMMA OverlaysSendNoTick ==
  ASSUME NEW ov, NEW key
  PROVE  PlainOut(OverlayKey(ov, key).out)
<1>1. PlainOut(PaletteKey(ov, key).out)
  BY NoMessageIsPlain, CommandsAreNoTicks DEF PaletteKey, Step
<1>2. PlainOut(QuickJumpKey(ov, key).out)
  BY NoMessageIsPlain, OneMessageIsPlain DEF QuickJumpKey, Step
<1>3. PlainOut(WatchManagerKey(ov, key).out)
  BY NoMessageIsPlain, OneMessageIsPlain DEF WatchManagerKey, Step
<1>4. PlainOut(ConsoleKey(ov, key).out)
  BY NoMessageIsPlain, OneMessageIsPlain DEF ConsoleKey, Execute, Step
<1>5. \A name : PlainOut(PlainKey(ov, name, key).out)
  BY NoMessageIsPlain DEF PlainKey, Step
<1>6. QED
  BY <1>1, <1>2, <1>3, <1>4, <1>5 DEF OverlayKey

-----------------------------------------------------------------------------
(* Only pausing gives the App another epoch. *)
LEMMA MovingKeepsEpoch ==
  ASSUME NEW epoch, NEW a, Dated(a, epoch)
  PROVE  /\ \A p : Dated(FocusPanel(a, p), epoch)
         /\ \A next : Dated(CyclePanel(a, next), epoch)
         /\ \A v : Dated(SwitchView(a, v), epoch)
         /\ \A mode : Dated(SetViewMode(a, mode), epoch)
         /\ \A hidden : Dated(DeselectIf(hidden, a), epoch)
         /\ Dated(StartPanelFilter(a), epoch)
         /\ Dated(CycleWindow(a), epoch)
         /\ \A time : Dated(Anchor(a, time), epoch)
<1>1. ASSUME NEW b, Dated(b, epoch) PROVE \A p : Dated(FocusPanel(b, p), epoch)
  BY <1>1 DEF Dated, FocusPanel
<1>2. \A v : Dated([a EXCEPT !.view = v], epoch)
  BY DEF Dated
<1>3. \A v : Dated(SwitchView(a, v), epoch)
  BY <1>1, <1>2 DEF SwitchView
<1>4. \A next : Dated(CyclePanel(a, next), epoch)
  BY DEF Dated, CyclePanel
<1>5. \A mode : Dated(SetViewMode(a, mode), epoch)
  BY DEF Dated, SetViewMode
<1>6. \A hidden : Dated(DeselectIf(hidden, a), epoch)
  BY DEF Dated, DeselectIf
<1>7. Dated(StartPanelFilter(a), epoch)
  BY DEF Dated, StartPanelFilter
<1>8. Dated(CycleWindow(a), epoch)
  BY DEF Dated, CycleWindow
<1>9. \A time : Dated(Anchor(a, time), epoch)
  BY DEF Dated, Anchor
<1>10. QED
  BY <1>1, <1>3, <1>4, <1>5, <1>6, <1>7, <1>8, <1>9

LEMMA ScrollingKeepsEpoch ==
  ASSUME NEW epoch, NEW a, NEW s, Dated(a, epoch)
  PROVE  /\ \A on : Dated(SetAutoScroll(a, on), epoch)
         /\ Dated(ToggleAutoScroll(a, s), epoch)
<1>1. \A on : Dated(SetAutoScroll(a, on), epoch)
  BY DEF Dated, SetAutoScroll
<1>2. ASSUME NEW b, Dated(b, epoch) PROVE Dated(JumpToNewest(b, s), epoch)
  BY <1>2 DEF Dated, JumpToNewest
<1>3. QED
  BY <1>1, <1>2 DEF ToggleAutoScroll

LEMMA RefreshingKeepsEpoch ==
  ASSUME NEW epoch, NEW a, NEW s, Dated(a, epoch)
  PROVE  /\ Dated(RefreshTimeline(a, s), epoch)
         /\ Dated(Refresh(a, s), epoch)
         /\ Dated(RefreshManager(a, s), epoch)
<1>1. Dated(RefreshGroups(a, s), epoch)
  BY DEF Dated, RefreshGroups
<1>2. \A b : Dated(b, epoch) => Dated(RefreshTimeline(b, s), epoch)
  BY DEF Dated, RefreshTimeline
<1>3. Dated(RefreshManager(a, s), epoch)
  BY DEF Dated, RefreshManager
<1>4. QED
  BY <1>1, <1>2, <1>3 DEF Refresh

LEMMA RevisionKeepsEpoch ==
  ASSUME NEW epoch, NEW a, NEW s, Dated(a, epoch)
  PROVE  /\ \A uid : Dated(OnRevision(a, s, uid), epoch)
         /\ Dated(FlushBuffer(a, s), epoch)
<1>1. ASSUME NEW b, NEW d, NEW uid, Dated(b, epoch) PROVE Dated(Rebind(b, d, uid), epoch)
  BY <1>1 DEF Dated, Rebind, Rebound, ShowList
<1>2. ASSUME NEW b, Dated(b, epoch) PROVE Dated(Follow(b, s), epoch)
  BY <1>2 DEF Dated, Follow
<1>3. ASSUME NEW b, NEW uid, Dated(b, epoch) PROVE Dated(AfterRevision(b, s, uid), epoch)
  BY <1>1, <1>2, <1>3, RefreshingKeepsEpoch DEF AfterRevision
<1>4. ASSUME NEW uid PROVE Dated(OnRevision(a, s, uid), epoch)
  <2>1. Dated([a EXCEPT !.buffer = Append(@, uid)], epoch)
    BY DEF Dated
  <2>2. QED
    BY <1>3, <2>1 DEF OnRevision
<1>5. Dated(FlushBuffer(a, s), epoch)
  <2>1. Dated([a EXCEPT !.buffer = <<>>], epoch)
    BY DEF Dated
  <2>2. QED
    BY <1>3, <2>1 DEF FlushBuffer
<1>6. QED
  BY <1>4, <1>5

LEMMA SharingKeepsEpoch ==
  ASSUME NEW epoch, NEW a, NEW old, NEW new, Dated(a, epoch)
  PROVE  Dated(Shared(a, old, new), epoch)
BY DEF Dated, Shared

LEMMA ViewsKeepEpoch ==
  ASSUME NEW epoch, NEW a, NEW s, NEW key, Dated(a, epoch)
  PROVE  LET step == ViewKey(a, s, key) IN Dated(step.panel, epoch) /\ PlainOut(step.out)
<1>1. CASE a.view = "explorer"
  <2>1. ViewKey(a, s, key) = ExplorerStep(a, ExplorerKey(a.ex, key))
    BY <1>1 DEF ViewKey
  <2>2. QED
    BY <2>1, ExplorerSendsNoTick DEF ExplorerStep, Step, Dated
<1>2. CASE a.view = "timeline"
  <2>1. ViewKey(a, s, key) = TimelineStep(a, TimelineViewKey(a.tv, s, key))
    BY <1>2 DEF ViewKey
  <2>2. QED
    BY <2>1, TimelineViewSendsNoTick DEF TimelineStep, Step, Dated
<1>3. CASE a.view # "explorer" /\ a.view # "timeline"
  <2>1. ViewKey(a, s, key) = Step(a, IF key = "X" THEN <<Msg("compareClear", 0)>> ELSE <<>>)
    BY <1>3 DEF ViewKey
  <2>2. QED
    BY <2>1, NoMessageIsPlain, OneMessageIsPlain DEF Step
<1>4. QED
  BY <1>1, <1>2, <1>3

LEMMA GlobalKeepsEpoch ==
  ASSUME NEW epoch, NEW a, NEW s, NEW key, Dated(a, epoch)
  PROVE  Dated(GlobalEffect(a, s, key), epoch) /\ PlainOut(GlobalMessage(key))
<1>1. \A ov : Dated([a EXCEPT !.ov = ov], epoch)
  BY DEF Dated
<1>2. Dated([a EXCEPT !.fullscreen = ~@], epoch)
  BY DEF Dated
<1>3. Dated(GlobalEffect(a, s, key), epoch)
  BY <1>1, <1>2, MovingKeepsEpoch, ScrollingKeepsEpoch DEF GlobalEffect
<1>4. PlainOut(GlobalMessage(key))
  BY NoMessageIsPlain, OneMessageIsPlain DEF GlobalMessage
<1>5. QED
  BY <1>3, <1>4

-----------------------------------------------------------------------------
(* One turn of the loop. *)
LEMMA AccountedMeansAccounted ==
  app.epoch \in Nat => (TicksAreAccounted <=> "epoch" \in DOMAIN app /\ Accounted(pending, app.epoch))
BY DEF TicksAreAccounted, OneTickChain, Accounted, IsCurrent, BagToSet

LEMMA AccountedNext ==
  ("epoch" \in DOMAIN app /\ app.epoch \in Nat /\ Accounted(pending, app.epoch) => TicksAreAccounted)'
BY AccountedMeansAccounted, PTL

LEMMA TurnAccounts ==
  ASSUME NEW s, NEW a, NEW out, NEW left, NEW epoch \in Nat, Becomes(s, a, out, left),
         Dated(a, epoch), Accounted(left (+) MessagesIn(out), epoch)
  PROVE  TicksAreAccounted'
<1>1. Dated(app', epoch)
  BY SharingKeepsEpoch DEF Becomes
<1>2. Accounted(pending', epoch)
  BY SharingAccounts DEF Becomes
<1>3. QED
  BY <1>1, <1>2, AccountedNext DEF Dated

(* A turn that keeps the epoch and sends no tick. *)
LEMMA PlainTurnAccounts ==
  ASSUME NEW s, NEW a, NEW out, NEW m \in BagToSet(pending), TicksAreAccounted, Handled(m, s, a, out),
         Dated(a, app.epoch), PlainOut(out)
  PROVE  TicksAreAccounted'
<1>1. app.epoch \in Nat /\ Accounted(pending, app.epoch)
  BY AccountedMeansAccounted DEF TicksAreAccounted
<1>2. PICK left : left = pending (-) SetToBag({m})
  OBVIOUS
<1>3. Accounted(left, app.epoch)
  BY <1>1, <1>2, TakingAccounts DEF BagToSet
<1>4. Accounted(left (+) MessagesIn(out), app.epoch)
  BY <1>1, <1>3, SendingAccounts
<1>5. Becomes(s, a, out, left)
  BY <1>2 DEF Handled
<1>6. QED
  BY <1>1, <1>4, <1>5, TurnAccounts

LEMMA KeysAccount ==
  ASSUME TicksAreAccounted, NEW key, KeyToOverlay(key) \/ KeyToFilter(key) \/ KeyToApp(key) \/ KeyToView(key)
  PROVE  TicksAreAccounted'
<1>1. app.epoch \in Nat /\ Accounted(pending, app.epoch) /\ Dated(app, app.epoch)
  BY AccountedMeansAccounted DEF TicksAreAccounted, Dated
<1>2. PICK step : Pressed(step) /\ Dated(step.panel, app.epoch) /\ PlainOut(step.out)
  <2>1. CASE KeyToOverlay(key)
    <3>1. PICK step : step = OverlayStep(OverlayKey(app.ov, key))
      OBVIOUS
    <3>2. Dated(step.panel, app.epoch) /\ PlainOut(step.out)
      BY <1>1, <3>1, OverlaysSendNoTick DEF OverlayStep, Step, Dated
    <3>3. QED
      BY <2>1, <3>1, <3>2 DEF KeyToOverlay
  <2>2. CASE KeyToFilter(key)
    <3>1. PICK step : step = IF key = "ctrl+c" THEN Step(app, <<Msg("quit", 0)>>) ELSE ViewKey(app, store, key)
      OBVIOUS
    <3>2. Dated(step.panel, app.epoch) /\ PlainOut(step.out)
      BY <1>1, <3>1, ViewsKeepEpoch, OneMessageIsPlain DEF Step
    <3>3. QED
      BY <2>2, <3>1, <3>2 DEF KeyToFilter
  <2>3. CASE KeyToApp(key)
    <3>1. PICK step : step = Step(GlobalEffect(app, store, key), GlobalMessage(key))
      OBVIOUS
    <3>2. Dated(step.panel, app.epoch) /\ PlainOut(step.out)
      BY <1>1, <3>1, GlobalKeepsEpoch DEF Step
    <3>3. QED
      BY <2>3, <3>1, <3>2 DEF KeyToApp
  <2>4. CASE KeyToView(key)
    BY <1>1, <2>4, ViewsKeepEpoch DEF KeyToView
  <2>5. QED
    BY <2>1, <2>2, <2>3, <2>4
<1>3. Accounted(pending (+) MessagesIn(step.out), app.epoch)
  BY <1>1, <1>2, SendingAccounts
<1>4. QED
  BY <1>1, <1>2, <1>3, TurnAccounts DEF Pressed

(* Every message but those that pause the simulation and that are its ticks. *)
LEMMA MessagesAccount ==
  ASSUME TicksAreAccounted, NEW m \in BagToSet(pending),
    \/ ResourceSelected(m) \/ RevisionSelected(m) \/ TimelineEntrySelected(m)
    \/ ToggleStarred(m) \/ ToggleTimelineStarred(m) \/ ToggleExplorerStarred(m)
    \/ ViewModeChanged(m) \/ CompareMark(m) \/ CompareClear(m) \/ JumpToTimeline(m)
    \/ AddKind(m) \/ RemoveKind(m) \/ SetAutoScrollOff(m) \/ AnalysisComplete(m)
    \/ Freeze(m) \/ PaletteCommand(m) \/ ShowJump(m)
  PROVE  TicksAreAccounted'
<1> DEFINE Keeps(a) == Dated(a, app.epoch)
<1>1. Keeps(app) /\ PlainOut(<<>>)
  BY NoMessageIsPlain DEF TicksAreAccounted, Dated
<1>2. SUFFICES \E s, a, out : Handled(m, s, a, out) /\ Keeps(a) /\ PlainOut(out)
  BY PlainTurnAccounts
<1>3. CASE ResourceSelected(m)
  <2>1. Keeps([app EXCEPT !.ex = SetResource(@, m.arg)])
    BY <1>1 DEF Dated
  <2>2. QED
    BY <1>3, <2>1, OneMessageIsPlain DEF ResourceSelected
<1>4. CASE RevisionSelected(m)
  <2>1. PICK shown : shown = [app EXCEPT !.ex = ShowRevision(@, m.arg.data, m.arg.index)]
    OBVIOUS
  <2>2. Keeps(shown)
    BY <1>1, <2>1 DEF Dated
  <2>3. \A time : Keeps(Anchor(shown, time))
    BY <2>2, MovingKeepsEpoch
  <2>4. QED
    BY <1>1, <1>4, <2>1, <2>2, <2>3 DEF RevisionSelected
<1>5. CASE TimelineEntrySelected(m)
  <2>1. PICK shown : shown = [app EXCEPT !.tv = SelectEntry(@, store, m.arg)]
    OBVIOUS
  <2>2. Keeps(shown)
    BY <1>1, <2>1 DEF Dated
  <2>3. \A time : Keeps(Anchor(shown, time))
    BY <2>2, MovingKeepsEpoch
  <2>4. QED
    BY <1>1, <1>5, <2>1, <2>3 DEF TimelineEntrySelected
<1>6. \A s, hidden : Keeps(DeselectIf(hidden, Refresh(app, s)))
  <2>1. \A s : Keeps(Refresh(app, s))
    BY <1>1, RefreshingKeepsEpoch
  <2>2. QED
    BY <2>1, MovingKeepsEpoch
<1>7. CASE ToggleStarred(m)
  BY <1>1, <1>6, <1>7 DEF ToggleStarred
<1>8. CASE ToggleTimelineStarred(m)
  <2>1. Keeps([app EXCEPT !.starredOnly = ~@])
    BY <1>1 DEF Dated
  <2>2. Keeps(RefreshTimeline([app EXCEPT !.starredOnly = ~@], store))
    BY <2>1, RefreshingKeepsEpoch
  <2>3. QED
    BY <1>1, <1>8, <2>2 DEF ToggleTimelineStarred
<1>9. CASE ToggleExplorerStarred(m)
  <2>1. Keeps([app EXCEPT !.ex.tree = ToggleStarredOnly(@)])
    BY <1>1 DEF Dated
  <2>2. \A hidden : Keeps(DeselectIf(hidden, [app EXCEPT !.ex.tree = ToggleStarredOnly(@)]))
    BY <2>1, MovingKeepsEpoch
  <2>3. QED
    BY <1>1, <1>9, <2>2 DEF ToggleExplorerStarred
<1>10. CASE ViewModeChanged(m)
  BY <1>1, <1>10, MovingKeepsEpoch DEF ViewModeChanged
<1>11. CASE CompareMark(m)
  <2>1. \A item : Keeps([app EXCEPT !.marks = AddItem(@, item)])
    BY <1>1 DEF Dated
  <2>2. QED
    BY <1>1, <1>11, <2>1 DEF CompareMark
<1>12. CASE CompareClear(m)
  <2>1. Keeps([app EXCEPT !.marks = NoMarks])
    BY <1>1 DEF Dated
  <2>2. QED
    BY <1>1, <1>12, <2>1 DEF CompareClear
<1>13. CASE JumpToTimeline(m)
  <2>1. Keeps(SwitchView(app, "timeline"))
    BY <1>1, MovingKeepsEpoch
  <2>2. Keeps([SwitchView(app, "timeline") EXCEPT !.tv = ScrollToEntry(@, store, m.arg)])
    BY <2>1 DEF Dated
  <2>3. QED
    BY <1>1, <1>13, <2>2 DEF JumpToTimeline
<1>14. CASE AddKind(m)
  <2>1. \A s : Keeps(Refresh(app, s))
    BY <1>1, RefreshingKeepsEpoch
  <2>2. \A s : Keeps(RefreshManager(Refresh(app, s), s))
    BY <2>1, RefreshingKeepsEpoch
  <2>3. QED
    BY <1>1, <1>14, <2>2 DEF AddKind
<1>15. CASE RemoveKind(m)
  <2>1. \A s, hidden : Keeps(RefreshManager(DeselectIf(hidden, Refresh(app, s)), s))
    BY <1>6, RefreshingKeepsEpoch
  <2>2. QED
    BY <1>1, <1>15, <2>1 DEF RemoveKind
<1>16. CASE SetAutoScrollOff(m)
  BY <1>1, <1>16, ScrollingKeepsEpoch DEF SetAutoScrollOff
<1>17. CASE AnalysisComplete(m)
  <2>1. Keeps([app EXCEPT !.analysis = (m.arg.uid :> m.arg.revs) @@ @])
    BY <1>1 DEF Dated
  <2>2. QED
    BY <1>1, <1>17, <2>1 DEF AnalysisComplete
<1>18. CASE Freeze(m)
  <2>1. Keeps([app EXCEPT !.frozen = ~@]) /\ Keeps([app EXCEPT !.frozen = FALSE])
    BY <1>1 DEF Dated
  <2>2. \A s : Keeps(FlushBuffer([app EXCEPT !.frozen = FALSE], s))
    BY <2>1, RevisionKeepsEpoch
  <2>3. QED
    BY <1>1, <1>18, <2>1, <2>2 DEF Freeze
<1>19. \A ov : Keeps([app EXCEPT !.ov = ov])
  BY <1>1 DEF Dated
<1>20. CASE PaletteCommand(m)
  <2>1. PICK a : Handled(m, store, a, <<>>) /\ Keeps(a)
    <3>1. Keeps([app EXCEPT !.fullscreen = ~@])
      BY <1>1 DEF Dated
    <3>2. \A v : Keeps(SwitchView(app, v))
      BY <1>1, MovingKeepsEpoch
    <3>3. \A p : Keeps(FocusPanel(app, p))
      BY <1>1, MovingKeepsEpoch
    <3>4. Keeps(CyclePanel(app, NextPanel)) /\ Keeps(CycleWindow(app))
      BY <1>1, MovingKeepsEpoch
    <3>5. Keeps(ToggleAutoScroll(app, store))
      BY <1>1, ScrollingKeepsEpoch
    <3>6. QED
      BY <1>19, <1>20, <3>1, <3>2, <3>3, <3>4, <3>5 DEF PaletteCommand, Plainly
  <2>2. QED
    BY <1>1, <2>1
<1>21. CASE ShowJump(m)
  BY <1>1, <1>19, <1>21 DEF ShowJump, Plainly
<1>22. QED
  BY <1>3, <1>4, <1>5, <1>7, <1>8, <1>9, <1>10, <1>11, <1>12, <1>13, <1>14, <1>15, <1>16, <1>17, <1>18,
     <1>20, <1>21

(* A pause ends the epoch: the tick of the next is the only one of its own. *)
LEMMA PauseAccounts ==
  ASSUME TicksAreAccounted, NEW m \in BagToSet(pending), Pause(m)
  PROVE  TicksAreAccounted'
<1> DEFINE a     == TogglePause(app)
           epoch == app.epoch + 1
           left  == pending (-) SetToBag({m})
<1>1. app.epoch \in Nat /\ epoch \in Nat /\ Accounted(pending, app.epoch)
  BY AccountedMeansAccounted DEF TicksAreAccounted
<1>2. Dated(a, epoch)
  BY DEF TicksAreAccounted, Dated, TogglePause
<1>3. Accounted(left, app.epoch)
  BY <1>1, TakingAccounts DEF BagToSet
<1>4. PICK out : Becomes(store, a, out, left) /\ (out = <<>> \/ out = NextTick(store, epoch))
  <2>1. a.epoch = epoch
    BY <1>2 DEF Dated
  <2>2. QED
    BY <2>1 DEF Pause, Handled
<1> HIDE DEF a, left
<1>5. Accounted(left, epoch) /\ \A n \in DOMAIN left : ~IsCurrent(n, epoch)
  <2>1. \A n \in DOMAIN left : n.type = "simulationTick" => n.arg.epoch \in 0..app.epoch
    BY <1>3 DEF Accounted
  <2>2. \A e \in 0..app.epoch : e \in 0..epoch /\ e # epoch
    BY <1>1
  <2>3. \A n \in DOMAIN left : ~IsCurrent(n, epoch)
    BY <2>1, <2>2 DEF IsCurrent
  <2>4. QED
    BY <1>3, <2>1, <2>2, <2>3 DEF Accounted
<1>6. Accounted(left (+) MessagesIn(out), epoch)
  BY <1>1, <1>4, <1>5, NoMessageIsPlain, SendingAccounts, TickingAccounts
<1>7. QED
  BY <1>1, <1>2, <1>4, <1>6, TurnAccounts

(* A tick of this epoch makes room for the next one; an older one ends there. *)
LEMMA TicksAccount ==
  ASSUME TicksAreAccounted, NEW m \in BagToSet(pending), SimulationTick(m)
  PROVE  TicksAreAccounted'
<1> DEFINE epoch == app.epoch
           left  == pending (-) SetToBag({m})
<1>1. epoch \in Nat /\ Accounted(pending, epoch) /\ Dated(app, epoch)
  BY AccountedMeansAccounted DEF TicksAreAccounted, Dated
<1>2. Accounted(left, epoch) /\ (m.arg.epoch = epoch => \A n \in DOMAIN left : ~IsCurrent(n, epoch))
  <2>1. m.type = "simulationTick"
    BY DEF SimulationTick, Take
  <2>2. QED
    BY <1>1, <2>1, TakingAccounts DEF BagToSet, IsCurrent
<1>3. PICK s, a, out : /\ Becomes(s, a, out, left) /\ Dated(a, epoch)
                       /\ out = <<>> \/ (m.arg.epoch = epoch /\ out = NextTick(s, epoch))
  <2>1. \A s : Dated(Shared(app, store, s), epoch)
    BY <1>1, SharingKeepsEpoch
  <2>2. \A s, uid : Dated(OnRevision(Shared(app, store, s), s, uid), epoch)
    BY <2>1, RevisionKeepsEpoch
  <2>3. QED
    BY <1>1, <2>2 DEF SimulationTick, Handled
<1> HIDE DEF left
<1>4. Accounted(left (+) MessagesIn(out), epoch)
  BY <1>1, <1>2, <1>3, NoMessageIsPlain, SendingAccounts, TickingAccounts
<1>5. QED
  BY <1>1, <1>3, <1>4, TurnAccounts

(* The other goroutines send the loop live revisions. *)
LEMMA GoroutinesAccount ==
  ASSUME TicksAreAccounted, Goroutine
  PROVE  TicksAreAccounted'
<1>1. app.epoch \in Nat /\ Accounted(pending, app.epoch) /\ Dated(app, app.epoch)
  BY AccountedMeansAccounted DEF TicksAreAccounted, Dated
<1>2. CASE UNCHANGED <<app, pending>>
  BY <1>2 DEF TicksAreAccounted, OneTickChain
<1>3. CASE \E sender \in Senders : LiveRevision(sender)
  <2>1. PICK s, uid : Becomes(s, OnRevision(app, s, uid), <<>>, pending)
    BY <1>3 DEF LiveRevision
  <2>2. Dated(OnRevision(app, s, uid), app.epoch)
    BY <1>1, RevisionKeepsEpoch
  <2>3. Accounted(pending (+) MessagesIn(<<>>), app.epoch)
    BY <1>1, NoMessageIsPlain, SendingAccounts
  <2>4. QED
    BY <1>1, <2>1, <2>2, <2>3, TurnAccounts
<1>4. QED
  BY <1>2, <1>3 DEF Goroutine, HandleRevision, SortHistory, DiscoverKinds, Work, SendReturns

(* However often the user pauses and resumes, from wherever a pause can be     *)
(* asked for, one chain of the simulation's ticks goes on at most: a tick that *)
(* still sleeps when its epoch ends starts no other (app.go, simEpoch).         *)
THEOREM OneChainOfTicks == Spec => []OneTickChain
<1>1. Init => TicksAreAccounted
  <2> SUFFICES ASSUME Init PROVE TicksAreAccounted
    OBVIOUS
  <2>1. Dated(app, 0)
    <3>1. app = NewApp(scenario.store, scenario.mode)
      BY DEF Init
    <3>2. QED
      BY <3>1, ScrollingKeepsEpoch DEF NewApp, Dated
  <2>2. PICK out : pending = MessagesIn(out) /\ (out = <<>> \/ out = NextTick(scenario.store, 0))
    BY DEF Init
  <2>3. Accounted(pending, 0)
    BY <2>2, FirstTickAccounts
  <2>4. QED
    BY <2>1, <2>3, AccountedMeansAccounted DEF Dated
<1>2. TicksAreAccounted /\ [Next]_vars => TicksAreAccounted'
  <2> SUFFICES ASSUME TicksAreAccounted, [Next]_vars PROVE TicksAreAccounted'
    OBVIOUS
  <2>1. CASE Message
    <3>1. ASSUME NEW m \in BagToSet(pending), Quit(m) PROVE TicksAreAccounted'
      <4>1. app.epoch \in Nat /\ Accounted(pending, app.epoch) /\ "epoch" \in DOMAIN app
        BY AccountedMeansAccounted DEF TicksAreAccounted
      <4>2. Accounted(pending', app.epoch) /\ app' = app
        BY <3>1, <4>1, TakingAccounts DEF Quit, BagToSet
      <4>3. QED
        BY <4>1, <4>2, AccountedNext
    <3>2. QED
      BY <2>1, <3>1, MessagesAccount, PauseAccounts, TicksAccount DEF Message
  <2>2. CASE Key
    BY <2>2, KeysAccount DEF Key
  <2>3. CASE Goroutine
    BY <2>3, GoroutinesAccount
  <2>4. CASE UNCHANGED vars
    BY <2>4 DEF TicksAreAccounted, OneTickChain, vars
  <2>5. QED
    BY <2>1, <2>2, <2>3, <2>4 DEF Next
<1>3. TicksAreAccounted => OneTickChain
  BY DEF TicksAreAccounted
<1>4. QED
  BY <1>1, <1>2, <1>3, PTL DEF Spec
=============================================================================
