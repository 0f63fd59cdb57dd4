--------------------------- MODULE UETable_proofs ---------------------------
(***************************************************************************)
(* Proofs about the table of the editor: its index, and what rows and      *)
(* columns put in or taken out do to it.                                   *)
(*                                                                         *)
(* A tiled table is described by a layout: for every position of the grid  *)
(* the cell that covers it and where that cell begins.  Rows lay a layout  *)
(* if the cells of each row are those that begin in it, from left to       *)
(* right; update() of such rows builds the index of exactly that layout    *)
(* (UpdateLays).  Each operation is then an operation on layouts, and      *)
(* what has to be proved is that the rows it makes lay the new one.        *)
(***************************************************************************)
EXTENDS UETable, FiniteSetTheorems, SequenceTheorems, WellFoundedInduction, TLAPS

-----------------------------------------------------------------------------
(* Numbers and sets of them.                                               *)

\* Induction over the natural numbers, for a set given by what holds of its
\* members.
LEMMA NatInSet ==
  ASSUME NEW S, 0 \in S, \A n \in Nat : n \in S => n + 1 \in S
  PROVE  Nat \subseteq S
<1> SUFFICES ASSUME ~(Nat \subseteq S)
             PROVE  FALSE
  OBVIOUS
<1> DEFINE rest == Nat \ S
<1>1. rest \in SUBSET Nat /\ rest # {}
  OBVIOUS
<1> HIDE DEF rest
<1>2. PICK x \in rest : \A y \in rest : ~(<<y, x>> \in OpToRel(<, Nat))
  BY <1>1, NatLessThanWellFounded, WFMin, Zenon
<1>3. x \in Nat /\ x \notin S /\ x # 0
  BY <1>2 DEF rest
<1>4. x - 1 \in Nat /\ x - 1 < x
  BY <1>3
<1>5. x - 1 \in S
  <2> SUFFICES ASSUME x - 1 \notin S
               PROVE  FALSE
    OBVIOUS
  <2>1. x - 1 \in rest
    BY <1>4 DEF rest
  <2>2. <<x - 1, x>> \in Nat \X Nat /\ <<x - 1, x>>[1] < <<x - 1, x>>[2]
    BY <1>3, <1>4
  <2>3. <<x - 1, x>> \in OpToRel(<, Nat)
    BY <2>2 DEF OpToRel
  <2> QED BY <2>1, <2>3, <1>2
<1>6. (x - 1) + 1 \in S
  BY <1>4, <1>5
<1> QED BY <1>3, <1>6

\* The greatest member of a set of integers is its Max.
LEMMA MaxIs ==
  ASSUME NEW S \in SUBSET Int, NEW m \in S, \A x \in S : x <= m
  PROVE  Max(S) = m
<1>1. \A x \in S : (\A y \in S : x >= y) <=> x = m
  <2> TAKE x \in S
  <2>1. x \in Int /\ m \in Int
    OBVIOUS
  <2>2. ASSUME \A y \in S : x >= y PROVE x = m
    BY <2>1, <2>2
  <2>3. ASSUME x = m PROVE \A y \in S : x >= y
    BY <2>3
  <2> QED BY <2>2, <2>3
<1>2. Max(S) \in S /\ \A y \in S : Max(S) >= y
  BY <1>1 DEF Max
<1> QED BY <1>1, <1>2

\* The least member of a set of integers is its Min.
LEMMA MinIs ==
  ASSUME NEW S \in SUBSET Int, NEW m \in S, \A x \in S : m <= x
  PROVE  Min(S) = m
<1>1. \A x \in S : (\A y \in S : x <= y) <=> x = m
  <2> TAKE x \in S
  <2>1. x \in Int /\ m \in Int
    OBVIOUS
  <2>2. ASSUME \A y \in S : x <= y PROVE x = m
    BY <2>1, <2>2
  <2>3. ASSUME x = m PROVE \A y \in S : x <= y
    BY <2>3
  <2> QED BY <2>2, <2>3
<1>2. Min(S) \in S /\ \A y \in S : Min(S) <= y
  BY <1>1 DEF Min
<1> QED BY <1>1, <1>2

\* A set of numbers between bounds has a least and a greatest member.
LEMMA HasMin ==
  ASSUME NEW a \in Int, NEW b \in Int, NEW S \in SUBSET (a..b), S # {}
  PROVE  Min(S) \in S /\ \A x \in S : Min(S) <= x
<1> DEFINE all == {n \in Nat : \A T \in SUBSET (a..b) :
                     (\E x \in T : x <= a + n) => \E m \in T : \A x \in T : m <= x}
<1>1. 0 \in all
  BY Z3
<1>2. ASSUME NEW n \in Nat, n \in all
      PROVE  n + 1 \in all
  <2> SUFFICES ASSUME NEW T \in SUBSET (a..b), NEW z \in T, z <= a + (n + 1)
               PROVE  \E m \in T : \A x \in T : m <= x
    OBVIOUS
  <2>1. CASE \E x \in T : x <= a + n
    BY <1>2, <2>1
  <2>2. CASE ~\E x \in T : x <= a + n
    <3>1. \A x \in T : x \in Int /\ x > a + n
      BY <2>2
    <3>2. \A x \in T : z <= x
      BY <3>1
    <3> QED BY <3>2
  <2> QED BY <2>1, <2>2
<1> HIDE DEF all
<1>3. Nat \subseteq all
  BY <1>1, <1>2, NatInSet
<1>4. PICK y \in S : y \in a..b
  OBVIOUS
<1>5. b - a \in Nat /\ y <= a + (b - a)
  BY <1>4
<1>6. \E m \in S : \A x \in S : m <= x
  BY <1>3, <1>4, <1>5 DEF all
<1> QED BY <1>6 DEF Min

\* A set of integers between two bounds has its Max.
LEMMA HasMax ==
  ASSUME NEW a \in Int, NEW b \in Int, NEW S \in SUBSET (a..b), S # {}
  PROVE  Max(S) \in S /\ \A x \in S : x <= Max(S)
<1> DEFINE turned == {x \in (0 - b)..(0 - a) : 0 - x \in S}
<1>1. turned \in SUBSET ((0 - b)..(0 - a)) /\ 0 - b \in Int /\ 0 - a \in Int
  OBVIOUS
<1>2. \A x \in S : 0 - x \in turned /\ 0 - (0 - x) = x
  OBVIOUS
<1>3. turned # {}
  BY <1>2
<1> HIDE DEF turned
<1>4. Min(turned) \in turned /\ \A x \in turned : Min(turned) <= x
  BY <1>1, <1>3, HasMin
<1>5. 0 - Min(turned) \in S /\ Min(turned) \in Int
  BY <1>4 DEF turned
<1>6. \A x \in S : x \in Int /\ Min(turned) <= 0 - x
  BY <1>2, <1>4
<1>7. \A x \in S : 0 - Min(turned) >= x
  BY <1>5, <1>6
<1> QED BY <1>5, <1>6, <1>7 DEF Max

\* A function on 1..n is a sequence of n members.
LEMMA FcnIsSeq ==
  ASSUME NEW n \in Nat, NEW S, NEW f \in [1..n -> S]
  PROVE  f \in Seq(S) /\ Len(f) = n
OBVIOUS

\* Two sequences are the same if their elements are.
LEMMA SeqSame ==
  ASSUME NEW S, NEW s \in Seq(S), NEW T, NEW t \in Seq(T), Len(s) = Len(t),
         \A i \in 1..Len(s) : s[i] = t[i]
  PROVE  s = t
<1>1. /\ DOMAIN s = 1..Len(s) /\ DOMAIN t = 1..Len(t)
      /\ s \in [1..Len(s) -> S] /\ t \in [1..Len(t) -> T]
  BY LenProperties
<1> QED BY <1>1

-----------------------------------------------------------------------------
(* Ascending sequences of numbers.                                         *)

Rising(s) == \A j, k \in DOMAIN s : j < k => s[j] < s[k]

\* Members of a rising sequence lie apart by at least their distance.
LEMMA RisingApart ==
  ASSUME NEW n \in Nat, NEW s \in [1..n -> Int], Rising(s),
         NEW j \in 1..n, NEW k \in 1..n, j <= k
  PROVE  s[k] - s[j] >= k - j
<1> DEFINE far == {d \in Nat : \A x, y \in 1..n : y = x + d => s[y] - s[x] >= d}
<1>1. 0 \in far
  OBVIOUS
<1>2. ASSUME NEW d \in Nat, d \in far
      PROVE  d + 1 \in far
  <2> SUFFICES ASSUME NEW x \in 1..n, NEW y \in 1..n, y = x + (d + 1)
               PROVE  s[y] - s[x] >= d + 1
    OBVIOUS
  <2>1. x + d \in 1..n /\ x + d < y /\ s[x + d] \in Int /\ s[x] \in Int /\ s[y] \in Int
    OBVIOUS
  <2>2. s[x + d] - s[x] >= d
    BY <1>2, <2>1
  <2>3. s[x + d] < s[y]
    BY <2>1 DEF Rising
  <2> QED BY <2>1, <2>2, <2>3
<1> HIDE DEF far
<1>3. Nat \subseteq far
  BY <1>1, <1>2, NatInSet
<1>4. k - j \in Nat /\ k = j + (k - j)
  OBVIOUS
<1>5. k - j \in far
  BY <1>3, <1>4
<1> QED BY <1>4, <1>5 DEF far

\* A rising sequence keeps and reflects the order of its places.
LEMMA RisingOneToOne ==
  ASSUME NEW n \in Nat, NEW s \in [1..n -> Int], Rising(s)
  PROVE  \A j, k \in 1..n : /\ s[j] = s[k] => j = k
                            /\ s[j] < s[k] <=> j < k
<1> SUFFICES ASSUME NEW j \in 1..n, NEW k \in 1..n
             PROVE  /\ s[j] = s[k] => j = k
                    /\ s[j] < s[k] <=> j < k
  OBVIOUS
<1>1. s[j] \in Int /\ s[k] \in Int
  OBVIOUS
<1>2. CASE j < k BY <1>1, <1>2 DEF Rising
<1>3. CASE k < j BY <1>1, <1>3 DEF Rising
<1>4. CASE j = k BY <1>1, <1>4
<1> QED BY <1>2, <1>3, <1>4

\* The members of a finite set of numbers, in ascending order.
LEMMA AscendingIs ==
  ASSUME NEW n \in Nat, NEW S \in SUBSET (1..n)
  PROVE  /\ Cardinality(S) \in Nat
         /\ Ascending(S) \in [1..Cardinality(S) -> S]
         /\ Rising(Ascending(S))
         /\ \A x \in S : \E k \in 1..Cardinality(S) : Ascending(S)[k] = x
<1> DEFINE Sorts(T) == \E s \in [1..Cardinality(T) -> T] : \A j, k \in DOMAIN s : j < k => s[j] < s[k]
           ok == {m \in Nat : \A T \in SUBSET (1..m) : Sorts(T)}
<1>1. 0 \in ok
  <2> SUFFICES ASSUME NEW T \in SUBSET (1..0)
               PROVE  Sorts(T)
    <3> HIDE DEF Sorts
    <3> QED OBVIOUS
  <2>1. T = {}
    OBVIOUS
  <2>2. Cardinality(T) = 0
    BY <2>1, FS_EmptySet
  <2>3. [x \in 1..0 |-> x] \in [1..Cardinality(T) -> T]
    BY <2>2
  <2> QED BY <2>2, <2>3
<1>2. ASSUME NEW m \in Nat, m \in ok
      PROVE  m + 1 \in ok
  <2> SUFFICES ASSUME NEW T \in SUBSET (1..(m + 1))
               PROVE  Sorts(T)
    <3> HIDE DEF Sorts
    <3> QED OBVIOUS
  <2>1. CASE m + 1 \notin T
    <3>1. T \in SUBSET (1..m)
      BY <2>1
    <3> QED BY <3>1, <1>2
  <2>2. CASE m + 1 \in T
    <3> DEFINE U == T \ {m + 1}
               c == Cardinality(U)
    <3>1. U \in SUBSET (1..m)
      OBVIOUS
    <3>2. IsFiniteSet(T)
      <4>1. IsFiniteSet(1..(m + 1))
        BY FS_Interval
      <4> QED BY <4>1, FS_Subset
    <3>3. IsFiniteSet(U) /\ c = Cardinality(T) - 1 /\ Cardinality(T) \in Nat /\ c \in Nat
      BY <2>2, <3>2, FS_RemoveElement, FS_CardinalityType
    <3>4. PICK s \in [1..c -> U] : \A j, k \in DOMAIN s : j < k => s[j] < s[k]
      BY <3>1, <1>2
    <3> DEFINE u == [j \in 1..(c + 1) |-> IF j = c + 1 THEN m + 1 ELSE s[j]]
    <3> HIDE DEF c
    <3>5. u \in [1..(c + 1) -> T]
      <4> SUFFICES ASSUME NEW j \in 1..(c + 1)
                   PROVE  u[j] \in T
        OBVIOUS
      <4>1. CASE j = c + 1 BY <2>2, <4>1
      <4>2. CASE j # c + 1
        <5>1. j \in 1..c BY <4>2, <3>3
        <5> QED BY <5>1, <3>4, <4>2
      <4> QED BY <4>1, <4>2
    <3>6. \A j, k \in 1..(c + 1) : j < k => u[j] < u[k]
      <4> SUFFICES ASSUME NEW j \in 1..(c + 1), NEW k \in 1..(c + 1), j < k
                   PROVE  u[j] < u[k]
        OBVIOUS
      <4>1. j \in 1..c /\ u[j] = s[j]
        BY <3>3
      <4>4. s[j] \in U
        BY <4>1, <3>4
      <4>2. CASE k = c + 1
        <5>1. s[j] \in 1..m /\ u[k] = m + 1
          BY <4>2, <4>4, <3>1
        <5> QED BY <5>1, <4>1
      <4>3. CASE k # c + 1
        <5>1. k \in 1..c /\ u[k] = s[k] /\ DOMAIN s = 1..c
          BY <4>3, <3>3, <3>4
        <5> QED BY <5>1, <4>1, <3>4
      <4> QED BY <4>2, <4>3
    <3>7. c + 1 = Cardinality(T)
      BY <3>3
    <3>8. u \in [1..Cardinality(T) -> T] /\ DOMAIN u = 1..(c + 1)
      BY <3>5, <3>7
    <3> QED BY <3>6, <3>8
  <2> QED BY <2>1, <2>2
<1> HIDE DEF ok
<1>3. n \in ok
  BY <1>1, <1>2, NatInSet
<1>4. \E s \in [1..Cardinality(S) -> S] : \A j, k \in DOMAIN s : j < k => s[j] < s[k]
  BY <1>3 DEF ok
<1>5. /\ Ascending(S) \in [1..Cardinality(S) -> S]
      /\ \A j, k \in DOMAIN Ascending(S) : j < k => Ascending(S)[j] < Ascending(S)[k]
  BY <1>4 DEF Ascending
<1>6. IsFiniteSet(S) /\ Cardinality(S) \in Nat
  <2>1. IsFiniteSet(1..n)
    BY FS_Interval
  <2> QED BY <2>1, FS_Subset, FS_CardinalityType
<1> DEFINE c == Cardinality(S)
           a == Ascending(S)
<1> HIDE DEF c, a
<1>7. a \in [1..c -> S] /\ c \in Nat /\ Rising(a)
  BY <1>5, <1>6 DEF Rising, c, a
<1>8. a \in [1..c -> Int]
  <2>1. S \subseteq Int
    OBVIOUS
  <2> QED BY <1>7, <2>1
<1>9. a \in Injection(1..c, S)
  BY <1>7, <1>8, RisingOneToOne DEF Injection, IsInjective
<1>10. Cardinality(1..c) = c
  BY <1>7, FS_Interval
<1>11. a \in Surjection(1..c, S)
  BY <1>6, <1>9, <1>10, FS_Injection DEF c
<1> QED BY <1>7, <1>11 DEF Surjection, c, a

-----------------------------------------------------------------------------
(* One row: its cells are those that f says begin at the columns X, and at *)
(* gives the column of each.                                               *)
Line(row, at, X, f) ==
    /\ row \in Seq(Cell)
    /\ at \in [1..Len(row) -> X]
    /\ Rising(at)
    /\ \A x \in X : \E i \in 1..Len(row) : at[i] = x
    /\ \A i \in 1..Len(row) : row[i] = f[at[i]]

\* What it means that the cells of a row stand at certain columns.
LEMMA LineFacts ==
  ASSUME NEW row, NEW at, NEW X \in SUBSET Int, NEW f, Line(row, at, X, f)
  PROVE  /\ Len(row) \in Nat /\ DOMAIN row = 1..Len(row) /\ DOMAIN at = 1..Len(row)
         /\ \A i \in 1..Len(row) : at[i] \in X /\ at[i] \in Int /\ row[i] = f[at[i]] /\ row[i] \in Cell
         /\ at \in [1..Len(row) -> Int]
         /\ \A i, j \in 1..Len(row) : (at[i] = at[j] => i = j) /\ (at[i] < at[j] <=> i < j)
<1>1. row \in Seq(Cell) /\ at \in [1..Len(row) -> X] /\ Rising(at)
  BY DEF Line
<1>2. Len(row) \in Nat /\ DOMAIN row = 1..Len(row) /\ \A i \in 1..Len(row) : row[i] \in Cell
  BY <1>1, LenProperties
<1>3. at \in [1..Len(row) -> Int]
  BY <1>1
<1>4. \A i, j \in 1..Len(row) : (at[i] = at[j] => i = j) /\ (at[i] < at[j] <=> i < j)
  BY <1>1, <1>2, <1>3, RisingOneToOne
<1> QED BY <1>1, <1>2, <1>3, <1>4 DEF Line

\* The number of a row's cells that begin before a column.
LEMMA LineCount ==
  ASSUME NEW row, NEW at, NEW X \in SUBSET Int, NEW f, Line(row, at, X, f), NEW c \in Int
  PROVE  LET n == Cardinality({x \in X : x < c})
         IN  n \in 0..Len(row) /\ \A i \in 1..Len(row) : i <= n <=> at[i] < c
<1> DEFINE below == {i \in 1..Len(row) : at[i] < c}
           S == {x \in X : x < c}
<1>1. Len(row) \in Nat /\ (\A i \in 1..Len(row) : at[i] \in X /\ at[i] \in Int)
  BY LineFacts
<1>2. \A i, j \in 1..Len(row) : (at[i] = at[j] => i = j) /\ (at[i] < at[j] <=> i < j)
  BY LineFacts
<1>3. \E n \in 0..Len(row) : \A i \in 1..Len(row) : i <= n <=> at[i] < c
  <2>1. CASE below = {}
    <3>1. 0 \in 0..Len(row) /\ \A i \in 1..Len(row) : i <= 0 <=> at[i] < c
      BY <2>1, <1>1
    <3> QED BY <3>1
  <2>2. CASE below # {}
    <3>1. below \in SUBSET (1..Len(row)) /\ 1 \in Int /\ Len(row) \in Int
      BY <1>1
    <3>2. Max(below) \in below /\ \A i \in below : i <= Max(below)
      BY <3>1, <2>2, HasMax
    <3>3. \A i \in 1..Len(row) : i <= Max(below) => at[i] < c
      <4> SUFFICES ASSUME NEW i \in 1..Len(row), i <= Max(below)
                   PROVE  at[i] < c
        OBVIOUS
      <4>1. Max(below) \in 1..Len(row) /\ at[Max(below)] < c /\ at[Max(below)] \in Int /\ at[i] \in Int
        BY <3>2, <1>1
      <4>2. i = Max(below) \/ at[i] < at[Max(below)]
        BY <4>1, <1>2
      <4> QED BY <4>1, <4>2
    <3>4. \A i \in 1..Len(row) : at[i] < c => i <= Max(below)
      BY <3>2
    <3>5. Max(below) \in 0..Len(row)
      BY <3>2
    <3> HIDE DEF below
    <3> QED BY <3>3, <3>4, <3>5
  <2> QED BY <2>1, <2>2
<1>4. PICK n \in 0..Len(row) : \A i \in 1..Len(row) : i <= n <=> at[i] < c
  BY <1>3
<1>5. n \in Nat /\ \A i \in 1..n : i \in 1..Len(row)
  BY <1>1
<1> DEFINE g == [i \in 1..n |-> at[i]]
<1>6. g \in [1..n -> S]
  BY <1>1, <1>4, <1>5
<1>7. \A i, j \in 1..n : g[i] = g[j] => i = j
  BY <1>2, <1>5
<1>8. \A x \in S : \E i \in 1..n : g[i] = x
  <2> SUFFICES ASSUME NEW x \in X, x < c
               PROVE  \E i \in 1..n : g[i] = x
    OBVIOUS
  <2>1. PICK i \in 1..Len(row) : at[i] = x
    BY DEF Line
  <2>2. i \in 1..n
    BY <2>1, <1>4, <1>5
  <2> QED BY <2>1, <2>2
<1>9. g \in Bijection(1..n, S)
  <2> HIDE DEF g, S
  <2> QED BY <1>6, <1>7, <1>8 DEF Bijection, Injection, Surjection, IsInjective
<1>10. Cardinality(S) = n
  <2> HIDE DEF S, g
  <2> QED BY <1>5, <1>9, FS_CountingElements DEF ExistsBijection
<1> HIDE DEF S
<1> QED BY <1>4, <1>10 DEF S

(* Row v is row u with cell x put in at place m.                           *)
Inserted(v, u, m, x) ==
    /\ v \in Seq(Cell) /\ Len(v) = Len(u) + 1
    /\ \A j \in 1..Len(v) : v[j] = IF j < m THEN u[j] ELSE IF j = m THEN x ELSE u[j - 1]

\* InsertAt puts a cell in at a place of the row,
LEMMA InsertAtIs ==
  ASSUME NEW u \in Seq(Cell), NEW m \in 1..(Len(u) + 1), NEW x \in Cell
  PROVE  Inserted(InsertAt(u, m, x), u, m, x)
<1>1. Len(u) \in Nat /\ \A i \in 1..Len(u) : u[i] \in Cell
  BY LenProperties
<1> DEFINE a == SubSeq(u, 1, m - 1)
           b == SubSeq(u, m, Len(u))
<1>2. a \in Seq(Cell) /\ Len(a) = m - 1 /\ \A i \in 1..(m - 1) : a[i] = u[i]
  <2>1. 1 \in Int /\ m - 1 \in Int /\ \A i \in 1..(m - 1) : u[i] \in Cell
    BY <1>1
  <2>2. /\ a \in Seq(Cell)
        /\ Len(a) = IF 1 <= m - 1 THEN (m - 1) - 1 + 1 ELSE 0
        /\ \A i \in 1..((m - 1) - 1 + 1) : a[i] = u[1 + i - 1]
    BY <2>1, SubSeqProperties
  <2> HIDE DEF a
  <2> QED BY <2>2, <1>1
<1>3. b \in Seq(Cell) /\ Len(b) = Len(u) - m + 1 /\ \A i \in 1..(Len(u) - m + 1) : b[i] = u[m + i - 1]
  <2>1. m \in Int /\ Len(u) \in Int /\ \A i \in m..Len(u) : u[i] \in Cell
    BY <1>1
  <2>2. /\ b \in Seq(Cell)
        /\ Len(b) = IF m <= Len(u) THEN Len(u) - m + 1 ELSE 0
        /\ \A i \in 1..(Len(u) - m + 1) : b[i] = u[m + i - 1]
    BY <2>1, SubSeqProperties
  <2> HIDE DEF b
  <2> QED BY <2>2, <1>1
<1> DEFINE one == <<x>>
<1>4. one \in Seq(Cell) /\ Len(one) = 1 /\ one[1] = x
  OBVIOUS
<1> DEFINE w == a \o one
<1>7. InsertAt(u, m, x) = w \o b
  BY DEF InsertAt
<1> HIDE DEF a, b, one
<1>5. w \in Seq(Cell) /\ Len(w) = m /\ \A j \in 1..m : w[j] = IF j <= m - 1 THEN u[j] ELSE x
  <2>1. /\ w \in Seq(Cell)
        /\ Len(w) = Len(a) + Len(one)
        /\ \A j \in 1..(Len(a) + Len(one)) : w[j] = IF j <= Len(a) THEN a[j] ELSE one[j - Len(a)]
    BY <1>2, <1>4, ConcatProperties
  <2> HIDE DEF w
  <2>2. Len(a) + Len(one) = m
    BY <1>2, <1>4, <1>1
  <2>3. ASSUME NEW j \in 1..m
        PROVE  w[j] = IF j <= m - 1 THEN u[j] ELSE x
    <3>1. CASE j <= m - 1
      <4>1. j <= Len(a) /\ j \in 1..(m - 1) /\ j \in 1..(Len(a) + Len(one))
        BY <3>1, <2>2, <1>2, <1>1
      <4>2. w[j] = a[j] /\ a[j] = u[j]
        BY <4>1, <2>1, <1>2
      <4> QED BY <4>2, <3>1
    <3>2. CASE j = m
      <4>1. ~(j <= Len(a)) /\ j - Len(a) = 1 /\ ~(j <= m - 1) /\ j \in 1..(Len(a) + Len(one))
        BY <3>2, <2>2, <1>2, <1>1
      <4>2. w[j] = one[j - Len(a)]
        BY <4>1, <2>1
      <4> QED BY <4>1, <4>2, <1>4
    <3>3. j <= m - 1 \/ j = m
      BY <1>1
    <3> QED BY <3>1, <3>2, <3>3
  <2> QED BY <2>1, <2>2, <2>3
<1> HIDE DEF w
<1> DEFINE v == w \o b
<1>6. /\ v \in Seq(Cell) /\ Len(v) = m + Len(b)
      /\ \A j \in 1..(m + Len(b)) : v[j] = IF j <= m THEN w[j] ELSE b[j - m]
  <2>1. /\ v \in Seq(Cell) /\ Len(v) = Len(w) + Len(b)
        /\ \A j \in 1..(Len(w) + Len(b)) : v[j] = IF j <= Len(w) THEN w[j] ELSE b[j - Len(w)]
    BY <1>3, <1>5, ConcatProperties
  <2> QED BY <2>1, <1>5
<1> HIDE DEF v
<1>8. Len(v) = Len(u) + 1 /\ m + Len(b) = Len(u) + 1
  BY <1>6, <1>3, <1>1
<1>9. ASSUME NEW j \in 1..Len(v)
      PROVE  v[j] = IF j < m THEN u[j] ELSE IF j = m THEN x ELSE u[j - 1]
  <2>1. v[j] = IF j <= m THEN w[j] ELSE b[j - m]
    BY <1>6, <1>8
  <2>2. CASE j <= m
    BY <2>1, <2>2, <1>5, <1>1
  <2>3. CASE j > m
    <3>1. j - m \in 1..(Len(u) - m + 1) /\ m + (j - m) - 1 = j - 1 /\ ~(j <= m) /\ ~(j < m) /\ j # m
      BY <2>3, <1>8, <1>1
    <3>2. b[j - m] = u[j - 1]
      BY <3>1, <1>3
    <3>3. v[j] = u[j - 1]
      BY <3>1, <3>2, <2>1
    <3> QED BY <3>1, <3>3
  <2>4. j \in Int /\ m \in Int
    BY <1>8, <1>1
  <2>5. j <= m \/ j > m
    BY <2>4
  <2> QED BY <2>2, <2>3, <2>5
<1>10. Inserted(v, u, m, x)
  BY <1>6, <1>8, <1>9 DEF Inserted
<1>11. InsertAt(u, m, x) = v
  BY <1>7 DEF v
<1> QED BY <1>10, <1>11

\* Append at its end,
LEMMA AppendIs ==
  ASSUME NEW u \in Seq(Cell), NEW x \in Cell
  PROVE  Inserted(Append(u, x), u, Len(u) + 1, x)
<1>1. Len(u) \in Nat
  BY LenProperties
<1>2. /\ Append(u, x) \in Seq(Cell) /\ Len(Append(u, x)) = Len(u) + 1
      /\ \A i \in 1..Len(u) : Append(u, x)[i] = u[i]
      /\ Append(u, x)[Len(u) + 1] = x
  BY AppendProperties
<1> QED BY <1>1, <1>2 DEF Inserted

\* and a cell before the row at its first place.
LEMMA PrependIs ==
  ASSUME NEW u \in Seq(Cell), NEW x \in Cell
  PROVE  Inserted(<<x>> \o u, u, 1, x)
<1>1. Len(u) \in Nat
  BY LenProperties
<1>2. <<x>> \in Seq(Cell) /\ Len(<<x>>) = 1 /\ <<x>>[1] = x
  OBVIOUS
<1>3. /\ <<x>> \o u \in Seq(Cell) /\ Len(<<x>> \o u) = 1 + Len(u)
      /\ \A i \in 1..(1 + Len(u)) : (<<x>> \o u)[i] = IF i <= 1 THEN <<x>>[i] ELSE u[i - 1]
  BY <1>2, ConcatProperties
<1> HIDE <1>2
<1> QED BY <1>1, <1>2, <1>3 DEF Inserted

\* A row with one more cell, put in where its column asks for it.
LEMMA LineInsert ==
  ASSUME NEW row, NEW at, NEW X \in SUBSET Int, NEW f, Line(row, at, X, f),
         NEW c \in Int, c \notin X,
         NEW m \in 1..(Len(row) + 1), \A i \in 1..Len(row) : i < m <=> at[i] < c,
         NEW x, NEW v, Inserted(v, row, m, x),
         NEW g, g[c] = x, \A y \in X : g[y] = f[y]
  PROVE  \E b : Line(v, b, X \union {c}, g)
<1> DEFINE n == Len(row)
           b == [j \in 1..(n + 1) |-> IF j < m THEN at[j] ELSE IF j = m THEN c ELSE at[j - 1]]
           Y == X \union {c}
<1>1. /\ n \in Nat /\ DOMAIN row = 1..n /\ DOMAIN at = 1..n
      /\ \A i \in 1..n : at[i] \in X /\ at[i] \in Int /\ row[i] = f[at[i]]
      /\ \A i, j \in 1..n : at[i] < at[j] <=> i < j
      /\ \A y \in X : \E i \in 1..n : at[i] = y
  <2>1. \A y \in X : \E i \in 1..Len(row) : at[i] = y
    BY DEF Line
  <2> QED BY <2>1, LineFacts
<1>2. \A i \in 1..n : i < m <=> at[i] < c
  OBVIOUS
<1>3. m \in 1..(n + 1)
  OBVIOUS
<1>4. /\ v \in Seq(Cell) /\ Len(v) = n + 1
      /\ \A j \in 1..(n + 1) : v[j] = IF j < m THEN row[j] ELSE IF j = m THEN x ELSE row[j - 1]
  BY DEF Inserted
<1> HIDE DEF n
<1>5. \A j \in 1..(n + 1) : /\ j < m => j \in 1..n
                            /\ ~(j < m) /\ j # m => j - 1 \in 1..n /\ ~(j - 1 < m)
  BY <1>1, <1>3
<1>6. \A j \in 1..(n + 1) : b[j] \in Y /\ b[j] \in Int
  BY <1>1, <1>5
<1>7. b \in [1..(n + 1) -> Y]
  BY <1>6
<1>8. \A i \in 1..n : ~(i < m) => c < at[i]
  BY <1>1, <1>2
<1>9. ASSUME NEW j \in 1..(n + 1), NEW k \in 1..(n + 1), j < k
      PROVE  b[j] < b[k]
  <2>1. CASE k < m
    <3>1. j < m /\ j \in 1..n /\ k \in 1..n /\ b[j] = at[j] /\ b[k] = at[k]
      BY <1>3, <1>5, <1>9, <2>1
    <3> QED BY <3>1, <1>1, <1>9
  <2>2. CASE k = m
    <3>1. j < m /\ j \in 1..n /\ b[j] = at[j] /\ b[k] = c
      BY <1>3, <1>5, <1>9, <2>2
    <3> QED BY <3>1, <1>2
  <2>3. CASE ~(k < m) /\ k # m
    <3>1. k - 1 \in 1..n /\ ~(k - 1 < m) /\ b[k] = at[k - 1]
      BY <1>5, <2>3
    <3>2. CASE j < m
      <4>1. j \in 1..n /\ j < k - 1 /\ b[j] = at[j]
        BY <1>3, <1>5, <3>1, <3>2
      <4> QED BY <4>1, <3>1, <1>1
    <3>3. CASE j = m
      BY <3>1, <3>3, <1>8, <1>3
    <3>4. CASE ~(j < m) /\ j # m
      <4>1. j - 1 \in 1..n /\ b[j] = at[j - 1] /\ j - 1 < k - 1
        BY <1>5, <3>4, <1>9
      <4> QED BY <4>1, <3>1, <1>1
    <3> QED BY <3>2, <3>3, <3>4
  <2> QED BY <2>1, <2>2, <2>3
<1>10. ASSUME NEW y \in Y
       PROVE  \E j \in 1..(n + 1) : b[j] = y
  <2>1. CASE y = c
    <3>1. b[m] = c
      BY <1>3
    <3> QED BY <3>1, <1>3, <2>1
  <2>2. CASE y # c
    <3>1. PICK i \in 1..n : at[i] = y
      BY <1>1, <2>2
    <3>2. CASE i < m
      <4>1. i \in 1..(n + 1) /\ b[i] = y
        BY <3>1, <3>2, <1>1
      <4> QED BY <4>1
    <3>3. CASE ~(i < m)
      <4>1. i + 1 \in 1..(n + 1) /\ ~(i + 1 < m) /\ i + 1 # m /\ (i + 1) - 1 = i
        BY <3>3, <1>1, <1>3
      <4>2. b[i + 1] = y
        BY <4>1, <3>1
      <4> QED BY <4>1, <4>2
    <3> QED BY <3>2, <3>3
  <2> QED BY <2>1, <2>2
<1>11. ASSUME NEW j \in 1..(n + 1)
       PROVE  v[j] = g[b[j]]
  <2>1. CASE j < m
    <3>1. j \in 1..n /\ v[j] = row[j] /\ b[j] = at[j]
      BY <2>1, <1>4, <1>5
    <3> QED BY <3>1, <1>1
  <2>2. CASE j = m
    <3>1. v[j] = x /\ b[j] = c
      BY <2>2, <1>4, <1>3
    <3> QED BY <3>1
  <2>3. CASE ~(j < m) /\ j # m
    <3>1. j - 1 \in 1..n /\ v[j] = row[j - 1] /\ b[j] = at[j - 1]
      BY <2>3, <1>4, <1>5
    <3> QED BY <3>1, <1>1
  <2> QED BY <2>1, <2>2, <2>3
<1>12. DOMAIN b = 1..(n + 1)
  OBVIOUS
<1> HIDE DEF b, Y
<1>13. Rising(b)
  BY <1>9, <1>12 DEF Rising
<1>14. Line(v, b, Y, g)
  BY <1>4, <1>7, <1>10, <1>11, <1>13 DEF Line
<1> QED BY <1>14 DEF Y

\* A row whose cells are changed or moved, but keep their order.
LEMMA LineMap ==
  ASSUME NEW row, NEW at, NEW X \in SUBSET Int, NEW f, Line(row, at, X, f),
         NEW Y \in SUBSET Int, NEW h \in [X -> Y],
         \A x, y \in X : x < y => h[x] < h[y], \A y \in Y : \E x \in X : h[x] = y,
         NEW v \in Seq(Cell), Len(v) = Len(row),
         NEW g, \A i \in 1..Len(row) : v[i] = g[h[at[i]]]
  PROVE  Line(v, [i \in 1..Len(row) |-> h[at[i]]], Y, g)
<1> DEFINE n == Len(row)
           b == [i \in 1..n |-> h[at[i]]]
<1>1. /\ n \in Nat
      /\ \A i \in 1..n : at[i] \in X /\ at[i] \in Int
      /\ \A i, j \in 1..n : at[i] < at[j] <=> i < j
      /\ \A y \in X : \E i \in 1..n : at[i] = y
  <2>1. \A y \in X : \E i \in 1..Len(row) : at[i] = y
    BY DEF Line
  <2> QED BY <2>1, LineFacts
<1>2. b \in [1..n -> Y]
  BY <1>1
<1>3. \A j, k \in 1..n : j < k => b[j] < b[k]
  BY <1>1
<1>4. Rising(b)
  BY <1>3 DEF Rising
<1>5. \A y \in Y : \E i \in 1..n : b[i] = y
  <2> SUFFICES ASSUME NEW y \in Y
               PROVE  \E i \in 1..n : b[i] = y
    OBVIOUS
  <2>1. PICK x \in X : h[x] = y
    OBVIOUS
  <2>2. PICK i \in 1..n : at[i] = x
    BY <1>1
  <2> QED BY <2>1, <2>2
<1>6. \A i \in 1..n : v[i] = g[b[i]]
  OBVIOUS
<1>7. Len(v) = n /\ v \in Seq(Cell)
  OBVIOUS
<1>8. Line(v, b, Y, g)
  <2> HIDE DEF b, n
  <2> QED BY <1>2, <1>4, <1>5, <1>6, <1>7 DEF Line
<1> QED BY <1>8

\* A row of which only the cells stay that begin at columns in Y.
LEMMA LineDrop ==
  ASSUME NEW row, NEW at, NEW X \in SUBSET Int, NEW f, Line(row, at, X, f),
         NEW Y \in SUBSET X,
         NEW kept, kept = Ascending({i \in DOMAIN row : at[i] \in Y})
  PROVE  Line([k \in DOMAIN kept |-> row[kept[k]]], [k \in DOMAIN kept |-> at[kept[k]]], Y, f)
<1> DEFINE n == Len(row)
           S == {i \in 1..n : at[i] \in Y}
           q == Cardinality(S)
           v == [k \in 1..q |-> row[kept[k]]]
           b == [k \in 1..q |-> at[kept[k]]]
<1>1. /\ n \in Nat /\ DOMAIN row = 1..n
      /\ \A i \in 1..n : at[i] \in X /\ at[i] \in Int /\ row[i] = f[at[i]] /\ row[i] \in Cell
      /\ \A i, j \in 1..n : at[i] < at[j] <=> i < j
      /\ \A y \in X : \E i \in 1..n : at[i] = y
  <2>1. \A y \in X : \E i \in 1..Len(row) : at[i] = y
    BY DEF Line
  <2> QED BY <2>1, LineFacts
<1>2. kept = Ascending(S) /\ S \in SUBSET (1..n)
  <2>1. {i \in DOMAIN row : at[i] \in Y} = S
    BY <1>1
  <2> QED BY <2>1
<1> HIDE DEF S
<1>3. /\ q \in Nat /\ kept \in [1..q -> S] /\ Rising(kept)
      /\ \A x \in S : \E k \in 1..q : kept[k] = x
  <2>1. n \in Nat /\ S \in SUBSET (1..n)
    BY <1>1, <1>2
  <2>2. /\ q \in Nat /\ Ascending(S) \in [1..q -> S] /\ Rising(Ascending(S))
        /\ \A x \in S : \E k \in 1..q : Ascending(S)[k] = x
    <3> HIDE DEF n
    <3> QED BY <2>1, AscendingIs
  <2> QED BY <2>2, <1>2
<1> HIDE DEF q, n
<1>4. \A k \in 1..q : kept[k] \in 1..n /\ at[kept[k]] \in Y /\ DOMAIN kept = 1..q
  <2>1. \A i \in S : i \in 1..n /\ at[i] \in Y
    BY DEF S
  <2> QED BY <1>3, <2>1
<1>5. v \in Seq(Cell) /\ Len(v) = q
  <2>1. \A k \in 1..q : row[kept[k]] \in Cell
    BY <1>1, <1>4
  <2>2. v \in [1..q -> Cell]
    BY <2>1
  <2> QED BY <2>2, <1>3, FcnIsSeq
<1>6. b \in [1..q -> Y]
  BY <1>4
<1>7. \A j, k \in 1..q : j < k => b[j] < b[k]
  BY <1>1, <1>3, <1>4 DEF Rising
<1>8. Rising(b)
  BY <1>7 DEF Rising
<1>9. \A y \in Y : \E k \in 1..q : b[k] = y
  <2> SUFFICES ASSUME NEW y \in Y
               PROVE  \E k \in 1..q : b[k] = y
    OBVIOUS
  <2>1. PICK i \in 1..n : at[i] = y
    BY <1>1
  <2>2. i \in S
    BY <2>1 DEF S
  <2>3. PICK k \in 1..q : kept[k] = i
    BY <2>2, <1>3
  <2> QED BY <2>1, <2>3
<1>10. \A k \in 1..q : v[k] = f[b[k]]
  BY <1>1, <1>4
<1>11. Line(v, b, Y, f)
  <2> HIDE DEF v, b
  <2> QED BY <1>5, <1>6, <1>8, <1>9, <1>10 DEF Line
<1>12. DOMAIN kept = 1..q
  BY <1>3
<1> QED BY <1>11, <1>12

\* A new row, with equal cells at the columns X.
LEMMA LineNew ==
  ASSUME NEW n \in Nat, NEW X \in SUBSET (1..n), NEW x \in Cell, NEW f, \A c \in X : f[c] = x
  PROVE  Line([k \in 1..Cardinality(X) |-> x], Ascending(X), X, f)
<1> DEFINE q == Cardinality(X)
           v == [k \in 1..q |-> x]
           a == Ascending(X)
<1>1. /\ q \in Nat /\ a \in [1..q -> X] /\ Rising(a)
      /\ \A y \in X : \E k \in 1..q : a[k] = y
  BY AscendingIs
<1> HIDE DEF q, a
<1>2. v \in [1..q -> Cell] /\ \A k \in 1..q : v[k] = x
  OBVIOUS
<1>3. v \in Seq(Cell) /\ Len(v) = q
  BY <1>1, <1>2, FcnIsSeq
<1> HIDE DEF v
<1>4. Line(v, a, X, f)
  BY <1>1, <1>2, <1>3 DEF Line
<1> QED BY <1>4 DEF v, a, q

-----------------------------------------------------------------------------
(* Layouts: for every position of a grid of R rows and C columns the cell  *)
(* that covers it, with the position where that cell begins.  The rows in  *)
(* B are bare: nothing covers them.                                        *)

Fits(G, R, C, B, r, c) ==
    LET g == G[r][c]
    IN  /\ g \in [row : Nat, col : Nat, cell : Cell]
        /\ g.row \in 1..r /\ r < g.row + g.cell.rowSpan /\ g.row + g.cell.rowSpan <= R + 1
        /\ g.col \in 1..c /\ c < g.col + g.cell.colSpan /\ g.col + g.cell.colSpan <= C + 1
        /\ \A x \in g.row..(g.row + g.cell.rowSpan - 1), y \in g.col..(g.col + g.cell.colSpan - 1) :
              x \notin B /\ G[x][y] = g

Laid(G, R, C, B) ==
    /\ R \in Nat \ {0} /\ C \in Nat /\ B \in SUBSET (2..R)
    /\ \A r \in (1..R) \ B, c \in 1..C : Fits(G, R, C, B, r, c)

Starts(G, r, C) == {c \in 1..C : G[r][c].row = r /\ G[r][c].col = c}

CellsOf(G, r, C) == [c \in 1..C |-> G[r][c].cell]

(* The rows are those of a layout.                                         *)
Lays(rows, C, B, G) ==
    /\ rows \in Seq(Seq(Cell)) /\ Laid(G, Len(rows), C, B)
    /\ \A r \in (1..Len(rows)) \ B : \E at : Line(rows[r], at, Starts(G, r, C), CellsOf(G, r, C))
    /\ \A r \in B : rows[r] = <<>>

(* An index, and the column of each cell.                                  *)
Sits(rows, C, B, J, K, r, c) ==
    LET j == J[<<r, c>>]
    IN  /\ j.row \in 1..r /\ j.cell \in 1..Len(rows[j.row]) /\ j.col \in 1..c
        /\ j = Info(rows, j.row, j.cell, j.col) /\ K[j.row][j.cell] = j.col
        /\ j.rowSpan \in Nat \ {0} /\ j.colSpan \in Nat \ {0}
        /\ r < j.row + j.rowSpan /\ j.row + j.rowSpan <= Len(rows) + 1
        /\ c < j.col + j.colSpan /\ j.col + j.colSpan <= C + 1
        /\ \A x \in j.row..(j.row + j.rowSpan - 1), y \in j.col..(j.col + j.colSpan - 1) :
              x \notin B /\ J[<<x, y>>] = j

Numbered(rows, C, B, J, K) ==
    /\ rows \in Seq(Seq(Cell)) /\ Len(rows) \in Nat \ {0} /\ C \in Nat /\ B \in SUBSET (2..Len(rows))
    /\ J = [pos \in ((1..Len(rows)) \ B) \X (1..C) |-> J[pos]]
    /\ \A r \in (1..Len(rows)) \ B, c \in 1..C : Sits(rows, C, B, J, K, r, c)
    /\ \A r \in 1..Len(rows) : K[r] \in [1..Len(rows[r]) -> 1..C] /\ Rising(K[r])
    /\ \A r \in 1..Len(rows) : \A i \in 1..Len(rows[r]) :
          r \notin B /\ J[<<r, K[r][i]>>] = Info(rows, r, i, K[r][i])

\* Rows are a sequence of sequences of cells.
LEMMA RowsTyped ==
  ASSUME NEW rows \in Seq(Seq(Cell))
  PROVE  /\ Len(rows) \in Nat /\ DOMAIN rows = 1..Len(rows)
         /\ \A r \in 1..Len(rows) : /\ rows[r] \in Seq(Cell)
                                    /\ Len(rows[r]) \in Nat /\ DOMAIN rows[r] = 1..Len(rows[r])
                                    /\ \A i \in 1..Len(rows[r]) : rows[r][i] \in Cell
<1>1. Len(rows) \in Nat /\ DOMAIN rows = 1..Len(rows) /\ \A r \in 1..Len(rows) : rows[r] \in Seq(Cell)
  BY LenProperties
<1>2. \A u \in Seq(Cell) : Len(u) \in Nat /\ DOMAIN u = 1..Len(u) /\ \A i \in 1..Len(u) : u[i] \in Cell
  BY LenProperties
<1> QED BY <1>1, <1>2

\* The fields of a cell.
LEMMA CellTyped ==
  ASSUME NEW x \in Cell
  PROVE  x.rowSpan \in Nat \ {0} /\ x.colSpan \in Nat \ {0} /\ x.text \in SUBSET Words /\ x.selected \in BOOLEAN
BY DEF Cell

\* The places of the cells, row by row.
LEMMA PlacesAre ==
  ASSUME NEW rows \in Seq(Seq(Cell))
  PROVE  \A p : p \in Places(rows) <=> \E r \in 1..Len(rows) : \E i \in 1..Len(rows[r]) : p = <<r, i>>
<1> SUFFICES ASSUME NEW p
             PROVE  p \in Places(rows) <=> \E r \in 1..Len(rows) : \E i \in 1..Len(rows[r]) : p = <<r, i>>
  OBVIOUS
<1>1. DOMAIN rows = 1..Len(rows) /\ \A r \in 1..Len(rows) : DOMAIN rows[r] = 1..Len(rows[r])
  BY RowsTyped
<1>2. p \in Places(rows) <=> \E r \in 1..Len(rows) : p \in {r} \X (1..Len(rows[r]))
  BY <1>1 DEF Places
<1>3. \A r \in 1..Len(rows) : p \in {r} \X (1..Len(rows[r])) <=> \E i \in 1..Len(rows[r]) : p = <<r, i>>
  OBVIOUS
<1> QED BY <1>2, <1>3

\* The layout of rows numbers their cells.
LEMMA LaysNumbered ==
  ASSUME NEW rows, NEW C, NEW B, NEW G, Lays(rows, C, B, G)
  PROVE  \E J, K : /\ Numbered(rows, C, B, J, K)
                   /\ \A r \in (1..Len(rows)) \ B, c \in 1..C :
                        LET j == J[<<r, c>>]
                        IN  j.row = G[r][c].row /\ j.col = G[r][c].col /\ rows[j.row][j.cell] = G[r][c].cell
<1> DEFINE R == Len(rows)
           Has(r, at) == Line(rows[r], at, Starts(G, r, C), CellsOf(G, r, C))
           K == [r \in 1..R |-> IF r \in B THEN [i \in 1..0 |-> i] ELSE CHOOSE at : Has(r, at)]
           Num(r, c) == CHOOSE i \in 1..Len(rows[r]) : K[r][i] = c
           J == [pos \in ((1..R) \ B) \X (1..C) |->
                    LET g == G[pos[1]][pos[2]] IN Info(rows, g.row, Num(g.row, g.col), g.col)]
<1>1. rows \in Seq(Seq(Cell)) /\ Laid(G, R, C, B) /\ (\A r \in (1..R) \ B : \E at : Has(r, at)) /\ \A r \in B : rows[r] = <<>>
  BY DEF Lays
<1>2. R \in Nat \ {0} /\ C \in Nat /\ B \in SUBSET (2..R)
  BY <1>1 DEF Laid
<1>3. \A r \in (1..R) \ B : Has(r, K[r])
  <2> HIDE DEF Has
  <2> QED BY <1>1
<1>4. \A r \in 1..R : rows[r] \in Seq(Cell) /\ Len(rows[r]) \in Nat /\ \A i \in 1..Len(rows[r]) : rows[r][i] \in Cell
  BY <1>1, RowsTyped
<1>5. \A r \in B : r \in 1..R /\ rows[r] = <<>> /\ Len(rows[r]) = 0 /\ K[r] = [i \in 1..0 |-> i]
  BY <1>1, <1>2
<1> HIDE DEF K
<1>6. \A r \in (1..R) \ B : /\ K[r] \in [1..Len(rows[r]) -> Starts(G, r, C)] /\ Rising(K[r])
                            /\ \A x \in Starts(G, r, C) : \E i \in 1..Len(rows[r]) : K[r][i] = x
                            /\ \A i \in 1..Len(rows[r]) : rows[r][i] = CellsOf(G, r, C)[K[r][i]]
  BY <1>3 DEF Line
<1>7. ASSUME NEW r \in (1..R) \ B, NEW i \in 1..Len(rows[r])
      PROVE  LET k == K[r][i]
             IN  /\ k \in 1..C /\ G[r][k].row = r /\ G[r][k].col = k /\ rows[r][i] = G[r][k].cell
                 /\ Num(r, k) = i
  <2>1. K[r][i] \in Starts(G, r, C) /\ rows[r][i] = CellsOf(G, r, C)[K[r][i]]
    BY <1>6
  <2>2. K[r] \in [1..Len(rows[r]) -> Int]
    <3>1. Starts(G, r, C) \subseteq Int
      BY DEF Starts
    <3> QED BY <3>1, <1>6
  <2>3. \A j \in 1..Len(rows[r]) : K[r][j] = K[r][i] => j = i
    <3>1. Len(rows[r]) \in Nat /\ Rising(K[r])
      BY <1>4, <1>6
    <3>2. \A j, k \in 1..Len(rows[r]) : /\ K[r][j] = K[r][k] => j = k
                                        /\ K[r][j] < K[r][k] <=> j < k
      BY <2>2, <3>1, RisingOneToOne
    <3> QED BY <3>2
  <2>4. Num(r, K[r][i]) = i
    BY <2>3
  <2> HIDE DEF Num
  <2> QED BY <2>1, <2>4 DEF Starts, CellsOf
<1>8. ASSUME NEW r \in (1..R) \ B, NEW c \in 1..C
      PROVE  LET g == G[r][c]
             IN  /\ Fits(G, R, C, B, r, c)
                 /\ g.row \in (1..R) \ B /\ g.col \in 1..C /\ G[g.row][g.col] = g
                 /\ Num(g.row, g.col) \in 1..Len(rows[g.row])
                 /\ K[g.row][Num(g.row, g.col)] = g.col
                 /\ rows[g.row][Num(g.row, g.col)] = g.cell
  <2> DEFINE g == G[r][c]
  <2>1. Fits(G, R, C, B, r, c)
    BY <1>1 DEF Laid
  <2>2. /\ g.row \in 1..r /\ g.cell \in Cell /\ g.row + g.cell.rowSpan <= R + 1
        /\ g.col \in 1..c /\ g.col + g.cell.colSpan <= C + 1
        /\ \A x \in g.row..(g.row + g.cell.rowSpan - 1), y \in g.col..(g.col + g.cell.colSpan - 1) :
              x \notin B /\ G[x][y] = g
    BY <2>1 DEF Fits
  <2> HIDE DEF g
  <2>3. g.cell.rowSpan \in Nat \ {0} /\ g.cell.colSpan \in Nat \ {0}
    BY <2>2, CellTyped
  <2>4. g.row \in 1..R /\ g.col \in 1..C
    BY <2>2, <1>2
  <2>5. g.row \notin B /\ G[g.row][g.col] = g
    <3>1. g.row \in Int /\ g.col \in Int
      BY <1>2, <2>4
    <3>2. g.row \in g.row..(g.row + g.cell.rowSpan - 1) /\ g.col \in g.col..(g.col + g.cell.colSpan - 1)
      BY <2>3, <3>1
    <3> QED BY <2>2, <3>2
  <2>6. g.col \in Starts(G, g.row, C)
    BY <2>4, <2>5 DEF Starts
  <2>7. PICK i \in 1..Len(rows[g.row]) : K[g.row][i] = g.col
    BY <1>6, <2>4, <2>5, <2>6
  <2>8. /\ Num(g.row, g.col) = i /\ rows[g.row][i] = G[g.row][g.col].cell
    BY <1>7, <2>4, <2>5, <2>7
  <2> HIDE DEF Num
  <2> QED BY <2>1, <2>4, <2>5, <2>7, <2>8 DEF g
<1> HIDE DEF Num
<1>9. ASSUME NEW r \in (1..R) \ B, NEW c \in 1..C
      PROVE  LET g == G[r][c]
             IN  J[<<r, c>>] = [row |-> g.row, cell |-> Num(g.row, g.col), col |-> g.col,
                                rowSpan |-> g.cell.rowSpan, colSpan |-> g.cell.colSpan]
  <2>1. J[<<r, c>>] = Info(rows, G[r][c].row, Num(G[r][c].row, G[r][c].col), G[r][c].col)
    OBVIOUS
  <2> HIDE DEF J
  <2> QED BY <2>1, <1>8 DEF Info
<1>10. J = [pos \in ((1..R) \ B) \X (1..C) |-> J[pos]]
  OBVIOUS
<1> HIDE DEF J
<1>11. ASSUME NEW r \in (1..R) \ B, NEW c \in 1..C
       PROVE  Sits(rows, C, B, J, K, r, c)
  <2> DEFINE g == G[r][c]
             j == J[<<r, c>>]
  <2>1. /\ j = [row |-> g.row, cell |-> Num(g.row, g.col), col |-> g.col,
                rowSpan |-> g.cell.rowSpan, colSpan |-> g.cell.colSpan]
    BY <1>9
  <2>2. /\ j.row = g.row /\ j.cell = Num(g.row, g.col) /\ j.col = g.col
        /\ j.rowSpan = g.cell.rowSpan /\ j.colSpan = g.cell.colSpan
    BY <2>1
  <2>3. /\ g.row \in 1..r /\ g.cell \in Cell
        /\ r < g.row + g.cell.rowSpan /\ g.row + g.cell.rowSpan <= R + 1
        /\ g.col \in 1..c /\ c < g.col + g.cell.colSpan /\ g.col + g.cell.colSpan <= C + 1
        /\ \A x \in g.row..(g.row + g.cell.rowSpan - 1), y \in g.col..(g.col + g.cell.colSpan - 1) :
              x \notin B /\ G[x][y] = g
    BY <1>8 DEF Fits
  <2>4. /\ Num(g.row, g.col) \in 1..Len(rows[g.row])
        /\ K[g.row][Num(g.row, g.col)] = g.col
        /\ rows[g.row][Num(g.row, g.col)] = g.cell
    BY <1>8
  <2>5. g.cell.rowSpan \in Nat \ {0} /\ g.cell.colSpan \in Nat \ {0}
    BY <2>3, CellTyped
  <2>6. j = Info(rows, j.row, j.cell, j.col)
    <3> HIDE DEF j, g
    <3> QED BY <2>1, <2>2, <2>4 DEF Info
  <2>7. ASSUME NEW x \in j.row..(j.row + j.rowSpan - 1), NEW y \in j.col..(j.col + j.colSpan - 1)
        PROVE  x \notin B /\ J[<<x, y>>] = j
    <3> HIDE DEF j, g
    <3>1. x \in g.row..(g.row + g.cell.rowSpan - 1) /\ y \in g.col..(g.col + g.cell.colSpan - 1)
      BY <2>2
    <3>2. x \notin B /\ G[x][y] = g
      BY <3>1, <2>3
    <3>3. x \in (1..R) \ B /\ y \in 1..C
      <4>1. r \in 1..R /\ c \in 1..C /\ g.row \in Int /\ g.col \in Int
        BY <2>3
      <4>2. x \in Int /\ g.row <= x /\ x <= g.row + g.cell.rowSpan - 1
        BY <3>1
      <4>3. y \in Int /\ g.col <= y /\ y <= g.col + g.cell.colSpan - 1
        BY <3>1
      <4>4. 1 <= g.row /\ g.row + g.cell.rowSpan <= R + 1 /\ R \in Int /\ g.cell.rowSpan \in Int
        BY <2>3, <2>5, <1>2
      <4>5. x \in 1..R
        BY <4>1, <4>2, <4>4
      <4>6. 1 <= g.col /\ g.col + g.cell.colSpan <= C + 1 /\ C \in Int /\ g.cell.colSpan \in Int
        BY <2>3, <2>5, <1>2
      <4>7. y \in 1..C
        BY <4>1, <4>3, <4>6
      <4> QED BY <4>5, <4>7, <3>2
    <3>4. J[<<x, y>>] = [row |-> g.row, cell |-> Num(g.row, g.col), col |-> g.col,
                         rowSpan |-> g.cell.rowSpan, colSpan |-> g.cell.colSpan]
      BY <3>2, <3>3, <1>9
    <3> QED BY <3>2, <3>4, <2>1
  <2> HIDE DEF g
  <2>8. /\ j.row \in 1..r /\ j.cell \in 1..Len(rows[j.row]) /\ j.col \in 1..c
        /\ K[j.row][j.cell] = j.col
        /\ j.rowSpan \in Nat \ {0} /\ j.colSpan \in Nat \ {0}
        /\ r < j.row + j.rowSpan /\ j.row + j.rowSpan <= R + 1
        /\ c < j.col + j.colSpan /\ j.col + j.colSpan <= C + 1
    <3> HIDE DEF j
    <3> QED BY <2>2, <2>3, <2>4, <2>5
  <2> QED BY <2>6, <2>7, <2>8 DEF Sits
<1>12. ASSUME NEW r \in 1..R
       PROVE  K[r] \in [1..Len(rows[r]) -> 1..C] /\ Rising(K[r])
  <2>1. CASE r \in B
    <3>1. Len(rows[r]) = 0 /\ K[r] = [i \in 1..0 |-> i]
      BY <2>1, <1>5
    <3> QED BY <3>1 DEF Rising
  <2>2. CASE r \notin B
    <3>1. Starts(G, r, C) \subseteq 1..C
      BY DEF Starts
    <3> QED BY <3>1, <2>2, <1>6
  <2> QED BY <2>1, <2>2
<1>13. ASSUME NEW r \in 1..R, NEW i \in 1..Len(rows[r])
       PROVE  r \notin B /\ J[<<r, K[r][i]>>] = Info(rows, r, i, K[r][i])
  <2>1. r \notin B
    BY <1>5
  <2> DEFINE k == K[r][i]
  <2>2. k \in 1..C /\ G[r][k].row = r /\ G[r][k].col = k /\ rows[r][i] = G[r][k].cell /\ Num(r, k) = i
    BY <1>7, <2>1
  <2> HIDE DEF k
  <2>3. J[<<r, k>>] = [row |-> r, cell |-> i, col |-> k,
                       rowSpan |-> G[r][k].cell.rowSpan, colSpan |-> G[r][k].cell.colSpan]
    BY <2>1, <2>2, <1>9
  <2>4. J[<<r, k>>] = Info(rows, r, i, k)
    BY <2>2, <2>3 DEF Info
  <2> QED BY <2>1, <2>4 DEF k
<1>14. Numbered(rows, C, B, J, K)
  BY <1>1, <1>2, <1>10, <1>11, <1>12, <1>13 DEF Numbered
<1>15. ASSUME NEW r \in (1..R) \ B, NEW c \in 1..C
       PROVE  LET j == J[<<r, c>>]
              IN  j.row = G[r][c].row /\ j.col = G[r][c].col /\ rows[j.row][j.cell] = G[r][c].cell
  <2>1. J[<<r, c>>] = [row |-> G[r][c].row, cell |-> Num(G[r][c].row, G[r][c].col), col |-> G[r][c].col,
                       rowSpan |-> G[r][c].cell.rowSpan, colSpan |-> G[r][c].cell.colSpan]
    BY <1>9
  <2>2. rows[G[r][c].row][Num(G[r][c].row, G[r][c].col)] = G[r][c].cell
    BY <1>8
  <2> QED BY <2>1, <2>2
<1> QED BY <1>14, <1>15

IndexOf(t) == [pos \in DOMAIN t.index |-> t.index[pos]]

GridOf(t) == [r \in 1..t.rowsNum |-> [c \in 1..t.colsNum |->
                 [row |-> t.index[<<r, c>>].row, col |-> t.index[<<r, c>>].col,
                  cell |-> CellOf(t, t.index[<<r, c>>])]]]

ColumnsOf(t) == [r \in 1..t.rowsNum |-> [i \in 1..Len(t.rows[r]) |-> InfoOf(t, <<r, i>>).col]]

(* What a tiled index says of a position.                                  *)
CoversAt(t, j, r, c) ==
    /\ j.row \in 1..r /\ j.col \in 1..c
    /\ j.row \in 1..t.rowsNum /\ j.cell \in 1..Len(t.rows[j.row])
    /\ j = Info(t.rows, j.row, j.cell, j.col)
    /\ j.rowSpan = CellOf(t, j).rowSpan /\ j.colSpan = CellOf(t, j).colSpan
    /\ j.rowSpan \in Nat \ {0} /\ j.colSpan \in Nat \ {0} /\ CellOf(t, j) \in Cell
    /\ r < j.row + j.rowSpan /\ j.row + j.rowSpan <= t.rowsNum + 1
    /\ c < j.col + j.colSpan /\ j.col + j.colSpan <= t.colsNum + 1
    /\ \A x \in j.row..(j.row + j.rowSpan - 1), y \in j.col..(j.col + j.colSpan - 1) :
          x \in 1..t.rowsNum /\ y \in 1..t.colsNum /\ t.index[<<x, y>>] = j

(* What it says of a cell.                                                 *)
PlacedAt(t, info, r, i) ==
    /\ info.col \in 1..t.colsNum /\ info = Info(t.rows, r, i, info.col)
    /\ info.row = r /\ info.cell = i
    /\ info = t.index[<<r, info.col>>]

\* What the index of a tiled table says at a position,
LEMMA TiledAt ==
  ASSUME NEW t, Tiled(t), NEW r \in 1..t.rowsNum, NEW c \in 1..t.colsNum
  PROVE  CoversAt(t, t.index[<<r, c>>], r, c)
<1> DEFINE infos == {t.index[pos] : pos \in DOMAIN t.index}
           j == t.index[<<r, c>>]
<1>1. /\ t.rows \in Seq(Seq(Cell)) /\ t.rowsNum = Len(t.rows) /\ t.colsNum \in Nat
      /\ DOMAIN t.index = (1..t.rowsNum) \X (1..t.colsNum)
      /\ {<<info.row, info.cell>> : info \in infos} = Places(t.rows)
      /\ \A info \in infos : info.col \in 1..t.colsNum /\ info = Info(t.rows, info.row, info.cell, info.col)
      /\ \A pos \in DOMAIN t.index : pos \in Area(t.index[pos])
      /\ \A info \in infos : \A pos \in Area(info) : pos \in DOMAIN t.index /\ t.index[pos] = info
  BY DEF Tiled
<1>2. <<r, c>> \in DOMAIN t.index
  BY <1>1
<1>3. j \in infos
  BY <1>2
<1>4. t.rowsNum \in Nat
  BY <1>1, RowsTyped
<1> HIDE DEF infos, j
<1>5. <<j.row, j.cell>> \in Places(t.rows)
  BY <1>1, <1>3
<1>6. j.row \in 1..t.rowsNum /\ j.cell \in 1..Len(t.rows[j.row])
  BY <1>1, <1>5, PlacesAre
<1>7. CellOf(t, j) \in Cell
  BY <1>1, <1>6, RowsTyped DEF CellOf
<1>8. /\ j = Info(t.rows, j.row, j.cell, j.col) /\ j.col \in 1..t.colsNum
  BY <1>1, <1>3
<1>9. j.rowSpan = CellOf(t, j).rowSpan /\ j.colSpan = CellOf(t, j).colSpan
  BY <1>8 DEF Info, CellOf
<1>10. j.rowSpan \in Nat \ {0} /\ j.colSpan \in Nat \ {0}
  BY <1>7, <1>9, CellTyped
<1>11. \A x, y : <<x, y>> \in Area(j) <=> x \in j.row..(j.row + j.rowSpan - 1) /\ y \in j.col..(j.col + j.colSpan - 1)
  BY DEF Area
<1>12. <<r, c>> \in Area(j)
  BY <1>1, <1>2 DEF j
<1>13. r \in j.row..(j.row + j.rowSpan - 1) /\ c \in j.col..(j.col + j.colSpan - 1)
  BY <1>11, <1>12
<1>14. \A x \in j.row..(j.row + j.rowSpan - 1), y \in j.col..(j.col + j.colSpan - 1) :
          t.index[<<x, y>>] = j /\ x \in 1..t.rowsNum /\ y \in 1..t.colsNum
  <2> TAKE x \in j.row..(j.row + j.rowSpan - 1), y \in j.col..(j.col + j.colSpan - 1)
  <2>1. <<x, y>> \in Area(j)
    BY <1>11
  <2>2. <<x, y>> \in DOMAIN t.index /\ t.index[<<x, y>>] = j
    BY <2>1, <1>1, <1>3
  <2> QED BY <2>2, <1>1
<1>15. j.row \in Nat /\ j.col \in Nat
  BY <1>6, <1>8
<1>16. /\ j.row + j.rowSpan - 1 \in j.row..(j.row + j.rowSpan - 1)
       /\ j.col + j.colSpan - 1 \in j.col..(j.col + j.colSpan - 1)
  BY <1>10, <1>15
<1>17. j.row + j.rowSpan - 1 \in 1..t.rowsNum /\ j.col + j.colSpan - 1 \in 1..t.colsNum
  BY <1>14, <1>16
<1>18. /\ j.row + j.rowSpan <= t.rowsNum + 1 /\ j.col + j.colSpan <= t.colsNum + 1
  <2>1. j.row + j.rowSpan - 1 <= t.rowsNum /\ j.col + j.colSpan - 1 <= t.colsNum
    BY <1>17
  <2>2. /\ j.row \in Int /\ j.rowSpan \in Int /\ t.rowsNum \in Int
        /\ j.col \in Int /\ j.colSpan \in Int /\ t.colsNum \in Int
    BY <1>1, <1>4, <1>10, <1>15
  <2> QED BY <2>1, <2>2
<1>19. j.row \in 1..r /\ j.col \in 1..c /\ r < j.row + j.rowSpan /\ c < j.col + j.colSpan
  BY <1>6, <1>8, <1>10, <1>13, <1>15
<1>20. CoversAt(t, j, r, c)
  BY <1>6, <1>7, <1>8, <1>9, <1>10, <1>14, <1>18, <1>19 DEF CoversAt
<1> QED BY <1>20 DEF j

\* and of the cell at a place.
LEMMA TiledPlace ==
  ASSUME NEW t, Tiled(t), NEW r \in 1..t.rowsNum, NEW i \in 1..Len(t.rows[r])
  PROVE  /\ PlacedAt(t, InfoOf(t, <<r, i>>), r, i)
         /\ \A x \in 1..t.rowsNum, y \in 1..t.colsNum :
              t.index[<<x, y>>].row = r /\ t.index[<<x, y>>].cell = i => t.index[<<x, y>>] = InfoOf(t, <<r, i>>)
<1> DEFINE infos == {t.index[pos] : pos \in DOMAIN t.index}
           info == InfoOf(t, <<r, i>>)
<1>1. /\ t.rows \in Seq(Seq(Cell)) /\ t.rowsNum = Len(t.rows) /\ t.colsNum \in Nat
      /\ DOMAIN t.index = (1..t.rowsNum) \X (1..t.colsNum)
      /\ {<<a.row, a.cell>> : a \in infos} = Places(t.rows)
      /\ \A a \in infos : a.col \in 1..t.colsNum /\ a = Info(t.rows, a.row, a.cell, a.col)
      /\ \A a, b \in infos : a.row = b.row /\ a.cell <= b.cell => a.col <= b.col
  BY DEF Tiled
<1>2. <<r, i>> \in Places(t.rows)
  BY <1>1, PlacesAre
<1>3. info = CHOOSE a \in infos : a.row = <<r, i>>[1] /\ a.cell = <<r, i>>[2]
  BY DEF InfoOf, InfoIn
<1> HIDE DEF infos, info
<1>4. PICK a \in infos : <<a.row, a.cell>> = <<r, i>>
  BY <1>1, <1>2
<1>5. info \in infos /\ info.row = r /\ info.cell = i
  BY <1>3, <1>4
<1>6. info.col \in 1..t.colsNum /\ info = Info(t.rows, r, i, info.col)
  BY <1>1, <1>5
<1>7. PICK x \in 1..t.rowsNum, y \in 1..t.colsNum : info = t.index[<<x, y>>]
  <2>1. PICK pos \in DOMAIN t.index : info = t.index[pos]
    BY <1>5 DEF infos
  <2>2. PICK x \in 1..t.rowsNum, y \in 1..t.colsNum : pos = <<x, y>>
    BY <1>1
  <2> QED BY <2>1, <2>2
<1>8. t.index[<<r, info.col>>] = info
  <2>1. /\ info.row \in 1..x /\ info.rowSpan \in Nat \ {0} /\ info.colSpan \in Nat \ {0}
        /\ \A u \in info.row..(info.row + info.rowSpan - 1), w \in info.col..(info.col + info.colSpan - 1) :
             t.index[<<u, w>>] = info
    <3>1. CoversAt(t, info, x, y)
      BY <1>7, TiledAt
    <3> QED BY <3>1 DEF CoversAt
  <2>2. /\ info.row \in info.row..(info.row + info.rowSpan - 1)
        /\ info.col \in info.col..(info.col + info.colSpan - 1)
    BY <2>1, <1>6
  <2> QED BY <2>1, <2>2, <1>5
<1>9. ASSUME NEW u \in 1..t.rowsNum, NEW w \in 1..t.colsNum,
             t.index[<<u, w>>].row = r, t.index[<<u, w>>].cell = i
      PROVE  t.index[<<u, w>>] = info
  <2> DEFINE j == t.index[<<u, w>>]
  <2>1. j \in infos
    BY <1>1 DEF infos
  <2> HIDE DEF j
  <2>2. j.row = r /\ j.cell = i
    BY <1>9 DEF j
  <2>3. j.col \in Nat /\ info.col \in Nat /\ i \in Nat
    BY <1>1, <1>6, <2>1
  <2>4. j.col <= info.col /\ info.col <= j.col
    <3>1. j.row = info.row /\ j.cell = info.cell /\ j.cell <= info.cell /\ info.cell <= j.cell
      BY <1>5, <2>2, <2>3
    <3>2. \A a2, b2 \in infos : a2.row = b2.row /\ a2.cell <= b2.cell => a2.col <= b2.col
      BY <1>1
    <3> QED BY <3>1, <3>2, <1>5, <2>1
  <2>5. j = Info(t.rows, r, i, j.col)
    BY <1>1, <2>1, <2>2
  <2>6. j.col = info.col
    BY <2>3, <2>4
  <2> QED BY <2>5, <2>6, <1>6 DEF j
<1>10. PlacedAt(t, info, r, i)
  BY <1>5, <1>6, <1>8 DEF PlacedAt
<1> QED BY <1>9, <1>10 DEF info

\* The index of a tiled table numbers its cells.
LEMMA TiledNumbered ==
  ASSUME NEW t, Tiled(t), t.rowsNum > 0
  PROVE  Numbered(t.rows, t.colsNum, {}, IndexOf(t), ColumnsOf(t))
<1> DEFINE R == t.rowsNum
           C == t.colsNum
           J == IndexOf(t)
           K == ColumnsOf(t)
           rows == t.rows
<1>1. /\ rows \in Seq(Seq(Cell)) /\ R = Len(rows) /\ C \in Nat
      /\ DOMAIN t.index = (1..R) \X (1..C)
      /\ \A a, b \in {t.index[pos] : pos \in DOMAIN t.index} : a.row = b.row /\ a.cell <= b.cell => a.col <= b.col
  BY DEF Tiled
<1>2. R \in Nat \ {0}
  BY <1>1, RowsTyped
<1>3. J = [pos \in ((1..R) \ {}) \X (1..C) |-> J[pos]]
  BY <1>1 DEF IndexOf
<1>4. \A r \in 1..R, c \in 1..C : J[<<r, c>>] = t.index[<<r, c>>]
  BY <1>1 DEF IndexOf
<1>5. \A r \in 1..R : \A i \in 1..Len(rows[r]) : K[r][i] = InfoOf(t, <<r, i>>).col
  BY DEF ColumnsOf
<1>6. ASSUME NEW r \in 1..R, NEW c \in 1..C
      PROVE  Sits(rows, C, {}, J, K, r, c)
  <2> DEFINE j == t.index[<<r, c>>]
  <2>1. /\ j.row \in 1..r /\ j.col \in 1..c
        /\ j.row \in 1..R /\ j.cell \in 1..Len(rows[j.row])
        /\ j = Info(rows, j.row, j.cell, j.col)
        /\ j.rowSpan \in Nat \ {0} /\ j.colSpan \in Nat \ {0}
        /\ r < j.row + j.rowSpan /\ j.row + j.rowSpan <= R + 1
        /\ c < j.col + j.colSpan /\ j.col + j.colSpan <= C + 1
        /\ \A x \in j.row..(j.row + j.rowSpan - 1), y \in j.col..(j.col + j.colSpan - 1) :
              x \in 1..R /\ y \in 1..C /\ t.index[<<x, y>>] = j
    <3>1. CoversAt(t, t.index[<<r, c>>], r, c)
      BY TiledAt
    <3> QED BY <3>1 DEF CoversAt
  <2>2. J[<<r, c>>] = j
    BY <1>4
  <2>3. InfoOf(t, <<j.row, j.cell>>) = j
    <3> DEFINE a == j.row
               b == j.cell
    <3>1. a \in 1..t.rowsNum /\ b \in 1..Len(t.rows[a])
      BY <2>1
    <3>2. j.row = a /\ j.cell = b
      OBVIOUS
    <3> HIDE DEF a, b
    <3>3. j = InfoOf(t, <<a, b>>)
      <4>1. \A x \in 1..t.rowsNum, y \in 1..t.colsNum :
               t.index[<<x, y>>].row = a /\ t.index[<<x, y>>].cell = b => t.index[<<x, y>>] = InfoOf(t, <<a, b>>)
        BY <3>1, TiledPlace
      <4> QED BY <4>1, <3>2
    <3> QED BY <3>3 DEF a, b
  <2>4. K[j.row][j.cell] = j.col
    BY <2>1, <2>3, <1>5
  <2> HIDE DEF j, J, K, rows, R, C
  <2>5. \A x \in j.row..(j.row + j.rowSpan - 1), y \in j.col..(j.col + j.colSpan - 1) : J[<<x, y>>] = j
    <3> SUFFICES ASSUME NEW x \in j.row..(j.row + j.rowSpan - 1), NEW y \in j.col..(j.col + j.colSpan - 1)
                 PROVE  J[<<x, y>>] = j
      OBVIOUS
    <3>1. x \in 1..R /\ y \in 1..C /\ t.index[<<x, y>>] = j
      BY <2>1
    <3> QED BY <3>1, <1>4
  <2>6. R = Len(rows)
    BY <1>1
  <2> QED BY <2>1, <2>2, <2>4, <2>5, <2>6 DEF Sits
<1>7. ASSUME NEW r \in 1..R
      PROVE  K[r] \in [1..Len(rows[r]) -> 1..C] /\ Rising(K[r])
  <2>1. K[r] = [i \in 1..Len(rows[r]) |-> InfoOf(t, <<r, i>>).col]
    BY DEF ColumnsOf
  <2>2. \A i \in 1..Len(rows[r]) : LET info == InfoOf(t, <<r, i>>)
          IN  /\ info.col \in 1..C /\ info.row = r /\ info.cell = i
              /\ info \in {t.index[pos] : pos \in DOMAIN t.index}
              /\ t.index[<<r, info.col>>] = info
    <3> SUFFICES ASSUME NEW i \in 1..Len(rows[r])
                 PROVE LET info == InfoOf(t, <<r, i>>)
                       IN  /\ info.col \in 1..C /\ info.row = r /\ info.cell = i
                           /\ info \in {t.index[pos] : pos \in DOMAIN t.index}
                           /\ t.index[<<r, info.col>>] = info
      OBVIOUS
    <3>1. /\ InfoOf(t, <<r, i>>).col \in 1..C
          /\ InfoOf(t, <<r, i>>).row = r /\ InfoOf(t, <<r, i>>).cell = i
          /\ t.index[<<r, InfoOf(t, <<r, i>>).col>>] = InfoOf(t, <<r, i>>)
      <4>1. PlacedAt(t, InfoOf(t, <<r, i>>), r, i)
        BY TiledPlace
      <4> QED BY <4>1 DEF PlacedAt
    <3>2. <<r, InfoOf(t, <<r, i>>).col>> \in DOMAIN t.index
      BY <3>1, <1>1
    <3> QED BY <3>1, <3>2
  <2>3. K[r] \in [1..Len(rows[r]) -> 1..C]
    BY <2>1, <2>2
  <2>4. ASSUME NEW i \in 1..Len(rows[r]), NEW k \in 1..Len(rows[r]), i < k
        PROVE  K[r][i] < K[r][k]
    <3> DEFINE a == InfoOf(t, <<r, i>>)
               b == InfoOf(t, <<r, k>>)
    <3>1. /\ a.col \in 1..C /\ a.row = r /\ a.cell = i /\ t.index[<<r, a.col>>] = a
          /\ a \in {t.index[pos] : pos \in DOMAIN t.index}
      BY <2>2
    <3>2. /\ b.col \in 1..C /\ b.row = r /\ b.cell = k /\ t.index[<<r, b.col>>] = b
          /\ b \in {t.index[pos] : pos \in DOMAIN t.index}
      BY <2>2
    <3>3. K[r][i] = a.col /\ K[r][k] = b.col
      BY <1>5
    <3> HIDE DEF a, b, K
    <3>4. i <= k /\ i # k
      BY <2>4
    <3>5. a.col <= b.col
      BY <3>1, <3>2, <3>4, <1>1
    <3>6. a.col # b.col
      BY <3>1, <3>2, <3>4
    <3>7. a.col < b.col
      BY <3>1, <3>2, <3>5, <3>6
    <3> QED BY <3>3, <3>7
  <2> QED BY <2>3, <2>4 DEF Rising
<1>8. ASSUME NEW r \in 1..R, NEW i \in 1..Len(rows[r])
      PROVE  J[<<r, K[r][i]>>] = Info(rows, r, i, K[r][i])
  <2>1. PlacedAt(t, InfoOf(t, <<r, i>>), r, i)
    BY TiledPlace
  <2>2. K[r][i] = InfoOf(t, <<r, i>>).col /\ K[r][i] \in 1..C
    BY <2>1, <1>5 DEF PlacedAt
  <2> HIDE DEF K
  <2>3. J[<<r, K[r][i]>>] = t.index[<<r, K[r][i]>>]
    BY <1>4, <2>2
  <2> QED BY <2>1, <2>2, <2>3 DEF PlacedAt
<1> HIDE DEF R, C, J, K, rows
<1>9. Numbered(rows, C, {}, J, K)
  BY <1>1, <1>2, <1>3, <1>6, <1>7, <1>8 DEF Numbered
<1> QED BY <1>9 DEF R, C, J, K, rows

\* Where the cell that covers a position sits.
LEMMA SitsAt ==
  ASSUME NEW rows, NEW C, NEW B, NEW J, NEW K, Numbered(rows, C, B, J, K),
         NEW r \in (1..Len(rows)) \ B, NEW c \in 1..C
  PROVE  Sits(rows, C, B, J, K, r, c)
BY DEF Numbered

\* A numbered index without bare rows is a tiled one.
LEMMA NumberedTiled ==
  ASSUME NEW t, NEW K, Numbered(t.rows, t.colsNum, {}, t.index, K), t.rowsNum = Len(t.rows)
  PROVE  Tiled(t)
<1> DEFINE J == t.index
           R == t.rowsNum
           C == t.colsNum
           rows == t.rows
           infos == {J[pos] : pos \in DOMAIN J}
<1>1. /\ rows \in Seq(Seq(Cell)) /\ R \in Nat \ {0} /\ C \in Nat /\ R = Len(rows)
      /\ \A r \in 1..R : K[r] \in [1..Len(rows[r]) -> 1..C] /\ Rising(K[r])
      /\ \A r \in 1..R : \A i \in 1..Len(rows[r]) : J[<<r, K[r][i]>>] = Info(rows, r, i, K[r][i])
  BY DEF Numbered
<1>2. DOMAIN J = (1..R) \X (1..C)
  BY DEF Numbered
<1> HIDE DEF J, rows, R, C
<1>3. \A r \in 1..R, c \in 1..C : Sits(rows, C, {}, J, K, r, c)
  BY SitsAt, <1>1 DEF J, rows, C, R
<1>4. \A pos \in DOMAIN J : \E r \in 1..R, c \in 1..C : pos = <<r, c>>
  BY <1>2
<1> HIDE DEF infos
<1>5. ASSUME NEW a \in infos
      PROVE  \E r \in 1..R, c \in 1..C : a = J[<<r, c>>] /\ Sits(rows, C, {}, J, K, r, c)
  BY <1>3, <1>4 DEF infos
<1>6. ASSUME NEW a \in infos
      PROVE  /\ a.row \in 1..R /\ a.col \in 1..C /\ a.cell \in 1..Len(rows[a.row])
             /\ a = Info(rows, a.row, a.cell, a.col) /\ K[a.row][a.cell] = a.col
             /\ \A pos \in Area(a) : pos \in DOMAIN J /\ J[pos] = a
  <2>1. PICK r \in 1..R, c \in 1..C : a = J[<<r, c>>] /\ Sits(rows, C, {}, J, K, r, c)
    BY <1>5
  <2>2. /\ a.row \in 1..r /\ a.cell \in 1..Len(rows[a.row]) /\ a.col \in 1..c
        /\ a = Info(rows, a.row, a.cell, a.col) /\ K[a.row][a.cell] = a.col
        /\ a.rowSpan \in Nat \ {0} /\ a.colSpan \in Nat \ {0}
        /\ a.row + a.rowSpan <= R + 1 /\ a.col + a.colSpan <= C + 1
        /\ \A x \in a.row..(a.row + a.rowSpan - 1), y \in a.col..(a.col + a.colSpan - 1) : J[<<x, y>>] = a
    BY <2>1, <1>1 DEF Sits
  <2>3. a.row \in 1..R /\ a.col \in 1..C
    BY <2>2, <1>1
  <2>4. ASSUME NEW pos \in Area(a)
        PROVE  pos \in DOMAIN J /\ J[pos] = a
    <3>1. PICK x \in a.row..(a.row + a.rowSpan - 1), y \in a.col..(a.col + a.colSpan - 1) : pos = <<x, y>>
      BY DEF Area
    <3>2. /\ 1 <= a.row /\ a.row + a.rowSpan <= R + 1 /\ R \in Int /\ a.row \in Int /\ a.rowSpan \in Int
          /\ 1 <= a.col /\ a.col + a.colSpan <= C + 1 /\ C \in Int /\ a.col \in Int /\ a.colSpan \in Int
      <4>1. /\ a.row + a.rowSpan <= R + 1 /\ a.rowSpan \in Nat
            /\ a.col + a.colSpan <= C + 1 /\ a.colSpan \in Nat
        BY <2>2
      <4>2. R \in Nat /\ C \in Nat /\ a.row \in 1..R /\ a.col \in 1..C
        BY <2>3, <1>1
      <4> QED BY <4>1, <4>2
    <3>3. x \in 1..R /\ y \in 1..C
      BY <3>2
    <3> QED BY <3>1, <3>3, <2>2, <1>2
  <2> QED BY <2>2, <2>3, <2>4
<1>7. {<<a.row, a.cell>> : a \in infos} = Places(rows)
  <2>1. ASSUME NEW a \in infos PROVE <<a.row, a.cell>> \in Places(rows)
    BY <1>1, <1>6, PlacesAre
  <2>2. ASSUME NEW p \in Places(rows) PROVE \E a \in infos : p = <<a.row, a.cell>>
    <3>6. PICK r \in 1..R : \E i \in 1..Len(rows[r]) : p = <<r, i>>
      BY <1>1, PlacesAre
    <3>1. PICK i \in 1..Len(rows[r]) : p = <<r, i>>
      BY <3>6
    <3>2. K[r][i] \in 1..C
      BY <1>1
    <3>3. <<r, K[r][i]>> \in DOMAIN J
      BY <1>2, <3>2
    <3>4. J[<<r, K[r][i]>>] \in infos
      BY <3>3 DEF infos
    <3>5. J[<<r, K[r][i]>>].row = r /\ J[<<r, K[r][i]>>].cell = i
      <4>1. J[<<r, K[r][i]>>] = Info(rows, r, i, K[r][i])
        BY <1>1
      <4> QED BY <4>1 DEF Info
    <3> QED BY <3>1, <3>4, <3>5
  <2> QED BY <2>1, <2>2
<1>8. ASSUME NEW pos \in DOMAIN J
      PROVE  pos \in Area(J[pos])
  <2>1. PICK r \in 1..R, c \in 1..C : pos = <<r, c>>
    BY <1>4
  <2> DEFINE j == J[<<r, c>>]
  <2>2. /\ j.row \in 1..r /\ j.col \in 1..c
        /\ j.rowSpan \in Nat \ {0} /\ j.colSpan \in Nat \ {0}
        /\ r < j.row + j.rowSpan /\ c < j.col + j.colSpan
    BY <1>3 DEF Sits
  <2> HIDE DEF j
  <2>3. r \in j.row..(j.row + j.rowSpan - 1) /\ c \in j.col..(j.col + j.colSpan - 1)
    BY <2>2
  <2>4. <<r, c>> \in Area(j)
    BY <2>3 DEF Area
  <2> QED BY <2>1, <2>4 DEF j
<1>9. ASSUME NEW a \in infos, NEW b \in infos, a.row = b.row, a.cell <= b.cell
      PROVE  a.col <= b.col
  <2> DEFINE u == a.row
             k == K[u]
  <2>1. /\ u \in 1..R /\ a.cell \in 1..Len(rows[u]) /\ b.cell \in 1..Len(rows[u])
        /\ k[a.cell] = a.col /\ k[b.cell] = b.col
    BY <1>6, <1>9
  <2>2. Len(rows[u]) \in Nat /\ k \in [1..Len(rows[u]) -> Int] /\ Rising(k)
    BY <1>1, <2>1, RowsTyped
  <2> HIDE DEF u, k
  <2>3. k[b.cell] - k[a.cell] >= b.cell - a.cell
    BY <2>1, <2>2, <1>9, RisingApart
  <2>4. k[b.cell] \in Int /\ k[a.cell] \in Int /\ b.cell \in Int /\ a.cell \in Int
    BY <2>1, <2>2
  <2> QED BY <2>1, <2>3, <2>4, <1>9
<1>10. \A a \in infos : a.col \in 1..C /\ a = Info(rows, a.row, a.cell, a.col)
  BY <1>6
<1> QED BY <1>1, <1>2, <1>6, <1>7, <1>8, <1>9, <1>10 DEF Tiled, J, R, C, rows, infos

\* The layout of a tiled table.
LEMMA TiledLaid ==
  ASSUME NEW t, Tiled(t), t.rowsNum > 0
  PROVE  /\ Laid(GridOf(t), t.rowsNum, t.colsNum, {})
         /\ \A r \in 1..t.rowsNum : Line(t.rows[r], ColumnsOf(t)[r], Starts(GridOf(t), r, t.colsNum),
                                         CellsOf(GridOf(t), r, t.colsNum))
<1> DEFINE R == t.rowsNum
           C == t.colsNum
           G == GridOf(t)
           K == ColumnsOf(t)
           rows == t.rows
           J == IndexOf(t)
<1>1. /\ rows \in Seq(Seq(Cell)) /\ R = Len(rows) /\ C \in Nat
      /\ DOMAIN t.index = (1..R) \X (1..C)
  BY DEF Tiled
<1>2. R \in Nat \ {0}
  BY <1>1, RowsTyped
<1>3. Numbered(rows, C, {}, J, K)
  BY TiledNumbered
<1>4. \A r \in 1..R, c \in 1..C :
        G[r][c] = [row |-> t.index[<<r, c>>].row, col |-> t.index[<<r, c>>].col, cell |-> CellOf(t, t.index[<<r, c>>])]
  BY DEF GridOf
<1>5. \A r \in 1..R, c \in 1..C : CoversAt(t, t.index[<<r, c>>], r, c)
  BY TiledAt
<1> HIDE DEF R, C, G, K, rows, J
<1>6. ASSUME NEW r \in (1..R) \ {}, NEW c \in 1..C
      PROVE  Fits(G, R, C, {}, r, c)
  <2> DEFINE g == G[r][c]
             j == t.index[<<r, c>>]
  <2>1. CoversAt(t, j, r, c)
    BY <1>5
  <2>2. g = [row |-> j.row, col |-> j.col, cell |-> CellOf(t, j)]
    BY <1>4
  <2> HIDE DEF j, g
  <2>3. g.row = j.row /\ g.col = j.col /\ g.cell = CellOf(t, j) /\ g.cell.rowSpan = j.rowSpan /\ g.cell.colSpan = j.colSpan
    BY <2>1, <2>2 DEF CoversAt
  <2>4. /\ j.row \in 1..r /\ j.col \in 1..c
        /\ j.rowSpan \in Nat \ {0} /\ j.colSpan \in Nat \ {0} /\ CellOf(t, j) \in Cell
        /\ r < j.row + j.rowSpan /\ j.row + j.rowSpan <= R + 1
        /\ c < j.col + j.colSpan /\ j.col + j.colSpan <= C + 1
        /\ \A x \in j.row..(j.row + j.rowSpan - 1), y \in j.col..(j.col + j.colSpan - 1) :
              x \in 1..R /\ y \in 1..C /\ t.index[<<x, y>>] = j
    BY <2>1 DEF CoversAt, R, C
  <2>5. ASSUME NEW x \in g.row..(g.row + g.cell.rowSpan - 1), NEW y \in g.col..(g.col + g.cell.colSpan - 1)
        PROVE  G[x][y] = g
    <3>1. x \in 1..R /\ y \in 1..C /\ t.index[<<x, y>>] = j
      BY <2>3, <2>4
    <3> QED BY <3>1, <1>4, <2>2
  <2>6. g \in [row : Nat, col : Nat, cell : Cell]
    BY <2>2, <2>4
  <2>7. /\ g.row \in 1..r /\ r < g.row + g.cell.rowSpan /\ g.row + g.cell.rowSpan <= R + 1
        /\ g.col \in 1..c /\ c < g.col + g.cell.colSpan /\ g.col + g.cell.colSpan <= C + 1
    BY <2>3, <2>4
  <2> QED BY <2>5, <2>6, <2>7 DEF Fits, g
<1>7. Laid(G, R, C, {})
  BY <1>1, <1>2, <1>6 DEF Laid
<1>8. ASSUME NEW r \in 1..R
      PROVE  Line(rows[r], K[r], Starts(G, r, C), CellsOf(G, r, C))
  <2> DEFINE X == Starts(G, r, C)
             f == CellsOf(G, r, C)
             k == K[r]
             n == Len(rows[r])
  <2>1. /\ k \in [1..n -> 1..C] /\ Rising(k)
        /\ \A i \in 1..n : J[<<r, k[i]>>] = Info(rows, r, i, k[i])
    BY <1>1, <1>3 DEF Numbered
  <2>2. rows[r] \in Seq(Cell) /\ n \in Nat
    BY <1>1, RowsTyped
  <2>3. \A x \in 1..C : J[<<r, x>>] = t.index[<<r, x>>]
    BY <1>1 DEF J, IndexOf
  <2> HIDE DEF k, n
  <2>4. ASSUME NEW i \in 1..n
        PROVE  k[i] \in X /\ rows[r][i] = f[k[i]]
    <3>1. k[i] \in 1..C /\ t.index[<<r, k[i]>>] = Info(rows, r, i, k[i])
      BY <2>1, <2>3
    <3>2. /\ t.index[<<r, k[i]>>].row = r /\ t.index[<<r, k[i]>>].col = k[i]
          /\ CellOf(t, t.index[<<r, k[i]>>]) = rows[r][i]
      BY <3>1 DEF Info, CellOf, rows
    <3>3. G[r][k[i]].row = r /\ G[r][k[i]].col = k[i] /\ G[r][k[i]].cell = rows[r][i]
      <4>1. G[r][k[i]] = [row |-> t.index[<<r, k[i]>>].row, col |-> t.index[<<r, k[i]>>].col,
                          cell |-> CellOf(t, t.index[<<r, k[i]>>])]
        BY <3>1, <1>4
      <4> QED BY <4>1, <3>2
    <3> QED BY <3>1, <3>3 DEF Starts, CellsOf
  <2>5. k \in [1..n -> X]
    BY <2>1, <2>4
  <2>6. ASSUME NEW x \in X
        PROVE  \E i \in 1..n : k[i] = x
    <3>1. x \in 1..C /\ G[r][x].row = r /\ G[r][x].col = x
      BY DEF Starts
    <3>2. t.index[<<r, x>>].row = r /\ t.index[<<r, x>>].col = x
      <4>1. G[r][x] = [row |-> t.index[<<r, x>>].row, col |-> t.index[<<r, x>>].col,
                       cell |-> CellOf(t, t.index[<<r, x>>])]
        BY <3>1, <1>4
      <4> QED BY <4>1, <3>1
    <3>3. Sits(rows, C, {}, J, K, r, x)
      BY <1>1, <1>3, <3>1, SitsAt
    <3>4. J[<<r, x>>].cell \in 1..n /\ k[J[<<r, x>>].cell] = x
      BY <3>1, <3>2, <3>3, <2>3 DEF Sits, k, n
    <3> QED BY <3>4
  <2> HIDE DEF X, f
  <2> QED BY <2>1, <2>2, <2>4, <2>5, <2>6 DEF Line, X, f, k, n
<1> QED BY <1>7, <1>8 DEF R, C, G, K, rows

-----------------------------------------------------------------------------
(* FillIndex finds the numbered index again.                               *)

\* What a numbering says at a position,
LEMMA NumberedAt ==
  ASSUME NEW rows, NEW C, NEW B, NEW J, NEW K, Numbered(rows, C, B, J, K),
         NEW pos \in DOMAIN J
  PROVE  /\ \E r \in (1..Len(rows)) \ B, c \in 1..C : pos = <<r, c>> /\ Sits(rows, C, B, J, K, r, c)
         /\ pos \in Area(J[pos])
         /\ \A p \in Area(J[pos]) : p \in DOMAIN J /\ J[p] = J[pos]
         /\ J[pos].row \in (1..Len(rows)) \ B /\ J[pos].cell \in 1..Len(rows[J[pos].row])
         /\ J[pos].col \in 1..C /\ K[J[pos].row][J[pos].cell] = J[pos].col
         /\ J[pos] = Info(rows, J[pos].row, J[pos].cell, J[pos].col)
<1> DEFINE R == Len(rows)
           j == J[pos]
<1>1. R \in Nat \ {0} /\ C \in Nat /\ B \in SUBSET (2..R) /\ DOMAIN J = ((1..R) \ B) \X (1..C)
  BY DEF Numbered
<1>2. PICK r \in (1..R) \ B, c \in 1..C : pos = <<r, c>>
  BY <1>1
<1>3. Sits(rows, C, B, J, K, r, c)
  BY SitsAt
<1> HIDE DEF j
<1>4. j = J[<<r, c>>]
  BY <1>2 DEF j
<1>5. /\ j.row \in 1..r /\ j.cell \in 1..Len(rows[j.row]) /\ j.col \in 1..c
      /\ j = Info(rows, j.row, j.cell, j.col) /\ K[j.row][j.cell] = j.col
      /\ j.rowSpan \in Nat \ {0} /\ j.colSpan \in Nat \ {0}
      /\ r < j.row + j.rowSpan /\ j.row + j.rowSpan <= R + 1
      /\ c < j.col + j.colSpan /\ j.col + j.colSpan <= C + 1
      /\ \A x \in j.row..(j.row + j.rowSpan - 1), y \in j.col..(j.col + j.colSpan - 1) :
            x \notin B /\ J[<<x, y>>] = j
  BY <1>3, <1>4 DEF Sits
<1> HIDE DEF R
<1>6. /\ j.row \in Int /\ j.col \in Int /\ j.rowSpan \in Int /\ j.colSpan \in Int /\ R \in Int /\ C \in Int
      /\ 1 <= j.row /\ j.row <= r /\ r < j.row + j.rowSpan /\ j.row + j.rowSpan <= R + 1
      /\ 1 <= j.col /\ j.col <= c /\ c < j.col + j.colSpan /\ j.col + j.colSpan <= C + 1
      /\ 1 <= j.rowSpan /\ 1 <= j.colSpan
  <2>1. R \in Int /\ C \in Int /\ r \in Int /\ c \in Int
    BY <1>1
  <2>2. j.row \in Int /\ 1 <= j.row /\ j.row <= r
    BY <1>5, <2>1
  <2>3. j.col \in Int /\ 1 <= j.col /\ j.col <= c
    BY <1>5, <2>1
  <2>4. j.rowSpan \in Int /\ 1 <= j.rowSpan
    BY <1>5
  <2>5. j.colSpan \in Int /\ 1 <= j.colSpan
    BY <1>5
  <2> QED BY <1>5, <2>1, <2>2, <2>3, <2>4, <2>5
<1>7. r \in j.row..(j.row + j.rowSpan - 1) /\ c \in j.col..(j.col + j.colSpan - 1)
  BY <1>6
<1>8. pos \in Area(j)
  BY <1>2, <1>7 DEF Area
<1>9. ASSUME NEW p \in Area(j)
      PROVE  p \in DOMAIN J /\ J[p] = j
  <2>1. PICK x \in j.row..(j.row + j.rowSpan - 1), y \in j.col..(j.col + j.colSpan - 1) : p = <<x, y>>
    BY DEF Area
  <2>2. x \in 1..R /\ y \in 1..C
    BY <1>6
  <2>3. x \notin B /\ J[<<x, y>>] = j
    BY <1>5
  <2> QED BY <2>1, <2>2, <2>3, <1>1
<1>10. j.row \in 1..R /\ j.col \in 1..C /\ j.row \in j.row..(j.row + j.rowSpan - 1) /\ j.col \in j.col..(j.col + j.colSpan - 1)
  BY <1>6
<1>11. j.row \notin B
  BY <1>5, <1>10
<1>12. \E x \in (1..Len(rows)) \ B, y \in 1..C : pos = <<x, y>> /\ Sits(rows, C, B, J, K, x, y)
  BY <1>2, <1>3 DEF R
<1>13. j.row \in (1..R) \ B /\ j.col \in 1..C /\ K[j.row][j.cell] = j.col /\ j = Info(rows, j.row, j.cell, j.col)
  BY <1>5, <1>10, <1>11
<1>14. j.cell \in 1..Len(rows[j.row])
  BY <1>5
<1> QED BY <1>8, <1>9, <1>12, <1>13, <1>14 DEF j, R

\* and of the cell at a place.
LEMMA NumberedCell ==
  ASSUME NEW rows, NEW C, NEW B, NEW J, NEW K, Numbered(rows, C, B, J, K),
         NEW r \in 1..Len(rows), NEW i \in 1..Len(rows[r])
  PROVE  /\ r \notin B /\ K[r][i] \in 1..C /\ K[r][i] >= i
         /\ J[<<r, K[r][i]>>] = Info(rows, r, i, K[r][i]) /\ <<r, K[r][i]>> \in DOMAIN J
         /\ \A pos \in DOMAIN J : J[pos].row = r /\ J[pos].cell = i => J[pos] = Info(rows, r, i, K[r][i])
         /\ \A k \in 1..Len(rows[r]) : K[r][k] < K[r][i] <=> k < i
<1> DEFINE n == Len(rows[r])
           s == K[r]
<1>1. /\ rows \in Seq(Seq(Cell)) /\ DOMAIN J = ((1..Len(rows)) \ B) \X (1..C) /\ C \in Nat
      /\ s \in [1..n -> 1..C] /\ Rising(s) /\ r \notin B /\ J[<<r, s[i]>>] = Info(rows, r, i, s[i])
  <2>1. DOMAIN J = ((1..Len(rows)) \ B) \X (1..C)
    BY DEF Numbered
  <2>2. rows \in Seq(Seq(Cell)) /\ C \in Nat
    BY DEF Numbered
  <2>3. K[r] \in [1..Len(rows[r]) -> 1..C] /\ Rising(K[r])
    BY DEF Numbered
  <2>4. r \notin B /\ J[<<r, K[r][i]>>] = Info(rows, r, i, K[r][i])
    BY DEF Numbered
  <2> QED BY <2>1, <2>2, <2>3, <2>4
<1>2. n \in Nat
  BY <1>1, RowsTyped
<1> HIDE DEF n, s
<1>3. s \in [1..n -> Int] /\ i \in 1..n /\ 1 \in 1..n /\ 1 <= i
  BY <1>1, <1>2 DEF n
<1>4. s[i] - s[1] >= i - 1
  BY <1>1, <1>2, <1>3, RisingApart
<1>5. s[i] \in 1..C /\ s[1] \in 1..C
  BY <1>1, <1>3
<1>6. s[i] >= i
  BY <1>3, <1>4, <1>5
<1>7. <<r, s[i]>> \in DOMAIN J
  BY <1>1, <1>5
<1>8. ASSUME NEW pos \in DOMAIN J, J[pos].row = r, J[pos].cell = i
      PROVE  J[pos] = Info(rows, r, i, s[i])
  BY <1>8, NumberedAt DEF s
<1>9. \A k \in 1..n : s[k] < s[i] <=> k < i
  BY <1>1, <1>2, <1>3, RisingOneToOne
<1> QED BY <1>1, <1>5, <1>6, <1>7, <1>8, <1>9 DEF s, n

(* The index of the rows before r and of the first i cells of row r.       *)
Upto(J, r, i) ==
    [pos \in {p \in DOMAIN J : J[p].row < r \/ (J[p].row = r /\ J[p].cell <= i)} |-> J[pos]]

\* update() places the next cell as the numbering does.
LEMMA PlaceStep ==
  ASSUME NEW rows, NEW C, NEW B, NEW J, NEW K, Numbered(rows, C, B, J, K),
         NEW r \in 1..Len(rows), NEW i \in 1..Len(rows[r])
  PROVE  PlaceCell(rows, Upto(J, r, i - 1), r, i) = Upto(J, r, i)
<1> DEFINE k == K[r][i]
           filled == Upto(J, r, i - 1)
           next == {i} \union {pos[2] + 1 : pos \in DOMAIN filled}
           T == {c \in next : c >= i /\ <<r, c>> \notin DOMAIN filled}
           j == Info(rows, r, i, k)
<1>1. /\ rows \in Seq(Seq(Cell)) /\ DOMAIN J = ((1..Len(rows)) \ B) \X (1..C) /\ C \in Nat
  BY DEF Numbered
<1>2. /\ r \notin B /\ k \in 1..C /\ k >= i
      /\ J[<<r, k>>] = j /\ <<r, k>> \in DOMAIN J
      /\ \A pos \in DOMAIN J : J[pos].row = r /\ J[pos].cell = i => J[pos] = j
      /\ \A x \in 1..Len(rows[r]) : K[r][x] < k <=> x < i
  BY NumberedCell
<1>3. i \in Nat \ {0} /\ r \in Nat \ {0} /\ Len(rows[r]) \in Nat
  BY <1>1, RowsTyped
<1>4. j.row = r /\ j.cell = i
  BY DEF Info
<1>5. DOMAIN filled = {p \in DOMAIN J : J[p].row < r \/ (J[p].row = r /\ J[p].cell <= i - 1)}
  BY DEF Upto
<1> HIDE DEF k, j, filled
<1>6. <<r, k>> \notin DOMAIN filled
  BY <1>2, <1>3, <1>4, <1>5
<1>7. ASSUME NEW c \in 1..C, c < k
      PROVE  <<r, c>> \in DOMAIN filled
  <2>1. <<r, c>> \in DOMAIN J
    BY <1>1, <1>2
  <2>2. Sits(rows, C, B, J, K, r, c)
    BY <1>2, SitsAt
  <2> DEFINE o == J[<<r, c>>]
  <2>3. o.row \in 1..r /\ o.cell \in 1..Len(rows[o.row]) /\ o.col \in 1..c /\ K[o.row][o.cell] = o.col
    BY <2>2 DEF Sits
  <2> HIDE DEF o
  <2>4. CASE o.row < r
    BY <2>1, <2>4, <1>5 DEF o
  <2>5. CASE o.row = r
    <3>1. o.cell \in 1..Len(rows[r]) /\ K[r][o.cell] < k
      BY <2>3, <2>5, <1>7, <1>2
    <3>2. o.cell < i
      BY <3>1, <1>2
    <3>3. o.cell <= i - 1
      BY <3>1, <3>2, <1>3
    <3> QED BY <3>3, <2>1, <2>5, <1>5 DEF o
  <2> QED BY <2>3, <2>4, <2>5
<1>8. \A pos \in DOMAIN filled : pos[2] \in 1..C
  BY <1>1, <1>5
<1>9. next \in SUBSET Int
  BY <1>3, <1>8
<1>10. k \in next
  <2>1. CASE k = i
    BY <2>1
  <2>2. CASE k # i
    <3>1. k - 1 \in 1..C /\ k - 1 < k
      <4>1. k \in Int /\ k <= C /\ k >= i /\ C \in Int /\ i >= 1 /\ i \in Int
        BY <1>1, <1>2, <1>3
      <4> QED BY <4>1, <2>2
    <3>2. <<r, k - 1>> \in DOMAIN filled
      BY <3>1, <1>7
    <3>3. <<r, k - 1>>[2] + 1 = k
      <4>1. k \in Int
        BY <1>2
      <4> QED BY <4>1
    <3>4. \E pos \in DOMAIN filled : pos[2] + 1 = k
      BY <3>2, <3>3
    <3> QED BY <3>4
  <2> QED BY <2>1, <2>2
<1> HIDE DEF next
<1>11. k \in T /\ T \in SUBSET Int
  BY <1>2, <1>6, <1>9, <1>10
<1>12. \A c \in T : k <= c
  <2> SUFFICES ASSUME NEW c \in T, ~(k <= c)
               PROVE  FALSE
    OBVIOUS
  <2>1. c \in Int /\ c >= i /\ <<r, c>> \notin DOMAIN filled
    BY <1>9
  <2>2. c \in 1..C /\ c < k
    <3>1. k \in Int /\ k <= C /\ C \in Int /\ i >= 1 /\ i \in Int
      BY <1>1, <1>2, <1>3
    <3> QED BY <2>1, <3>1
  <2> QED BY <2>1, <2>2, <1>7
<1>13. Min(T) = k
  <2> HIDE DEF T
  <2> QED BY <1>11, <1>12, MinIs
<1>14. PlaceCell(rows, filled, r, i) = Covered(filled, j)
  BY <1>13 DEF PlaceCell, next, j
<1>15. j = J[<<r, k>>] /\ <<r, k>> \in DOMAIN J
  BY <1>2
<1>16. \A p \in Area(j) : p \in DOMAIN J /\ J[p] = j
  BY <1>15, NumberedAt
<1>17. \A p \in DOMAIN J : J[p] = j => p \in Area(j)
  BY NumberedAt
<1>18. \A p \in DOMAIN J : /\ J[p].row \in Int /\ J[p].cell \in Int
  <2> TAKE p \in DOMAIN J
  <2>1. J[p].row \in (1..Len(rows)) \ B /\ J[p].cell \in 1..Len(rows[J[p].row])
    BY NumberedAt
  <2> QED BY <2>1
<1>19. Area(j) \union DOMAIN filled = {p \in DOMAIN J : J[p].row < r \/ (J[p].row = r /\ J[p].cell <= i)}
  <2>1. ASSUME NEW p \in Area(j)
        PROVE  p \in DOMAIN J /\ J[p].row = r /\ J[p].cell <= i
    BY <1>16, <1>4, <1>3
  <2>2. ASSUME NEW p \in DOMAIN J, J[p].row = r, J[p].cell <= i, ~(J[p].cell <= i - 1)
        PROVE  p \in Area(j)
    <3>1. J[p].cell = i
      BY <2>2, <1>18, <1>3
    <3> QED BY <3>1, <2>2, <1>2, <1>17
  <2>3. ASSUME NEW p \in DOMAIN filled
        PROVE  p \in DOMAIN J /\ (J[p].row < r \/ (J[p].row = r /\ J[p].cell <= i))
    BY <1>5, <1>18, <1>3
  <2> QED BY <2>1, <2>2, <2>3, <1>5
<1>20. \A p \in Area(j) \union DOMAIN filled : (IF p \in Area(j) THEN j ELSE filled[p]) = J[p]
  <2>1. \A p \in DOMAIN filled : filled[p] = J[p]
    BY DEF filled, Upto
  <2> QED BY <2>1, <1>16
<1>21. Covered(filled, j) = Upto(J, r, i)
  BY <1>19, <1>20 DEF Covered, Upto
<1> QED BY <1>14, <1>21 DEF filled

\* So it does with the cells of a row,
LEMMA FillRowIs ==
  ASSUME NEW rows, NEW C, NEW B, NEW J, NEW K, Numbered(rows, C, B, J, K),
         NEW r \in 1..Len(rows)
  PROVE  FillRow(rows, Upto(J, r, 0), r) = Upto(J, r, Len(rows[r]))
<1> DEFINE n == Len(rows[r])
           F == Upto(J, r, 0)
           Solves(g) == g = [i \in 0..n |-> IF i = 0 THEN F ELSE PlaceCell(rows, g[i - 1], r, i)]
           g0 == [i \in 0..n |-> Upto(J, r, i)]
           fill == CHOOSE g : Solves(g)
<1>1. n \in Nat
  BY RowsTyped DEF Numbered
<1>2. \A i \in 1..n : PlaceCell(rows, Upto(J, r, i - 1), r, i) = Upto(J, r, i)
  BY PlaceStep
<1>3. FillRow(rows, F, r) = fill[n]
  BY DEF FillRow
<1> HIDE DEF n, F
<1>4. Solves(g0)
  <2>1. ASSUME NEW i \in 0..n
        PROVE  g0[i] = IF i = 0 THEN F ELSE PlaceCell(rows, g0[i - 1], r, i)
    <3>1. CASE i = 0
      BY <3>1 DEF F
    <3>2. CASE i # 0
      <4>1. i \in 1..n /\ i - 1 \in 0..n
        BY <3>2, <1>1
      <4>2. g0[i - 1] = Upto(J, r, i - 1)
        BY <4>1
      <4> QED BY <4>1, <4>2, <1>2, <3>2
    <3> QED BY <3>1, <3>2
  <2>2. g0 = [i \in 0..n |-> g0[i]]
    OBVIOUS
  <2> HIDE DEF g0
  <2> QED BY <2>1, <2>2
<1>5. Solves(fill)
  <2> HIDE DEF Solves
  <2> QED BY <1>4
<1> HIDE DEF fill
<1> DEFINE ok == {i \in Nat : i <= n => fill[i] = Upto(J, r, i)}
<1>6. 0 \in ok
  <2>1. fill[0] = F
    BY <1>1, <1>5
  <2> QED BY <2>1 DEF F
<1>7. ASSUME NEW i \in Nat, i \in ok
      PROVE  i + 1 \in ok
  <2> SUFFICES ASSUME i + 1 <= n
               PROVE  fill[i + 1] = Upto(J, r, i + 1)
    OBVIOUS
  <2>1. i + 1 \in 0..n /\ i + 1 # 0 /\ (i + 1) - 1 = i /\ i <= n /\ i + 1 \in 1..n
    BY <1>1
  <2>2. fill[i + 1] = PlaceCell(rows, fill[(i + 1) - 1], r, i + 1)
    BY <2>1, <1>5
  <2>3. fill[(i + 1) - 1] = Upto(J, r, (i + 1) - 1)
    BY <2>1, <1>7
  <2> QED BY <2>1, <2>2, <2>3, <1>2
<1> HIDE DEF ok
<1>8. n \in ok
  BY <1>1, <1>6, <1>7, NatInSet
<1>9. fill[n] = Upto(J, r, n)
  BY <1>1, <1>8 DEF ok
<1> QED BY <1>3, <1>9 DEF n, F

\* and with those of all rows: the index it builds is the numbering.
LEMMA FillIndexIs ==
  ASSUME NEW rows, NEW C, NEW B, NEW J, NEW K, Numbered(rows, C, B, J, K)
  PROVE  FillIndex(rows) = J
<1> DEFINE n == Len(rows)
           Solves(g) == g = [r \in 0..n |-> IF r = 0 THEN <<>> ELSE FillRow(rows, g[r - 1], r)]
           g0 == [r \in 0..n |-> Upto(J, r + 1, 0)]
           fill == CHOOSE g : Solves(g)
<1>1. n \in Nat
  BY DEF Numbered
<1>2. FillIndex(rows) = fill[n]
  BY DEF FillIndex
<1>3. ASSUME NEW pos \in DOMAIN J
      PROVE  /\ J[pos].row \in 1..n /\ J[pos].cell \in 1..Len(rows[J[pos].row])
             /\ Len(rows[J[pos].row]) \in Nat
  <2>1. J[pos].row \in (1..Len(rows)) \ B /\ J[pos].cell \in 1..Len(rows[J[pos].row])
    BY NumberedAt
  <2>2. rows \in Seq(Seq(Cell))
    BY DEF Numbered
  <2> QED BY <2>1, <2>2, RowsTyped
<1>4. Upto(J, 1, 0) = <<>>
  <2>1. {p \in DOMAIN J : J[p].row < 1 \/ (J[p].row = 1 /\ J[p].cell <= 0)} = {}
    BY <1>3
  <2> QED BY <2>1 DEF Upto
<1>5. ASSUME NEW r \in 1..n
      PROVE  FillRow(rows, Upto(J, r, 0), r) = Upto(J, r + 1, 0)
  <2>1. FillRow(rows, Upto(J, r, 0), r) = Upto(J, r, Len(rows[r]))
    BY FillRowIs
  <2>2. \A p \in DOMAIN J : /\ J[p].row < r \/ (J[p].row = r /\ J[p].cell <= Len(rows[r]))
                               <=> J[p].row < r + 1 \/ (J[p].row = r + 1 /\ J[p].cell <= 0)
    <3> TAKE p \in DOMAIN J
    <3>1. /\ J[p].row \in Int /\ r \in Int /\ J[p].cell \in Int /\ J[p].cell >= 1
          /\ J[p].row = r => J[p].cell <= Len(rows[r])
      BY <1>3
    <3> QED BY <3>1
  <2>3. Upto(J, r, Len(rows[r])) = Upto(J, r + 1, 0)
    BY <2>2 DEF Upto
  <2> QED BY <2>1, <2>3
<1>6. Upto(J, n + 1, 0) = J
  <2>1. \A p \in DOMAIN J : J[p].row < n + 1
    BY <1>1, <1>3
  <2>2. {p \in DOMAIN J : J[p].row < n + 1 \/ (J[p].row = n + 1 /\ J[p].cell <= 0)} = DOMAIN J
    BY <2>1
  <2>3. J = [pos \in DOMAIN J |-> J[pos]]
    BY DEF Numbered
  <2> QED BY <2>2, <2>3 DEF Upto
<1> HIDE DEF n
<1>7. Solves(g0)
  <2>1. ASSUME NEW r \in 0..n
        PROVE  g0[r] = IF r = 0 THEN <<>> ELSE FillRow(rows, g0[r - 1], r)
    <3>1. CASE r = 0
      BY <3>1, <1>4
    <3>2. CASE r # 0
      <4>1. r \in 1..n /\ r - 1 \in 0..n /\ (r - 1) + 1 = r
        BY <3>2, <1>1
      <4>2. g0[r - 1] = Upto(J, r, 0)
        BY <4>1
      <4> QED BY <4>1, <4>2, <1>5, <3>2
    <3> QED BY <3>1, <3>2
  <2>2. g0 = [r \in 0..n |-> g0[r]]
    OBVIOUS
  <2> HIDE DEF g0
  <2> QED BY <2>1, <2>2
<1>8. Solves(fill)
  <2> HIDE DEF Solves
  <2> QED BY <1>7
<1> HIDE DEF fill
<1> DEFINE ok == {r \in Nat : r <= n => fill[r] = Upto(J, r + 1, 0)}
<1>9. 0 \in ok
  <2>1. fill[0] = <<>>
    BY <1>1, <1>8
  <2> QED BY <2>1, <1>4
<1>10. ASSUME NEW r \in Nat, r \in ok
       PROVE  r + 1 \in ok
  <2> SUFFICES ASSUME r + 1 <= n
               PROVE  fill[r + 1] = Upto(J, (r + 1) + 1, 0)
    OBVIOUS
  <2>1. r + 1 \in 0..n /\ r + 1 # 0 /\ (r + 1) - 1 = r /\ r <= n /\ r + 1 \in 1..n
    BY <1>1
  <2>2. fill[r + 1] = FillRow(rows, fill[(r + 1) - 1], r + 1)
    BY <2>1, <1>8
  <2>3. fill[(r + 1) - 1] = Upto(J, r + 1, 0)
    BY <2>1, <1>10
  <2> QED BY <2>1, <2>2, <2>3, <1>5
<1> HIDE DEF ok
<1>11. n \in ok
  BY <1>1, <1>9, <1>10, NatInSet
<1>12. fill[n] = Upto(J, n + 1, 0)
  BY <1>1, <1>11 DEF ok
<1> QED BY <1>2, <1>6, <1>12

-----------------------------------------------------------------------------
(* The table is measured right.                                            *)

\* The columns of a row that its own cells cover are as many as
\* OwnColumns counts.
LEMMA OwnColumnsIs ==
  ASSUME NEW rows, NEW C, NEW B, NEW J, NEW K, Numbered(rows, C, B, J, K),
         NEW r \in 1..Len(rows)
  PROVE  OwnColumns(rows[r]) = Cardinality({c \in 1..C : r \notin B /\ J[<<r, c>>].row = r})
<1> DEFINE row == rows[r]
           n == Len(row)
           Own(i) == {c \in 1..C : r \notin B /\ J[<<r, c>>].row = r /\ J[<<r, c>>].cell <= i}
           Solves(g) == g = [i \in 0..n |-> IF i = 0 THEN 0 ELSE g[i - 1] + row[i].colSpan]
           g0 == [i \in 0..n |-> Cardinality(Own(i))]
           sum == CHOOSE g : Solves(g)
<1>1. /\ rows \in Seq(Seq(Cell)) /\ C \in Nat /\ DOMAIN J = ((1..Len(rows)) \ B) \X (1..C)
  BY DEF Numbered
<1>2. row \in Seq(Cell) /\ n \in Nat /\ \A i \in 1..n : row[i] \in Cell
  BY <1>1, RowsTyped
<1>3. OwnColumns(row) = sum[n]
  BY DEF OwnColumns
<1>4. ASSUME NEW c \in 1..C, r \notin B, J[<<r, c>>].row = r
      PROVE  J[<<r, c>>].cell \in 1..n
  <2>1. <<r, c>> \in DOMAIN J
    BY <1>1, <1>4
  <2>2. J[<<r, c>>].cell \in 1..Len(rows[J[<<r, c>>].row])
    BY <2>1, NumberedAt
  <2> QED BY <2>2, <1>4
<1>5. Own(0) = {}
  <2> SUFFICES ASSUME NEW c \in 1..C, r \notin B, J[<<r, c>>].row = r, J[<<r, c>>].cell <= 0
               PROVE  FALSE
    OBVIOUS
  <2>1. J[<<r, c>>].cell \in 1..n
    BY <1>4
  <2> QED BY <2>1, <1>2
<1>6. \A i : IsFiniteSet(Own(i)) /\ Cardinality(Own(i)) \in Nat
  <2> TAKE i
  <2>1. IsFiniteSet(1..C) /\ Own(i) \in SUBSET (1..C)
    BY <1>1, FS_Interval
  <2> HIDE DEF Own
  <2> QED BY <2>1, FS_Subset, FS_CardinalityType
<1>7. ASSUME NEW i \in 1..n
      PROVE  Cardinality(Own(i)) = Cardinality(Own(i - 1)) + row[i].colSpan
  <2> DEFINE k == K[r][i]
             w == row[i].colSpan
             seg == k..(k + w - 1)
             j == Info(rows, r, i, k)
  <2>1. /\ r \notin B /\ k \in 1..C /\ J[<<r, k>>] = j /\ <<r, k>> \in DOMAIN J
        /\ \A pos \in DOMAIN J : J[pos].row = r /\ J[pos].cell = i => J[pos] = j
    BY NumberedCell
  <2>2. w \in Nat \ {0} /\ row[i].rowSpan \in Nat \ {0}
    BY <1>2, CellTyped
  <2>3. j.row = r /\ j.cell = i /\ j.col = k /\ j.colSpan = w /\ j.rowSpan = row[i].rowSpan
    BY DEF Info
  <2> HIDE DEF k, w, j
  <2>4. \A p \in Area(j) : p \in DOMAIN J /\ J[p] = j
    BY <2>1, NumberedAt
  <2>5. \A c : c \in seg <=> <<r, c>> \in Area(j)
    <3>1. r \in j.row..(j.row + j.rowSpan - 1)
      BY <2>2, <2>3
    <3> QED BY <3>1, <2>3 DEF Area
  <2>6. \A c \in seg : c \in 1..C /\ J[<<r, c>>] = j
    <3> TAKE c \in seg
    <3>1. <<r, c>> \in DOMAIN J /\ J[<<r, c>>] = j
      BY <2>4, <2>5
    <3> QED BY <3>1, <1>1
  <2>7. \A c \in 1..C : J[<<r, c>>].row = r /\ J[<<r, c>>].cell = i => c \in seg
    <3> SUFFICES ASSUME NEW c \in 1..C, J[<<r, c>>].row = r /\ J[<<r, c>>].cell = i
                 PROVE  c \in seg
      OBVIOUS
    <3>1. <<r, c>> \in DOMAIN J
      BY <1>1, <2>1
    <3>2. J[<<r, c>>] = j /\ <<r, c>> \in Area(J[<<r, c>>])
      BY <3>1, <2>1, NumberedAt
    <3> QED BY <3>2, <2>5
  <2> HIDE DEF seg
  <2>8. Own(i) = Own(i - 1) \union seg
    <3>1. \A c \in 1..C : J[<<r, c>>].row = r => J[<<r, c>>].cell \in Int
      BY <1>4, <2>1
    <3>2. \A c \in seg : c \in Own(i)
      BY <2>1, <2>3, <2>6
    <3>3. \A c \in Own(i - 1) : c \in Own(i)
      BY <3>1
    <3>4. ASSUME NEW c \in Own(i), c \notin Own(i - 1)
          PROVE  c \in seg
      <4>1. J[<<r, c>>].cell = i
        BY <3>1, <3>4
      <4> QED BY <4>1, <2>7
    <3> HIDE DEF Own
    <3> QED BY <3>2, <3>3, <3>4
  <2>9. Own(i - 1) \cap seg = {}
    BY <2>3, <2>6
  <2>10. IsFiniteSet(seg) /\ Cardinality(seg) = w
    <3>1. k \in Int /\ k + w - 1 \in Int /\ ~(k > k + w - 1) /\ (k + w - 1) - k + 1 = w
      BY <2>1, <2>2
    <3> QED BY <3>1, FS_Interval DEF seg
  <2>11. Cardinality(Own(i - 1) \union seg) = Cardinality(Own(i - 1)) + Cardinality(seg) - Cardinality(Own(i - 1) \cap seg)
    <3> HIDE DEF Own
    <3> QED BY <1>6, <2>10, FS_Union
  <2>12. Cardinality(Own(i - 1) \cap seg) = 0
    BY <2>9, FS_EmptySet
  <2>13. Cardinality(Own(i)) = Cardinality(Own(i - 1)) + w
    <3> HIDE DEF Own
    <3> QED BY <1>6, <2>2, <2>8, <2>10, <2>11, <2>12
  <2> QED BY <2>13 DEF w
<1> HIDE DEF row, n
<1>8. Solves(g0)
  <2>1. ASSUME NEW i \in 0..n
        PROVE  g0[i] = IF i = 0 THEN 0 ELSE g0[i - 1] + row[i].colSpan
    <3>1. CASE i = 0
      BY <3>1, <1>5, FS_EmptySet
    <3>2. CASE i # 0
      <4>1. i \in 1..n /\ i - 1 \in 0..n
        BY <3>2, <1>2
      <4> HIDE DEF Own
      <4> QED BY <4>1, <1>7, <3>2
    <3> QED BY <3>1, <3>2
  <2>2. g0 = [i \in 0..n |-> g0[i]]
    OBVIOUS
  <2> HIDE DEF g0
  <2> QED BY <2>1, <2>2
<1>9. Solves(sum)
  <2> HIDE DEF Solves
  <2> QED BY <1>8
<1> HIDE DEF sum
<1> DEFINE ok == {i \in Nat : i <= n => sum[i] = Cardinality(Own(i))}
<1>10. 0 \in ok
  <2>1. sum[0] = 0
    BY <1>2, <1>9
  <2> QED BY <2>1, <1>5, FS_EmptySet
<1>11. ASSUME NEW i \in Nat, i \in ok
       PROVE  i + 1 \in ok
  <2> HIDE DEF Own
  <2> SUFFICES ASSUME i + 1 <= n
               PROVE  sum[i + 1] = Cardinality(Own(i + 1))
    BY DEF ok
  <2>1. i + 1 \in 0..n /\ i + 1 # 0 /\ (i + 1) - 1 = i /\ i <= n /\ i + 1 \in 1..n
    BY <1>2
  <2>2. sum[i + 1] = sum[(i + 1) - 1] + row[i + 1].colSpan
    BY <2>1, <1>9
  <2>3. sum[(i + 1) - 1] = Cardinality(Own((i + 1) - 1))
    BY <2>1, <1>11
  <2> QED BY <2>1, <2>2, <2>3, <1>7
<1> HIDE DEF ok
<1>12. n \in ok
  BY <1>2, <1>10, <1>11, NatInSet
<1>13. sum[n] = Cardinality(Own(n))
  BY <1>2, <1>12 DEF ok
<1>14. Own(n) = {c \in 1..C : r \notin B /\ J[<<r, c>>].row = r}
  BY <1>4
<1> QED BY <1>3, <1>13, <1>14 DEF row

\* The first and the last of some places in the document.
LEMMA EndsOf ==
  ASSUME NEW rows \in Seq(Seq(Cell)), NEW S \in SUBSET Places(rows), S # {}
  PROVE  /\ FirstOf(S) \in S /\ \A q \in S : FirstOf(S) = q \/ Before(FirstOf(S), q)
         /\ LastOf(S) \in S /\ \A q \in S : LastOf(S) = q \/ Before(q, LastOf(S))
<1> DEFINE R == Len(rows)
           L == {p[1] : p \in S}
           M(r) == {i \in 1..Len(rows[r]) : <<r, i>> \in S}
<1>1. /\ R \in Nat
      /\ \A r \in 1..R : Len(rows[r]) \in Nat
  BY RowsTyped
<1>2. \A p \in S : /\ p[1] \in 1..R /\ p[2] \in 1..Len(rows[p[1]]) /\ p = <<p[1], p[2]>>
                   /\ p[1] \in Int /\ p[2] \in Int /\ p[2] \in M(p[1])
  <2>1. ASSUME NEW p \in S
        PROVE  /\ p[1] \in 1..R /\ p[2] \in 1..Len(rows[p[1]]) /\ p = <<p[1], p[2]>>
               /\ p[1] \in Int /\ p[2] \in Int /\ p[2] \in M(p[1])
    <3>1. PICK r \in 1..R : \E i \in 1..Len(rows[r]) : p = <<r, i>>
      BY PlacesAre
    <3>2. PICK i \in 1..Len(rows[r]) : p = <<r, i>>
      BY <3>1
    <3>3. p[1] = r /\ p[2] = i /\ r \in Int /\ i \in Int
      BY <1>1, <3>2
    <3> QED BY <3>2, <3>3
  <2> QED BY <2>1
<1>3. L \in SUBSET (1..R) /\ L # {}
  BY <1>2
<1> HIDE DEF L
<1>4. ASSUME NEW r \in L
      PROVE  M(r) \in SUBSET (1..Len(rows[r])) /\ M(r) # {} /\ Len(rows[r]) \in Int
  <2>1. r \in 1..R /\ Len(rows[r]) \in Nat
    BY <1>1, <1>3
  <2>2. PICK p \in S : p[1] = r
    BY DEF L
  <2>3. M(r) \in SUBSET (1..Len(rows[r]))
    OBVIOUS
  <2> HIDE DEF M
  <2>4. p[2] \in M(p[1])
    BY <1>2
  <2>5. Len(rows[r]) \in Int
    BY <2>1
  <2> QED BY <2>2, <2>3, <2>4, <2>5
<1> HIDE DEF M
<1>5. ASSUME NEW r \in L
      PROVE  /\ Min(M(r)) \in M(r) /\ \A x \in M(r) : Min(M(r)) <= x
             /\ Max(M(r)) \in M(r) /\ \A x \in M(r) : x <= Max(M(r))
  <2>1. M(r) \in SUBSET (1..Len(rows[r])) /\ M(r) # {} /\ Len(rows[r]) \in Int
    BY <1>4
  <2>2. 1 \in Int
    OBVIOUS
  <2>3. Min(M(r)) \in M(r) /\ \A x \in M(r) : Min(M(r)) <= x
    BY <2>1, <2>2, HasMin
  <2>4. Max(M(r)) \in M(r) /\ \A x \in M(r) : x <= Max(M(r))
    BY <2>1, <2>2, HasMax
  <2> QED BY <2>3, <2>4
<1>6. /\ Min(L) \in L /\ \A x \in L : Min(L) <= x
      /\ Max(L) \in L /\ \A x \in L : x <= Max(L)
  <2>1. R \in Int /\ 1 \in Int
    BY <1>1
  <2> HIDE DEF R
  <2>2. Min(L) \in L /\ \A x \in L : Min(L) <= x
    BY <1>3, <2>1, HasMin
  <2>3. Max(L) \in L /\ \A x \in L : x <= Max(L)
    BY <1>3, <2>1, HasMax
  <2> QED BY <2>2, <2>3
<1>7. \E p \in S : \A q \in S : p = q \/ Before(p, q)
  <2> DEFINE a == Min(L)
             b == Min(M(a))
  <2>1. b \in M(a) /\ \A x \in M(a) : b <= x
    BY <1>5, <1>6
  <2>2. a \in Int /\ b \in Int /\ <<a, b>> \in S
    <3> HIDE DEF a, b
    <3>0. a \in L
      BY <1>6 DEF a
    <3>1. b \in 1..Len(rows[a]) /\ Len(rows[a]) \in Int /\ a \in 1..R /\ R \in Int
      BY <1>1, <1>3, <1>4, <2>1, <3>0
    <3>2. a \in Int /\ b \in Int
      BY <3>1
    <3>3. <<a, b>> \in S
      BY <2>1 DEF M
    <3> QED BY <3>2, <3>3
  <2>3. \A q \in S : a <= q[1]
    BY <1>6 DEF L
  <2> HIDE DEF a, b
  <2>4. ASSUME NEW q \in S
        PROVE  <<a, b>> = q \/ Before(<<a, b>>, q)
    <3>1. q[1] \in Int /\ q[2] \in Int /\ q = <<q[1], q[2]>> /\ a <= q[1] /\ (q[1] = a => b <= q[2])
      BY <1>2, <2>1, <2>3
    <3> QED BY <2>2, <3>1 DEF Before
  <2> QED BY <2>2, <2>4
<1>8. \E p \in S : \A q \in S : p = q \/ Before(q, p)
  <2> DEFINE a == Max(L)
             b == Max(M(a))
  <2>1. b \in M(a) /\ \A x \in M(a) : x <= b
    BY <1>5, <1>6
  <2>2. a \in Int /\ b \in Int /\ <<a, b>> \in S
    <3> HIDE DEF a, b
    <3>0. a \in L
      BY <1>6 DEF a
    <3>1. b \in 1..Len(rows[a]) /\ Len(rows[a]) \in Int /\ a \in 1..R /\ R \in Int
      BY <1>1, <1>3, <1>4, <2>1, <3>0
    <3>2. a \in Int /\ b \in Int
      BY <3>1
    <3>3. <<a, b>> \in S
      BY <2>1 DEF M
    <3> QED BY <3>2, <3>3
  <2>3. \A q \in S : q[1] <= a
    BY <1>6 DEF L
  <2> HIDE DEF a, b
  <2>4. ASSUME NEW q \in S
        PROVE  <<a, b>> = q \/ Before(q, <<a, b>>)
    <3>1. q[1] \in Int /\ q[2] \in Int /\ q = <<q[1], q[2]>> /\ q[1] <= a /\ (q[1] = a => q[2] <= b)
      BY <1>2, <2>1, <2>3
    <3> QED BY <2>2, <3>1 DEF Before
  <2> QED BY <2>2, <2>4
<1> QED BY <1>7, <1>8 DEF FirstOf, LastOf

\* What ReachedColumns counts never exceeds the columns that are covered
\* from above.
LEMMA ReachedIs ==
  ASSUME NEW rows, NEW C, NEW B, NEW J, NEW K, Numbered(rows, C, B, J, K),
         NEW r \in 1..Len(rows)
  PROVE  /\ ReachedColumns(rows, r) \in Nat
         /\ ReachedColumns(rows, r) <= Cardinality({c \in 1..C : r \notin B /\ J[<<r, c>>].row # r})
         /\ r = 1 => ReachedColumns(rows, r) = 0
<1> DEFINE A == {p \in Places(rows) : p[1] < r /\ p[1] + rows[p[1]][p[2]].rowSpan > r}
           Reach == {c \in 1..C : r \notin B /\ J[<<r, c>>].row # r}
           f == FirstOf(A)
           w == rows[f[1]][f[2]].colSpan
<1>1. rows \in Seq(Seq(Cell)) /\ C \in Nat /\ Len(rows) \in Nat
  BY DEF Numbered
<1>2. IsFiniteSet(Reach) /\ Cardinality(Reach) \in Nat
  <2>1. IsFiniteSet(1..C)
    BY <1>1, FS_Interval
  <2> HIDE DEF Reach
  <2>2. IsFiniteSet(Reach)
    BY <2>1, FS_Subset DEF Reach
  <2> QED BY <2>2, FS_CardinalityType
<1>3. ReachedColumns(rows, r) = IF A = {} THEN 0 ELSE w + Cardinality(A) - 1
  BY DEF ReachedColumns
<1>4. r = 1 => A = {}
  <2>1. \A p \in A : p[1] \in 1..Len(rows) /\ p[1] < r
    BY <1>1, PlacesAre
  <2> QED BY <2>1
<1>5. CASE A = {}
  <2> HIDE DEF A, Reach
  <2>1. ReachedColumns(rows, r) = 0
    BY <1>3, <1>5
  <2> QED BY <1>2, <2>1 DEF Reach
<1>6. CASE A # {}
  <2>1. f \in A
    BY <1>1, <1>6, EndsOf
  <2>2. ASSUME NEW p \in A
        PROVE  LET k == K[p[1]][p[2]]
                   x == rows[p[1]][p[2]]
               IN  /\ p = <<p[1], p[2]>> /\ x.colSpan \in Nat \ {0} /\ k \in 1..C
                   /\ \A c \in k..(k + x.colSpan - 1) :
                        c \in Reach /\ J[<<r, c>>].row = p[1] /\ J[<<r, c>>].cell = p[2]
    <3>1. PICK a \in 1..Len(rows) : \E i \in 1..Len(rows[a]) : p = <<a, i>>
      BY <1>1, PlacesAre
    <3>2. PICK i \in 1..Len(rows[a]) : p = <<a, i>>
      BY <3>1
    <3> DEFINE k == K[a][i]
               x == rows[a][i]
               j == Info(rows, a, i, k)
    <3>3. p[1] = a /\ p[2] = i /\ a < r /\ a + x.rowSpan > r
      BY <3>2
    <3>4. k \in 1..C /\ J[<<a, k>>] = j /\ <<a, k>> \in DOMAIN J
      BY NumberedCell
    <3>5. x.rowSpan \in Nat \ {0} /\ x.colSpan \in Nat \ {0}
      BY <1>1, RowsTyped, CellTyped
    <3>6. \A q \in Area(J[<<a, k>>]) : q \in DOMAIN J /\ J[q] = J[<<a, k>>]
      BY <3>4, NumberedAt
    <3>7. j.row = a /\ j.cell = i /\ j.col = k /\ j.rowSpan = x.rowSpan /\ j.colSpan = x.colSpan
      BY DEF Info
    <3>8. DOMAIN J = ((1..Len(rows)) \ B) \X (1..C)
      BY DEF Numbered
    <3> HIDE DEF j, k, x
    <3>9. ASSUME NEW c \in k..(k + x.colSpan - 1)
          PROVE  c \in Reach /\ J[<<r, c>>].row = a /\ J[<<r, c>>].cell = i
      <4>1. r \in a..(a + x.rowSpan - 1)
        <5>1. r \in Int /\ a \in Int /\ x.rowSpan \in Int /\ a <= r /\ r < a + x.rowSpan
          BY <1>1, <3>3, <3>5
        <5> HIDE DEF x
        <5> QED BY <5>1
      <4>2. <<r, c>> \in Area(j)
        BY <3>7, <4>1 DEF Area
      <4>3. <<r, c>> \in DOMAIN J /\ J[<<r, c>>] = j
        BY <3>4, <3>6, <4>2
      <4>4. r \notin B /\ c \in 1..C
        BY <3>8, <4>3
      <4> QED BY <3>3, <3>7, <4>3, <4>4
    <3> QED BY <3>2, <3>3, <3>4, <3>5, <3>9 DEF k, x
  <2> DEFINE T == A \ {f}
             g == [p \in T |-> K[p[1]][p[2]]]
             I == {g[p] : p \in T}
             seg == K[f[1]][f[2]]..(K[f[1]][f[2]] + w - 1)
  <2>3. w \in Nat \ {0} /\ K[f[1]][f[2]] \in 1..C /\ \A c \in seg : c \in Reach /\ J[<<r, c>>].row = f[1] /\ J[<<r, c>>].cell = f[2]
    BY <2>1, <2>2
  <2>4. \A p \in T : g[p] \in Reach /\ J[<<r, g[p]>>].row = p[1] /\ J[<<r, g[p]>>].cell = p[2] /\ p = <<p[1], p[2]>>
    <3>1. ASSUME NEW p \in T
          PROVE  g[p] \in Reach /\ J[<<r, g[p]>>].row = p[1] /\ J[<<r, g[p]>>].cell = p[2] /\ p = <<p[1], p[2]>>
      <4>1. /\ p = <<p[1], p[2]>> /\ rows[p[1]][p[2]].colSpan \in Nat \ {0} /\ K[p[1]][p[2]] \in 1..C
            /\ \A c \in K[p[1]][p[2]]..(K[p[1]][p[2]] + rows[p[1]][p[2]].colSpan - 1) :
                 c \in Reach /\ J[<<r, c>>].row = p[1] /\ J[<<r, c>>].cell = p[2]
        BY <2>2
      <4>2. K[p[1]][p[2]] \in K[p[1]][p[2]]..(K[p[1]][p[2]] + rows[p[1]][p[2]].colSpan - 1)
        BY <4>1
      <4>3. g[p] = K[p[1]][p[2]]
        OBVIOUS
      <4> HIDE DEF g, Reach
      <4> QED BY <4>1, <4>2, <4>3
    <3> QED BY <3>1
  <2>5. f = <<f[1], f[2]>>
    BY <2>1, <2>2
  <2> HIDE DEF A, f, w, Reach
  <2>6. I \in SUBSET Reach /\ seg \in SUBSET Reach /\ I \cap seg = {}
    <3>1. I \subseteq Reach /\ seg \subseteq Reach
      BY <2>3, <2>4
    <3>2. ASSUME NEW p \in T, g[p] \in seg
          PROVE  FALSE
      <4>1. p[1] = f[1] /\ p[2] = f[2]
        BY <2>3, <2>4, <3>2
      <4> QED BY <2>4, <2>5, <4>1
    <3> QED BY <3>1, <3>2
  <2>7. /\ IsFiniteSet(I) /\ Cardinality(I) \in Nat
        /\ IsFiniteSet(seg) /\ Cardinality(seg) = w
    <3>1. IsFiniteSet(I)
      <4> HIDE DEF I
      <4> QED BY <1>2, <2>6, FS_Subset
    <3>2. K[f[1]][f[2]] \in Int /\ K[f[1]][f[2]] + w - 1 \in Int /\ ~(K[f[1]][f[2]] > K[f[1]][f[2]] + w - 1)
          /\ (K[f[1]][f[2]] + w - 1) - K[f[1]][f[2]] + 1 = w
      BY <1>1, <2>3
    <3>3. IsFiniteSet(seg) /\ Cardinality(seg) = w
      BY <3>2, FS_Interval
    <3> HIDE DEF I
    <3> QED BY <3>1, <3>3, FS_CardinalityType
  <2>8. g \in Injection(T, I) /\ g \in Surjection(T, I)
    <3>1. ASSUME NEW p \in T, NEW q \in T, g[p] = g[q]
          PROVE  p = q
      <4>1. J[<<r, g[p]>>].row = p[1] /\ J[<<r, g[p]>>].cell = p[2] /\ p = <<p[1], p[2]>>
        BY <2>4
      <4>2. J[<<r, g[q]>>].row = q[1] /\ J[<<r, g[q]>>].cell = q[2] /\ q = <<q[1], q[2]>>
        BY <2>4
      <4> HIDE DEF g
      <4>3. p[1] = q[1] /\ p[2] = q[2]
        BY <3>1, <4>1, <4>2
      <4> QED BY <4>1, <4>2, <4>3
    <3>2. g \in [T -> I]
      OBVIOUS
    <3>3. \A x \in I : \E p \in T : g[p] = x
      OBVIOUS
    <3> HIDE DEF g, T, I
    <3> QED BY <3>1, <3>2, <3>3 DEF Injection, Surjection, IsInjective
  <2> HIDE DEF g, I, seg
  <2>9. IsFiniteSet(T) /\ Cardinality(T) = Cardinality(I)
    BY <2>7, <2>8, FS_Injection
  <2>10. Cardinality(A) = Cardinality(T) + 1
    <3>1. A = T \union {f} /\ f \notin T
      BY <2>1
    <3> HIDE DEF T
    <3> QED BY <2>9, <3>1, FS_AddElement
  <2>11. Cardinality(I \union seg) = Cardinality(I) + w
    <3>1. Cardinality(I \cap seg) = 0
      BY <2>6, FS_EmptySet
    <3>2. Cardinality(I \union seg) = Cardinality(I) + Cardinality(seg) - Cardinality(I \cap seg)
      BY <2>7, FS_Union
    <3> QED BY <2>3, <2>7, <3>1, <3>2
  <2>12. Cardinality(I \union seg) <= Cardinality(Reach)
    <3>1. (I \union seg) \in SUBSET Reach
      BY <2>6
    <3> QED BY <1>2, <3>1, FS_Subset
  <2>13. ReachedColumns(rows, r) = w + Cardinality(A) - 1
    BY <1>3, <1>6
  <2>14. ReachedColumns(rows, r) \in Nat /\ ReachedColumns(rows, r) <= Cardinality(Reach)
    BY <1>2, <2>3, <2>7, <2>9, <2>10, <2>11, <2>12, <2>13
  <2>15. r # 1
    BY <1>4, <1>6
  <2> QED BY <2>14, <2>15 DEF Reach
<1> QED BY <1>5, <1>6

\* getMaxCols measures the width of a numbered table,
LEMMA MeasuredColumns ==
  ASSUME NEW rows, NEW C, NEW J, NEW K, Numbered(rows, C, {}, J, K)
  PROVE  getMaxCols(rows) = C
<1> DEFINE R == Len(rows)
           Above(r) == {c \in 1..C : J[<<r, c>>].row # r}
           Own(r) == {c \in 1..C : J[<<r, c>>].row = r}
           n(r) == ReachedColumns(rows, r) + OwnColumns(rows[r])
           S == {0} \union {n(r) : r \in 1..R}
<1>1. rows \in Seq(Seq(Cell)) /\ C \in Nat /\ R \in Nat \ {0} /\ DOMAIN rows = 1..R
  BY RowsTyped DEF Numbered
<1>2. IsFiniteSet(1..C) /\ Cardinality(1..C) = C
  <2>1. 1 \in Int /\ C \in Int /\ (1 > C => C = 0) /\ C - 1 + 1 = C
    BY <1>1
  <2> QED BY <2>1, FS_Interval
<1>3. ASSUME NEW r \in 1..R
      PROVE  n(r) \in Nat /\ n(r) <= C /\ (r = 1 => n(r) = C)
  <2>1. /\ ReachedColumns(rows, r) \in Nat
        /\ ReachedColumns(rows, r) <= Cardinality({c \in 1..C : r \notin {} /\ J[<<r, c>>].row # r})
        /\ r = 1 => ReachedColumns(rows, r) = 0
    BY ReachedIs
  <2>2. {c \in 1..C : r \notin {} /\ J[<<r, c>>].row # r} = Above(r)
    OBVIOUS
  <2>3. OwnColumns(rows[r]) = Cardinality({c \in 1..C : r \notin {} /\ J[<<r, c>>].row = r})
    BY OwnColumnsIs
  <2>4. {c \in 1..C : r \notin {} /\ J[<<r, c>>].row = r} = Own(r)
    OBVIOUS
  <2>5. Above(r) \in SUBSET (1..C) /\ Own(r) \in SUBSET (1..C) /\ Above(r) \cap Own(r) = {} /\ Above(r) \union Own(r) = 1..C
    OBVIOUS
  <2>6. r = 1 => Own(r) = 1..C
    <3>1. ASSUME r = 1, NEW c \in 1..C
          PROVE  J[<<r, c>>].row = r
      <4>1. r \in (1..R) \ {}
        OBVIOUS
      <4>2. J[<<r, c>>].row \in 1..r
        BY <4>1, SitsAt DEF Sits
      <4> QED BY <3>1, <4>2
    <3> QED BY <3>1
  <2> HIDE DEF Above, Own
  <2>7. IsFiniteSet(Above(r)) /\ IsFiniteSet(Own(r)) /\ Cardinality(Above(r)) \in Nat /\ Cardinality(Own(r)) \in Nat
    BY <1>2, <2>5, FS_Subset, FS_CardinalityType
  <2>8. C = Cardinality(Above(r)) + Cardinality(Own(r))
    <3>1. Cardinality(Above(r) \cap Own(r)) = 0
      BY <2>5, FS_EmptySet
    <3>2. Cardinality(Above(r) \union Own(r)) = Cardinality(Above(r)) + Cardinality(Own(r)) - Cardinality(Above(r) \cap Own(r))
      BY <2>7, FS_Union
    <3>3. Cardinality(Above(r) \union Own(r)) = C
      BY <1>2, <2>5
    <3> QED BY <2>7, <3>1, <3>2, <3>3
  <2>9. ReachedColumns(rows, r) <= Cardinality(Above(r)) /\ OwnColumns(rows[r]) = Cardinality(Own(r))
    BY <2>1, <2>2, <2>3, <2>4
  <2> QED BY <1>2, <2>1, <2>6, <2>7, <2>8, <2>9
<1>4. S \in SUBSET Int /\ C \in S /\ \A x \in S : x <= C
  <2> HIDE DEF n
  <2>1. n(1) = C /\ 1 \in 1..R
    BY <1>1, <1>3
  <2> QED BY <1>1, <1>3, <2>1
<1>5. getMaxCols(rows) = Max(S)
  BY <1>1 DEF getMaxCols
<1> HIDE DEF S
<1> QED BY <1>4, <1>5, MaxIs

\* and getMaxRows its height.
LEMMA MeasuredRows ==
  ASSUME NEW rows, NEW C, NEW J, NEW K, Numbered(rows, C, {}, J, K)
  PROVE  getMaxRows(rows) = Len(rows)
<1> DEFINE R == Len(rows)
           T == {p[1] + rows[p[1]][p[2]].rowSpan - 1 : p \in Places(rows)}
           S == {1} \union T \union (1..R)
<1>1. rows \in Seq(Seq(Cell)) /\ C \in Nat /\ R \in Nat \ {0} /\ DOMAIN rows = 1..R
  BY RowsTyped DEF Numbered
<1>2. ASSUME NEW p \in Places(rows)
      PROVE  p[1] + rows[p[1]][p[2]].rowSpan - 1 \in Int /\ p[1] + rows[p[1]][p[2]].rowSpan - 1 <= R
  <2>1. PICK r \in 1..R : \E i \in 1..Len(rows[r]) : p = <<r, i>>
    BY <1>1, PlacesAre
  <2>2. PICK i \in 1..Len(rows[r]) : p = <<r, i>>
    BY <2>1
  <2> DEFINE k == K[r][i]
             j == Info(rows, r, i, k)
  <2>3. k \in 1..C /\ J[<<r, k>>] = j
    BY NumberedCell
  <2>4. r \in (1..R) \ {}
    OBVIOUS
  <2>5. j.row = r /\ j.rowSpan = rows[r][i].rowSpan
    BY DEF Info
  <2>6. Sits(rows, C, {}, J, K, r, k)
    BY <2>3, <2>4, SitsAt
  <2> HIDE DEF j, k
  <2>7. j.rowSpan \in Nat /\ j.row + j.rowSpan <= R + 1
    BY <2>3, <2>6 DEF Sits
  <2>8. p[1] = r /\ p[2] = i
    BY <2>2
  <2> QED BY <1>1, <2>5, <2>7, <2>8
<1>3. T \in SUBSET Int /\ \A x \in T : x <= R
  BY <1>2
<1> HIDE DEF T
<1>4. S \in SUBSET Int /\ R \in S /\ \A x \in S : x <= R
  <2>1. R \in Int /\ 1 <= R /\ R \in 1..R
    BY <1>1
  <2> HIDE DEF R
  <2> QED BY <1>3, <2>1
<1>5. getMaxRows(rows) = Max(S)
  BY <1>1 DEF getMaxRows, T
<1> HIDE DEF S
<1> QED BY <1>4, <1>5, MaxIs

\* update finds a complete numbering again.
LEMMA Rebuilt ==
  ASSUME NEW rows, NEW C, NEW J, NEW K, Numbered(rows, C, {}, J, K)
  PROVE  update(rows) = [rows |-> rows, index |-> J, rowsNum |-> Len(rows), colsNum |-> C,
                         cellsRange |-> RangeOfMarked(rows, J), state |-> "ready"]
<1> DEFINE R == Len(rows)
           full == [r \in 1..R |-> IF r \in DOMAIN rows THEN rows[r] ELSE <<>>]
<1>1. /\ rows \in Seq(Seq(Cell)) /\ C \in Nat /\ R \in Nat \ {0} /\ DOMAIN rows = 1..R
      /\ \A r \in 1..R : rows[r] \in Seq(Cell)
  BY RowsTyped DEF Numbered
<1>2. rows = [r \in 1..R |-> rows[r]]
  BY <1>1
<1>3. full = rows
  BY <1>1, <1>2
<1>4. J = [pos \in (1..R) \X (1..C) |-> J[pos]]
  BY DEF Numbered
<1>5. DOMAIN J = (1..R) \X (1..C)
  BY <1>4
<1>6. ASSUME NEW r \in 1..R
      PROVE  Missing(J, r, C) = {}
  <2>1. ASSUME NEW c \in 1..C
        PROVE  <<r, c>> \in DOMAIN J
    BY <1>5
  <2> QED BY <2>1 DEF Missing
<1>7. WithMissing(rows, J, C) = rows
  <2>1. ASSUME NEW r \in 1..R
        PROVE  rows[r] \o [k \in 1..Cardinality(Missing(J, r, C)) |-> Clone(rows[r])] = rows[r]
    <3>1. Cardinality(Missing(J, r, C)) = 0
      BY <1>6, FS_EmptySet
    <3>2. [k \in 1..Cardinality(Missing(J, r, C)) |-> Clone(rows[r])] = <<>>
      BY <3>1
    <3>3. rows[r] \o <<>> = rows[r]
      BY <1>1, ConcatEmptySeq
    <3> QED BY <3>2, <3>3
  <2> QED BY <1>1, <1>2, <2>1 DEF WithMissing
<1>8. IndexWithMissing(rows, J, C) = J
  <2>1. ((DOMAIN rows) \X (1..C)) \union DOMAIN J = (1..R) \X (1..C)
    BY <1>1, <1>5
  <2>2. IndexWithMissing(rows, J, C) = [pos \in (1..R) \X (1..C) |-> J[pos]]
    BY <1>5, <2>1 DEF IndexWithMissing
  <2> QED BY <1>4, <2>2
<1>9. getMaxRows(rows) = R /\ getMaxCols(rows) = C /\ FillIndex(rows) = J
  BY MeasuredRows, MeasuredColumns, FillIndexIs
<1>10. [r \in 1..getMaxRows(rows) |-> IF r \in DOMAIN rows THEN rows[r] ELSE <<>>] = rows
  BY <1>3, <1>9
<1> QED BY <1>7, <1>8, <1>9, <1>10 DEF update

(* What a table rebuilt from the rows of a layout is.                      *)
LooksLike(u, rows, C, G) ==
    /\ Tiled(u) /\ u.state = "ready" /\ u.rows = rows /\ u.rowsNum = Len(rows) /\ u.colsNum = C
    /\ \A r \in 1..Len(rows), c \in 1..C :
          /\ u.index[<<r, c>>].row = G[r][c].row /\ u.index[<<r, c>>].col = G[r][c].col
          /\ CellOf(u, u.index[<<r, c>>]) = G[r][c].cell
          /\ u.index[<<r, c>>].rowSpan = G[r][c].cell.rowSpan
          /\ u.index[<<r, c>>].colSpan = G[r][c].cell.colSpan

\* A table that is laid out in full is tiled when it is rebuilt.
LEMMA UpdateLays ==
  ASSUME NEW rows, NEW C, NEW G, Lays(rows, C, {}, G)
  PROVE  LooksLike(update(rows), rows, C, G)
<1>1. PICK J, K : /\ Numbered(rows, C, {}, J, K)
                  /\ \A r \in (1..Len(rows)) \ {}, c \in 1..C :
                        LET j == J[<<r, c>>]
                        IN  j.row = G[r][c].row /\ j.col = G[r][c].col /\ rows[j.row][j.cell] = G[r][c].cell
  BY LaysNumbered
<1> DEFINE u == update(rows)
<1>2. u = [rows |-> rows, index |-> J, rowsNum |-> Len(rows), colsNum |-> C,
           cellsRange |-> RangeOfMarked(rows, J), state |-> "ready"]
  BY <1>1, Rebuilt
<1> HIDE DEF u
<1>3. u.rows = rows /\ u.index = J /\ u.rowsNum = Len(rows) /\ u.colsNum = C /\ u.state = "ready"
  BY <1>2
<1>4. Tiled(u)
  <2>1. Numbered(u.rows, u.colsNum, {}, u.index, K) /\ u.rowsNum = Len(u.rows)
    BY <1>1, <1>3
  <2> QED BY <2>1, NumberedTiled
<1>5. ASSUME NEW r \in 1..Len(rows), NEW c \in 1..C
      PROVE  /\ u.index[<<r, c>>].row = G[r][c].row /\ u.index[<<r, c>>].col = G[r][c].col
             /\ CellOf(u, u.index[<<r, c>>]) = G[r][c].cell
             /\ u.index[<<r, c>>].rowSpan = G[r][c].cell.rowSpan
             /\ u.index[<<r, c>>].colSpan = G[r][c].cell.colSpan
  <2> DEFINE j == J[<<r, c>>]
  <2>1. r \in (1..Len(rows)) \ {}
    OBVIOUS
  <2>2. j.row = G[r][c].row /\ j.col = G[r][c].col /\ rows[j.row][j.cell] = G[r][c].cell
    BY <1>1, <2>1
  <2>3. j = Info(rows, j.row, j.cell, j.col)
    <3>1. Sits(rows, C, {}, J, K, r, c)
      BY <1>1, <2>1, SitsAt
    <3> QED BY <3>1 DEF Sits
  <2>4. j.rowSpan = rows[j.row][j.cell].rowSpan /\ j.colSpan = rows[j.row][j.cell].colSpan
    BY <2>3 DEF Info
  <2>5. u.index[<<r, c>>] = j
    BY <1>3
  <2> HIDE DEF j
  <2> QED BY <1>3, <2>2, <2>4, <2>5 DEF CellOf
<1> QED BY <1>3, <1>4, <1>5 DEF LooksLike, u

-----------------------------------------------------------------------------
(* A tiled table with rows, its layout and the columns of its cells.       *)

TableOf(t, R, C, G, K) ==
    /\ R \in Nat \ {0} /\ C \in Nat /\ t.rowsNum = R /\ t.colsNum = C
    /\ t.rows \in Seq(Seq(Cell)) /\ Len(t.rows) = R /\ DOMAIN t.rows = 1..R
    /\ DOMAIN t.index = (1..R) \X (1..C)
    /\ Laid(G, R, C, {})
    /\ \A r \in 1..R : Line(t.rows[r], K[r], Starts(G, r, C), CellsOf(G, r, C))

(* The index says what the layout says.                                    *)
Agrees(t, G, K, r, c) ==
    LET j == t.index[<<r, c>>]
    IN  /\ j.row = G[r][c].row /\ j.col = G[r][c].col
        /\ j.rowSpan = G[r][c].cell.rowSpan /\ j.colSpan = G[r][c].cell.colSpan
        /\ CellOf(t, j) = G[r][c].cell /\ t.rows[j.row][j.cell] = G[r][c].cell
        /\ j.cell \in 1..Len(t.rows[j.row]) /\ K[j.row][j.cell] = j.col
        /\ j = Info(t.rows, j.row, j.cell, j.col)

(* A cell of a row, its column and its place in the layout.                *)
Stands(t, R, C, G, K, r, i) ==
    LET c == K[r][i]
    IN  /\ c \in Starts(G, r, C) /\ c \in 1..C /\ G[r][c].row = r /\ G[r][c].col = c
        /\ t.rows[r][i] = G[r][c].cell /\ t.rows[r][i] \in Cell
        /\ t.index[<<r, c>>] = Info(t.rows, r, i, c)
        /\ \A x \in 1..R, y \in 1..C :
              (t.index[<<x, y>>].row = r /\ t.index[<<x, y>>].cell = i) <=> G[x][y] = G[r][c]

\* A tiled table is laid as its own grid says.
LEMMA TableOfTiled ==
  ASSUME NEW t, Tiled(t), t.rowsNum > 0
  PROVE  /\ TableOf(t, t.rowsNum, t.colsNum, GridOf(t), ColumnsOf(t))
         /\ \A r \in 1..t.rowsNum, c \in 1..t.colsNum : Agrees(t, GridOf(t), ColumnsOf(t), r, c)
         /\ \A r \in 1..t.rowsNum : \A i \in 1..Len(t.rows[r]) :
              Stands(t, t.rowsNum, t.colsNum, GridOf(t), ColumnsOf(t), r, i)
<1> DEFINE R == t.rowsNum
           C == t.colsNum
           G == GridOf(t)
           K == ColumnsOf(t)
           J == IndexOf(t)
<1>1. /\ t.rows \in Seq(Seq(Cell)) /\ R = Len(t.rows) /\ C \in Nat
      /\ DOMAIN t.index = (1..R) \X (1..C)
  BY DEF Tiled
<1>2. R \in Nat \ {0} /\ DOMAIN t.rows = 1..R
  BY <1>1, RowsTyped
<1>3. /\ Laid(G, R, C, {})
      /\ \A r \in 1..R : Line(t.rows[r], K[r], Starts(G, r, C), CellsOf(G, r, C))
  BY TiledLaid
<1>4. TableOf(t, R, C, G, K)
  <2> HIDE DEF G, K
  <2> QED BY <1>1, <1>2, <1>3 DEF TableOf
<1>5. Numbered(t.rows, C, {}, J, K)
  BY TiledNumbered
<1>6. ASSUME NEW r \in 1..R, NEW c \in 1..C
      PROVE  G[r][c] = [row |-> t.index[<<r, c>>].row, col |-> t.index[<<r, c>>].col,
                        cell |-> CellOf(t, t.index[<<r, c>>])] /\ J[<<r, c>>] = t.index[<<r, c>>]
  BY <1>1 DEF GridOf, IndexOf
<1> HIDE DEF G, K, J
<1>7. ASSUME NEW r \in 1..R, NEW c \in 1..C
      PROVE  Agrees(t, G, K, r, c)
  <2> DEFINE j == t.index[<<r, c>>]
  <2>1. r \in (1..Len(t.rows)) \ {}
    BY <1>1
  <2>2. Sits(t.rows, C, {}, J, K, r, c)
    BY <1>5, <2>1, SitsAt
  <2>3. /\ j = Info(t.rows, j.row, j.cell, j.col) /\ K[j.row][j.cell] = j.col
        /\ j.cell \in 1..Len(t.rows[j.row])
    BY <1>6, <2>2 DEF Sits
  <2>4. j.rowSpan = t.rows[j.row][j.cell].rowSpan /\ j.colSpan = t.rows[j.row][j.cell].colSpan
    BY <2>3 DEF Info
  <2>5. CellOf(t, j) = t.rows[j.row][j.cell]
    BY DEF CellOf
  <2>6. G[r][c].row = j.row /\ G[r][c].col = j.col /\ G[r][c].cell = CellOf(t, j)
    <3>1. G[r][c] = [row |-> j.row, col |-> j.col, cell |-> CellOf(t, j)]
      BY <1>6
    <3> QED BY <3>1
  <2> HIDE DEF j
  <2> QED BY <2>3, <2>4, <2>5, <2>6 DEF Agrees, j
<1>8. ASSUME NEW r \in 1..R, NEW i \in 1..Len(t.rows[r])
      PROVE  Stands(t, R, C, G, K, r, i)
  <2> DEFINE c == K[r][i]
  <2>1. Line(t.rows[r], K[r], Starts(G, r, C), CellsOf(G, r, C))
    BY <1>3
  <2>2. c \in Starts(G, r, C) /\ t.rows[r][i] = CellsOf(G, r, C)[c] /\ t.rows[r][i] \in Cell
    BY <2>1, LineFacts
  <2>3. c \in 1..C /\ G[r][c].row = r /\ G[r][c].col = c
    BY <2>2 DEF Starts
  <2>4. CellsOf(G, r, C)[c] = G[r][c].cell
    BY <2>3 DEF CellsOf
  <2>5. r \in 1..Len(t.rows)
    BY <1>1
  <2>6. /\ J[<<r, c>>] = Info(t.rows, r, i, c)
        /\ \A pos \in DOMAIN J : J[pos].row = r /\ J[pos].cell = i => J[pos] = Info(t.rows, r, i, c)
    BY <1>5, <2>5, NumberedCell
  <2>7. t.index[<<r, c>>] = Info(t.rows, r, i, c)
    BY <1>6, <2>3, <2>6
  <2> HIDE DEF c
  <2>8. ASSUME NEW x \in 1..R, NEW y \in 1..C
        PROVE  (t.index[<<x, y>>].row = r /\ t.index[<<x, y>>].cell = i) <=> G[x][y] = G[r][c]
    <3>1. ASSUME t.index[<<x, y>>].row = r, t.index[<<x, y>>].cell = i
          PROVE  G[x][y] = G[r][c]
      <4>1. <<x, y>> \in DOMAIN J
        BY <1>1 DEF IndexOf, J
      <4>2. J[<<x, y>>] = t.index[<<x, y>>]
        BY <1>6
      <4>3. t.index[<<x, y>>] = Info(t.rows, r, i, c)
        BY <2>6, <3>1, <4>1, <4>2
      <4>4. G[x][y] = [row |-> t.index[<<x, y>>].row, col |-> t.index[<<x, y>>].col, cell |-> CellOf(t, t.index[<<x, y>>])]
        BY <1>6
      <4>5. G[r][c] = [row |-> t.index[<<r, c>>].row, col |-> t.index[<<r, c>>].col, cell |-> CellOf(t, t.index[<<r, c>>])]
        BY <1>6, <2>3
      <4> QED BY <2>7, <4>3, <4>4, <4>5
    <3>2. ASSUME G[x][y] = G[r][c]
          PROVE  t.index[<<x, y>>].row = r /\ t.index[<<x, y>>].cell = i
      <4> DEFINE j == t.index[<<x, y>>]
      <4>1. Agrees(t, G, K, x, y)
        BY <1>7
      <4>2. j.row = G[x][y].row /\ j.col = G[x][y].col /\ j.cell \in 1..Len(t.rows[j.row]) /\ K[j.row][j.cell] = j.col
        BY <4>1 DEF Agrees
      <4> HIDE DEF j
      <4>3. j.row = r /\ j.col = c
        BY <2>3, <3>2, <4>2
      <4>4. j.cell \in 1..Len(t.rows[r]) /\ K[r][j.cell] = K[r][i]
        BY <4>2, <4>3 DEF c
      <4>5. \A a, b \in 1..Len(t.rows[r]) : K[r][a] = K[r][b] => a = b
        BY <2>1, LineFacts
      <4> QED BY <4>3, <4>4, <4>5 DEF j
    <3> QED BY <3>1, <3>2
  <2> QED BY <2>2, <2>3, <2>4, <2>7, <2>8 DEF Stands, c
<1> QED BY <1>4, <1>7, <1>8 DEF G, K

(* The cells of a row are those that f says begin at the columns X.        *)
Lined(row, X, f) == \E at : Line(row, at, X, f)

\* The same row with other cells in the same columns.
LEMMA LineSame ==
  ASSUME NEW row, NEW at, NEW X, NEW f, Line(row, at, X, f),
         NEW v \in Seq(Cell), Len(v) = Len(row), NEW g, \A i \in 1..Len(row) : v[i] = g[at[i]]
  PROVE  Line(v, at, X, g)
BY DEF Line

(* Row v has the cells of a row in the same order, moved by h.             *)
Moves(row, at, X, f, Y, h, v, g) ==
    /\ X \in SUBSET Int /\ Line(row, at, X, f)
    /\ Y \in SUBSET Int /\ h \in [X -> Y]
    /\ \A x, y \in X : x < y => h[x] < h[y]
    /\ \A y \in Y : \E x \in X : h[x] = y
    /\ v \in Seq(Cell) /\ Len(v) = Len(row)
    /\ \A i \in 1..Len(row) : v[i] = g[h[at[i]]]

\* A row whose cells move to other columns in the same order.
LEMMA LineMoved ==
  ASSUME NEW row, NEW at, NEW X, NEW f, NEW Y, NEW h, NEW v, NEW g, Moves(row, at, X, f, Y, h, v, g)
  PROVE  Lined(v, Y, g)
<1>1. X \in SUBSET Int /\ Line(row, at, X, f) /\ Y \in SUBSET Int /\ h \in [X -> Y]
  BY DEF Moves
<1>2. /\ \A x, y \in X : x < y => h[x] < h[y]
      /\ \A y \in Y : \E x \in X : h[x] = y
      /\ v \in Seq(Cell) /\ Len(v) = Len(row)
      /\ \A i \in 1..Len(row) : v[i] = g[h[at[i]]]
  BY DEF Moves
<1>3. Line(v, [i \in 1..Len(row) |-> h[at[i]]], Y, g)
  BY <1>1, <1>2, LineMap
<1> QED BY <1>3 DEF Lined

\* The same, with the columns the cells move to.
LEMMA LineMovedTo ==
  ASSUME NEW row, NEW at, NEW X, NEW f, NEW Y, NEW h, NEW v, NEW g, Moves(row, at, X, f, Y, h, v, g)
  PROVE  \E b : Line(v, b, Y, g) /\ \A i \in 1..Len(row) : b[i] = h[at[i]]
<1> DEFINE b == [i \in 1..Len(row) |-> h[at[i]]]
<1>1. X \in SUBSET Int /\ Line(row, at, X, f) /\ Y \in SUBSET Int /\ h \in [X -> Y]
  BY DEF Moves
<1>2. /\ \A x, y \in X : x < y => h[x] < h[y]
      /\ \A y \in Y : \E x \in X : h[x] = y
      /\ v \in Seq(Cell) /\ Len(v) = Len(row)
      /\ \A i \in 1..Len(row) : v[i] = g[h[at[i]]]
  BY DEF Moves
<1>3. Line(v, b, Y, g)
  BY <1>1, <1>2, LineMap
<1>4. \A i \in 1..Len(row) : b[i] = h[at[i]]
  OBVIOUS
<1> HIDE DEF b
<1> QED BY <1>3, <1>4

(* Row v is a row with cell x put in at place m and column c.              *)
Gains(row, at, X, f, c, m, x, v, g) ==
    /\ X \in SUBSET Int /\ Line(row, at, X, f)
    /\ c \in Int /\ c \notin X
    /\ m \in 1..(Len(row) + 1) /\ \A i \in 1..Len(row) : i < m <=> at[i] < c
    /\ Inserted(v, row, m, x)
    /\ g[c] = x /\ \A y \in X : g[y] = f[y]

\* A row that gains a cell at a column.
LEMMA LineGains ==
  ASSUME NEW row, NEW at, NEW X, NEW f, NEW c, NEW m, NEW x, NEW v, NEW g, Gains(row, at, X, f, c, m, x, v, g)
  PROVE  Lined(v, X \union {c}, g)
<1>1. /\ X \in SUBSET Int /\ Line(row, at, X, f)
      /\ c \in Int /\ c \notin X
      /\ m \in 1..(Len(row) + 1) /\ \A i \in 1..Len(row) : i < m <=> at[i] < c
      /\ Inserted(v, row, m, x)
      /\ g[c] = x /\ \A y \in X : g[y] = f[y]
  BY DEF Gains
<1>2. \E b : Line(v, b, X \union {c}, g)
  BY <1>1, LineInsert
<1> QED BY <1>2 DEF Lined

(* Row v has the cells of a row that begin at columns in Y, changed to S   *)
(* and moved by h.                                                         *)
Keeps(row, at, X, f, S, Y, Z, h, v, g) ==
    /\ X \in SUBSET Int /\ Line(row, at, X, f)
    /\ Y \in SUBSET X /\ Z \in SUBSET Int /\ h \in [Y -> Z]
    /\ \A x, y \in Y : x < y => h[x] < h[y]
    /\ \A z \in Z : \E y \in Y : h[y] = z
    /\ S \in Seq(Cell) /\ Len(S) = Len(row)
    /\ \A i \in 1..Len(row) : at[i] \in Y => S[i] = g[h[at[i]]]
    /\ v = LET kept == Ascending({i \in DOMAIN S : at[i] \in Y}) IN [k \in DOMAIN kept |-> S[kept[k]]]

\* A row that loses cells while the others move.
LEMMA LineKeep ==
  ASSUME NEW row, NEW at, NEW X, NEW f, NEW S, NEW Y, NEW Z, NEW h, NEW v, NEW g,
         Keeps(row, at, X, f, S, Y, Z, h, v, g)
  PROVE  Lined(v, Z, g)
<1> DEFINE kept == Ascending({i \in DOMAIN S : at[i] \in Y})
<1>a. /\ X \in SUBSET Int /\ Line(row, at, X, f)
      /\ Y \in SUBSET X /\ Z \in SUBSET Int /\ h \in [Y -> Z]
      /\ \A x, y \in Y : x < y => h[x] < h[y]
      /\ \A z \in Z : \E y \in Y : h[y] = z
      /\ S \in Seq(Cell) /\ Len(S) = Len(row)
      /\ \A i \in 1..Len(row) : at[i] \in Y => S[i] = g[h[at[i]]]
      /\ v = [k \in DOMAIN kept |-> S[kept[k]]]
  BY DEF Keeps
<1> DEFINE n == Len(row)
           num(x) == CHOOSE i \in 1..n : at[i] = x
           f1 == [x \in X |-> S[num(x)]]
           a == [k \in DOMAIN kept |-> at[kept[k]]]
<1>1. /\ n \in Nat /\ DOMAIN at = 1..n
      /\ \A i \in 1..n : at[i] \in X
      /\ \A i, j \in 1..n : at[i] = at[j] => i = j
  BY <1>a, LineFacts
<1>2. DOMAIN S = 1..n
  BY <1>a, LenProperties
<1>3. ASSUME NEW i \in 1..n
      PROVE  num(at[i]) = i
  BY <1>1
<1> HIDE DEF num
<1>4. \A i \in 1..n : S[i] = f1[at[i]]
  BY <1>1, <1>3
<1> HIDE DEF f1
<1>5. Line(S, at, X, f1)
  BY <1>a, <1>4, LineSame
<1>6. Line(v, a, Y, f1)
  <2>1. kept = Ascending({i \in DOMAIN S : at[i] \in Y})
    OBVIOUS
  <2> HIDE DEF kept
  <2>2. Line([k \in DOMAIN kept |-> S[kept[k]]], [k \in DOMAIN kept |-> at[kept[k]]], Y, f1)
    BY <1>a, <1>5, <2>1, LineDrop
  <2> QED BY <1>a, <2>2
<1>7. /\ Len(v) \in Nat /\ v \in Seq(Cell) /\ DOMAIN v = 1..Len(v)
      /\ \A k \in 1..Len(v) : a[k] \in Y
  <2>1. Y \in SUBSET Int
    BY <1>a
  <2>2. Len(v) \in Nat /\ DOMAIN v = 1..Len(v) /\ \A k \in 1..Len(v) : a[k] \in Y
    BY <1>6, <2>1, LineFacts
  <2> QED BY <1>6, <2>2 DEF Line
<1>8. DOMAIN v = DOMAIN kept
  BY <1>a
<1>9. ASSUME NEW k \in 1..Len(v)
      PROVE  v[k] = g[h[a[k]]]
  <2>1. k \in DOMAIN kept /\ a[k] \in Y /\ v[k] = S[kept[k]] /\ a[k] = at[kept[k]]
    BY <1>a, <1>7, <1>8
  <2>2. kept[k] \in 1..n
    <3> DEFINE D == {i \in 1..n : at[i] \in Y}
    <3>1. kept = Ascending(D) /\ D \in SUBSET (1..n)
      BY <1>2
    <3>2. Ascending(D) \in [1..Cardinality(D) -> D]
      <4> HIDE DEF D
      <4> QED BY <1>1, <3>1, AscendingIs
    <3>3. kept[k] \in D
      BY <2>1, <3>1, <3>2
    <3> QED BY <3>3
  <2> QED BY <1>a, <2>1, <2>2
<1> HIDE DEF a
<1>10. \A k \in 1..Len(v) : v[k] = g[h[a[k]]]
  BY <1>9
<1>11. Moves(v, a, Y, f1, Z, h, v, g)
  <2> HIDE DEF kept
  <2> QED BY <1>a, <1>6, <1>7, <1>10 DEF Moves
<1> QED BY <1>11, LineMoved

\* A cell with another row span,
LEMMA WithRowSpan ==
  ASSUME NEW x \in Cell, NEW n \in Nat \ {0}, NEW y, y = [x EXCEPT !.rowSpan = n]
  PROVE  y \in Cell /\ y.rowSpan = n /\ y.colSpan = x.colSpan /\ y.text = x.text /\ y.selected = x.selected
BY DEF Cell

\* with another column span,
LEMMA WithColSpan ==
  ASSUME NEW x \in Cell, NEW n \in Nat \ {0}, NEW y, y = [x EXCEPT !.colSpan = n]
  PROVE  y \in Cell /\ y.colSpan = n /\ y.rowSpan = x.rowSpan /\ y.text = x.text /\ y.selected = x.selected
BY DEF Cell

\* with another text,
LEMMA WithText ==
  ASSUME NEW x \in Cell, NEW n \in SUBSET Words, NEW y, y = [x EXCEPT !.text = n]
  PROVE  y \in Cell /\ y.text = n /\ y.rowSpan = x.rowSpan /\ y.colSpan = x.colSpan /\ y.selected = x.selected
BY DEF Cell

\* selected or not: its other fields stay.
LEMMA WithMark ==
  ASSUME NEW x \in Cell, NEW n \in BOOLEAN, NEW y, y = [x EXCEPT !.selected = n]
  PROVE  y \in Cell /\ y.selected = n /\ y.rowSpan = x.rowSpan /\ y.colSpan = x.colSpan /\ y.text = x.text
BY DEF Cell

\* A new cell has spans of one and no text.
LEMMA BlankIs ==
  /\ BlankCell \in Cell /\ BlankCell.rowSpan = 1 /\ BlankCell.colSpan = 1 /\ BlankCell.text = {}
BY DEF BlankCell, Cell

Within(g, x, y) ==
    /\ x \in Int /\ y \in Int
    /\ g.row <= x /\ x < g.row + g.cell.rowSpan
    /\ g.col <= y /\ y < g.col + g.cell.colSpan

(* The box of the cell at a position, for arithmetic.                      *)
Box(G, R, C, r, c) ==
    LET g == G[r][c]
    IN  /\ r \in Int /\ c \in Int /\ R \in Int /\ C \in Int
        /\ g = [row |-> g.row, col |-> g.col, cell |-> g.cell]
        /\ g.row \in Int /\ g.col \in Int /\ g.cell \in Cell
        /\ g.cell.rowSpan \in Int /\ g.cell.colSpan \in Int
        /\ 1 <= g.cell.rowSpan /\ 1 <= g.cell.colSpan
        /\ 1 <= g.row /\ g.row <= r /\ r <= R /\ r < g.row + g.cell.rowSpan /\ g.row + g.cell.rowSpan <= R + 1
        /\ 1 <= g.col /\ g.col <= c /\ c <= C /\ c < g.col + g.cell.colSpan /\ g.col + g.cell.colSpan <= C + 1
        /\ \A x, y : Within(g, x, y) => x \in 1..R /\ y \in 1..C /\ G[x][y] = g

\* Inside the box of a cell all positions belong to it.
LEMMA BoxAll ==
  ASSUME NEW G, NEW R, NEW C, NEW r, NEW c, Box(G, R, C, r, c),
         NEW x, NEW y, Within(G[r][c], x, y)
  PROVE  x \in 1..R /\ y \in 1..C /\ G[x][y] = G[r][c]
BY DEF Box

\* In a laid grid each position lies in the box of its cell.
LEMMA Boxed ==
  ASSUME NEW G, NEW R, NEW C, Laid(G, R, C, {}), NEW r \in 1..R, NEW c \in 1..C
  PROVE  Box(G, R, C, r, c)
<1> DEFINE g == G[r][c]
<1>1. R \in Int /\ C \in Int /\ r \in Int /\ c \in Int /\ r <= R /\ c <= C /\ 1 <= r /\ 1 <= c
  BY DEF Laid
<1>2. Fits(G, R, C, {}, r, c)
  <2>1. r \in (1..R) \ {}
    OBVIOUS
  <2> QED BY <2>1 DEF Laid
<1>3. /\ g \in [row : Nat, col : Nat, cell : Cell]
      /\ g.row \in 1..r /\ r < g.row + g.cell.rowSpan /\ g.row + g.cell.rowSpan <= R + 1
      /\ g.col \in 1..c /\ c < g.col + g.cell.colSpan /\ g.col + g.cell.colSpan <= C + 1
      /\ \A x \in g.row..(g.row + g.cell.rowSpan - 1), y \in g.col..(g.col + g.cell.colSpan - 1) : G[x][y] = g
  BY <1>2 DEF Fits
<1> HIDE DEF g
<1>4. g = [row |-> g.row, col |-> g.col, cell |-> g.cell] /\ g.row \in Nat /\ g.col \in Nat /\ g.cell \in Cell
  BY <1>3
<1>5. g.cell.rowSpan \in Nat \ {0} /\ g.cell.colSpan \in Nat \ {0}
  BY <1>4, CellTyped
<1>6. ASSUME NEW x, NEW y, Within(g, x, y)
      PROVE  x \in 1..R /\ y \in 1..C /\ G[x][y] = g
  <2>0. /\ x \in Int /\ y \in Int /\ g.row <= x /\ x < g.row + g.cell.rowSpan
        /\ g.col <= y /\ y < g.col + g.cell.colSpan
    BY <1>6 DEF Within
  <2>1. x \in g.row..(g.row + g.cell.rowSpan - 1) /\ y \in g.col..(g.col + g.cell.colSpan - 1)
    BY <1>4, <1>5, <2>0
  <2>2. 1 <= g.row /\ 1 <= g.col
    BY <1>1, <1>3
  <2>3. x \in 1..R /\ y \in 1..C
    BY <1>1, <1>3, <1>4, <1>5, <2>0, <2>2
  <2> QED BY <1>3, <2>1, <2>3
<1>7. /\ 1 <= g.row /\ g.row <= r /\ 1 <= g.col /\ g.col <= c /\ g.row \in Int /\ g.col \in Int
  BY <1>1, <1>3, <1>4
<1>8. g.cell.rowSpan \in Int /\ g.cell.colSpan \in Int /\ 1 <= g.cell.rowSpan /\ 1 <= g.cell.colSpan
  BY <1>5
<1> QED BY <1>1, <1>3, <1>4, <1>6, <1>7, <1>8 DEF Box, g

\* Boxes make a layout.
LEMMA LaidFrom ==
  ASSUME NEW R \in Nat \ {0}, NEW C \in Nat, NEW G, \A r \in 1..R, c \in 1..C : Box(G, R, C, r, c)
  PROVE  Laid(G, R, C, {})
<1>1. ASSUME NEW r \in 1..R, NEW c \in 1..C
      PROVE  Fits(G, R, C, {}, r, c)
  <2> DEFINE g == G[r][c]
  <2>1. /\ r \in Int /\ c \in Int
        /\ g = [row |-> g.row, col |-> g.col, cell |-> g.cell]
        /\ g.row \in Int /\ g.col \in Int /\ g.cell \in Cell
        /\ g.cell.rowSpan \in Int /\ g.cell.colSpan \in Int
        /\ 1 <= g.cell.rowSpan /\ 1 <= g.cell.colSpan
        /\ 1 <= g.row /\ g.row <= r /\ r <= R /\ r < g.row + g.cell.rowSpan /\ g.row + g.cell.rowSpan <= R + 1
        /\ 1 <= g.col /\ g.col <= c /\ c <= C /\ c < g.col + g.cell.colSpan /\ g.col + g.cell.colSpan <= C + 1
        /\ \A x, y : Within(g, x, y) => x \in 1..R /\ y \in 1..C /\ G[x][y] = g
    BY DEF Box
  <2> HIDE DEF g
  <2>2. g.row \in Nat /\ g.col \in Nat /\ g.row \in 1..r /\ g.col \in 1..c
    BY <2>1
  <2>3. g \in [row : Nat, col : Nat, cell : Cell]
    BY <2>1, <2>2
  <2>4. ASSUME NEW x \in g.row..(g.row + g.cell.rowSpan - 1), NEW y \in g.col..(g.col + g.cell.colSpan - 1)
        PROVE  G[x][y] = g
    <3>1. Within(g, x, y)
      BY <2>1 DEF Within
    <3> QED BY <2>1, <3>1
  <2> QED BY <2>1, <2>2, <2>3, <2>4 DEF Fits, g
<1> QED BY <1>1 DEF Laid

\* Rows that are lined up as each row of a grid says lay the grid.
LEMMA LaysFrom ==
  ASSUME NEW R \in Nat \ {0}, NEW C, NEW G, Laid(G, R, C, {}),
         NEW rows, rows = [r \in 1..R |-> rows[r]],
         \A r \in 1..R : Lined(rows[r], Starts(G, r, C), CellsOf(G, r, C))
  PROVE  Lays(rows, C, {}, G) /\ Len(rows) = R
<1>1. \A r \in 1..R : rows[r] \in Seq(Cell)
  BY DEF Lined, Line
<1>2. rows \in [1..R -> Seq(Cell)]
  BY <1>1
<1>3. R \in Nat
  OBVIOUS
<1>4. rows \in Seq(Seq(Cell)) /\ Len(rows) = R
  BY <1>2, <1>3, FcnIsSeq
<1>5. \A r \in (1..Len(rows)) \ {} : \E at : Line(rows[r], at, Starts(G, r, C), CellsOf(G, r, C))
  BY <1>4 DEF Lined
<1> QED BY <1>4, <1>5 DEF Lays

\* Rows whose cells are changed.
LEMMA RowsChanged ==
  ASSUME NEW rows \in Seq(Seq(Cell)), NEW m, m = [r \in DOMAIN rows |-> m[r]],
         \A r \in DOMAIN rows : m[r] = [i \in DOMAIN rows[r] |-> m[r][i]],
         \A r \in DOMAIN rows : \A i \in DOMAIN rows[r] : m[r][i] \in Cell
  PROVE  /\ m \in Seq(Seq(Cell)) /\ Len(m) = Len(rows)
         /\ \A r \in 1..Len(rows) : m[r] \in Seq(Cell) /\ Len(m[r]) = Len(rows[r]) /\ DOMAIN m[r] = 1..Len(rows[r])
<1>1. Len(rows) \in Nat /\ DOMAIN rows = 1..Len(rows)
  BY RowsTyped
<1>2. ASSUME NEW r \in 1..Len(rows)
      PROVE  m[r] \in Seq(Cell) /\ Len(m[r]) = Len(rows[r]) /\ DOMAIN m[r] = 1..Len(rows[r])
  <2>1. Len(rows[r]) \in Nat /\ DOMAIN rows[r] = 1..Len(rows[r])
    BY RowsTyped
  <2>2. r \in DOMAIN rows
    BY <1>1
  <2>3. m[r] \in [1..Len(rows[r]) -> Cell]
    BY <2>1, <2>2
  <2> QED BY <2>1, <2>3, FcnIsSeq
<1>3. m \in [1..Len(rows) -> Seq(Cell)]
  BY <1>1, <1>2
<1>4. m \in Seq(Seq(Cell)) /\ Len(m) = Len(rows)
  BY <1>1, <1>3, FcnIsSeq
<1> QED BY <1>2, <1>4

-----------------------------------------------------------------------------
(* The cells that a column or a row of the grid meets.                     *)

\* The cells of a column are those whose columns include it.
LEMMA InColumn ==
  ASSUME NEW t, Tiled(t), NEW R, NEW C, NEW G, NEW K, TableOf(t, R, C, G, K),
         NEW r \in 1..R, NEW i \in 1..Len(t.rows[r]), Stands(t, R, C, G, K, r, i), NEW at \in 1..C
  PROVE  /\ (\E x \in 1..R : t.index[<<x, at>>].row = r /\ t.index[<<x, at>>].cell = i)
              <=> (K[r][i] <= at /\ at < K[r][i] + t.rows[r][i].colSpan)
         /\ \A x \in 1..R : t.index[<<x, at>>].row = r /\ t.index[<<x, at>>].cell = i
                            => t.index[<<x, at>>].colSpan = t.rows[r][i].colSpan
<1> DEFINE c == K[r][i]
<1>1. /\ c \in 1..C /\ G[r][c].row = r /\ G[r][c].col = c /\ t.rows[r][i] = G[r][c].cell
      /\ \A x \in 1..R, y \in 1..C :
            (t.index[<<x, y>>].row = r /\ t.index[<<x, y>>].cell = i) <=> G[x][y] = G[r][c]
  BY DEF Stands
<1> HIDE DEF c
<1>2. Laid(G, R, C, {})
  BY DEF TableOf
<1>3. ASSUME NEW x \in 1..R, G[x][at] = G[r][c]
      PROVE  c <= at /\ at < c + t.rows[r][i].colSpan
  <2>1. Box(G, R, C, x, at)
    BY <1>2, Boxed
  <2>2. G[x][at].col <= at /\ at < G[x][at].col + G[x][at].cell.colSpan
    BY <2>1 DEF Box
  <2> QED BY <1>1, <1>3, <2>2
<1>4. ASSUME c <= at, at < c + t.rows[r][i].colSpan
      PROVE  G[r][at] = G[r][c]
  <2>1. Box(G, R, C, r, c)
    BY <1>1, <1>2, Boxed
  <2>2. r \in Int /\ r < r + G[r][c].cell.rowSpan
    BY <1>1, <2>1 DEF Box
  <2>3. at \in Int
    BY <2>1 DEF Box
  <2>4. Within(G[r][c], r, at)
    BY <1>1, <1>4, <2>2, <2>3 DEF Within
  <2> QED BY <2>1, <2>4, BoxAll
<1>5. ASSUME NEW x \in 1..R, t.index[<<x, at>>].row = r, t.index[<<x, at>>].cell = i
      PROVE  t.index[<<x, at>>].colSpan = t.rows[r][i].colSpan
  <2>1. CoversAt(t, t.index[<<x, at>>], x, at)
    BY TiledAt DEF TableOf
  <2>2. t.index[<<x, at>>].colSpan = CellOf(t, t.index[<<x, at>>]).colSpan
    BY <2>1 DEF CoversAt
  <2> QED BY <1>5, <2>2 DEF CellOf
<1> QED BY <1>1, <1>3, <1>4, <1>5 DEF c

(* A cell of row r that covers a position of row at.                       *)
MeetsRow(t, C, r, i, at) == \E y \in 1..C : t.index[<<at, y>>].row = r /\ t.index[<<at, y>>].cell = i

\* A cell covers a position of a row exactly when its rows reach there.
LEMMA InRow ==
  ASSUME NEW t, Tiled(t), NEW R, NEW C, NEW G, NEW K, TableOf(t, R, C, G, K),
         NEW r \in 1..R, NEW i \in 1..Len(t.rows[r]), Stands(t, R, C, G, K, r, i), NEW at \in 1..R
  PROVE  MeetsRow(t, C, r, i, at) <=> (r <= at /\ at < r + t.rows[r][i].rowSpan)
<1> DEFINE c == K[r][i]
<1>1. /\ c \in 1..C /\ G[r][c].row = r /\ G[r][c].col = c /\ t.rows[r][i] = G[r][c].cell
      /\ \A x \in 1..R, y \in 1..C :
            (t.index[<<x, y>>].row = r /\ t.index[<<x, y>>].cell = i) <=> G[x][y] = G[r][c]
  BY DEF Stands
<1> HIDE DEF c
<1>2. Laid(G, R, C, {})
  BY DEF TableOf
<1>3. ASSUME NEW y \in 1..C, G[at][y] = G[r][c]
      PROVE  r <= at /\ at < r + t.rows[r][i].rowSpan
  <2>1. Box(G, R, C, at, y)
    BY <1>2, Boxed
  <2>2. G[at][y].row <= at /\ at < G[at][y].row + G[at][y].cell.rowSpan
    BY <2>1 DEF Box
  <2> QED BY <1>1, <1>3, <2>2
<1>4. ASSUME r <= at, at < r + t.rows[r][i].rowSpan
      PROVE  G[at][c] = G[r][c]
  <2>1. Box(G, R, C, r, c)
    BY <1>1, <1>2, Boxed
  <2>2. c \in Int /\ c < c + G[r][c].cell.colSpan
    BY <1>1, <2>1 DEF Box
  <2>3. at \in Int
    BY <2>1 DEF Box
  <2>4. Within(G[r][c], at, c)
    BY <1>1, <1>4, <2>2, <2>3 DEF Within
  <2> QED BY <2>1, <2>4, BoxAll
<1> QED BY <1>1, <1>3, <1>4 DEF c, MeetsRow

-----------------------------------------------------------------------------
(* A column is taken out.                                                  *)

DelColCell(g, at) ==
    [row |-> g.row, col |-> IF g.col <= at THEN g.col ELSE g.col - 1,
     cell |-> IF g.col <= at /\ at < g.col + g.cell.colSpan THEN [g.cell EXCEPT !.colSpan = @ - 1] ELSE g.cell]

DelColGrid(G, R, C, at) ==
    [r \in 1..R |-> [c \in 1..(C - 1) |-> DelColCell(G[r][IF c < at THEN c ELSE c + 1], at)]]

\* A laid grid without one of its columns is laid.
LEMMA DelColLaid ==
  ASSUME NEW R, NEW C, NEW G, Laid(G, R, C, {}), NEW at \in 1..C
  PROVE  Laid(DelColGrid(G, R, C, at), R, C - 1, {})
<1> DEFINE D == DelColGrid(G, R, C, at)
           s(c) == IF c < at THEN c ELSE c + 1
<1>1. R \in Nat \ {0} /\ C \in Nat /\ at \in Int /\ 1 <= at /\ at <= C /\ C - 1 \in Nat
  BY DEF Laid
<1>2. ASSUME NEW r \in 1..R, NEW c \in 1..(C - 1)
      PROVE  /\ s(c) \in 1..C /\ s(c) # at /\ s(c) \in Int
             /\ D[r][c] = DelColCell(G[r][s(c)], at)
  BY <1>1 DEF DelColGrid
<1> HIDE DEF D
<1>3. ASSUME NEW r \in 1..R, NEW c \in 1..(C - 1)
      PROVE  Box(D, R, C - 1, r, c)
  <2> DEFINE g == G[r][s(c)]
             d == D[r][c]
             w == g.cell.colSpan
             over == g.col <= at /\ at < g.col + w
  <2>1. s(c) \in 1..C /\ s(c) # at /\ s(c) \in Int /\ d = DelColCell(g, at)
    BY <1>2
  <2>2. Box(G, R, C, r, s(c))
    BY <2>1, Boxed
  <2>3. /\ r \in Int /\ c \in Int /\ R \in Int /\ C \in Int /\ 1 <= c /\ c <= C - 1
        /\ g.row \in Int /\ g.col \in Int /\ g.cell \in Cell
        /\ g.cell.rowSpan \in Int /\ w \in Int /\ 1 <= g.cell.rowSpan /\ 1 <= w
        /\ 1 <= g.row /\ g.row <= r /\ r <= R /\ r < g.row + g.cell.rowSpan /\ g.row + g.cell.rowSpan <= R + 1
        /\ 1 <= g.col /\ g.col <= s(c) /\ s(c) <= C /\ s(c) < g.col + w /\ g.col + w <= C + 1
    BY <1>1, <2>2 DEF Box
  <2>4. \A x, y : Within(g, x, y) => x \in 1..R /\ y \in 1..C /\ G[x][y] = g
    BY <2>2, BoxAll
  <2>5. over => w >= 2
    BY <1>1, <2>1, <2>3
  <2>6. /\ d.row = g.row /\ d.col = (IF g.col <= at THEN g.col ELSE g.col - 1)
        /\ d.cell = (IF over THEN [g.cell EXCEPT !.colSpan = @ - 1] ELSE g.cell)
        /\ d = [row |-> d.row, col |-> d.col, cell |-> d.cell]
    BY <2>1 DEF DelColCell
  <2>7. over => w - 1 \in Nat \ {0}
    BY <2>3, <2>5
  <2>8. /\ d.cell \in Cell /\ d.cell.rowSpan = g.cell.rowSpan
        /\ d.cell.colSpan = IF over THEN w - 1 ELSE w
    <3>1. CASE over
      <4>1. d.cell = [g.cell EXCEPT !.colSpan = w - 1]
        BY <2>6, <3>1
      <4>3. g.cell \in Cell /\ w - 1 \in Nat \ {0}
        BY <2>3, <2>7, <3>1
      <4> HIDE DEF g, d, w, s
      <4>4. d.cell \in Cell /\ d.cell.colSpan = w - 1 /\ d.cell.rowSpan = g.cell.rowSpan
        BY <4>1, <4>3 DEF Cell
      <4> QED BY <3>1, <4>4
    <3>2. CASE ~over
      BY <2>3, <2>6, <3>2
    <3> QED BY <3>1, <3>2
  <2> HIDE DEF g, d, w
  <2>9. /\ 1 <= d.col /\ d.col <= c /\ c < d.col + d.cell.colSpan /\ d.col + d.cell.colSpan <= C
        /\ d.col \in Int /\ d.cell.colSpan \in Int /\ 1 <= d.cell.colSpan
    BY <1>1, <2>1, <2>3, <2>6, <2>7, <2>8
  <2>10. ASSUME NEW x, NEW y, Within(d, x, y)
         PROVE  x \in 1..R /\ y \in 1..(C - 1) /\ D[x][y] = d
    <3>0. /\ x \in Int /\ y \in Int /\ d.row <= x /\ x < d.row + d.cell.rowSpan
          /\ d.col <= y /\ y < d.col + d.cell.colSpan
      BY <2>10 DEF Within
    <3>1. y \in 1..(C - 1)
      BY <1>1, <2>9, <3>0
    <3>2. s(y) \in Int /\ g.col <= s(y) /\ s(y) < g.col + w
      BY <1>1, <2>1, <2>3, <2>6, <2>8, <2>9, <3>0
    <3>3. g.row <= x /\ x < g.row + g.cell.rowSpan
      BY <2>6, <2>8, <3>0
    <3>a. Within(g, x, s(y))
      BY <3>0, <3>2, <3>3 DEF Within, w
    <3>4. x \in 1..R /\ G[x][s(y)] = g
      BY <2>4, <3>a
    <3>5. D[x][y] = DelColCell(G[x][s(y)], at)
      BY <1>2, <3>1, <3>4
    <3> QED BY <2>1, <3>1, <3>4, <3>5
  <2>11. d.row \in Int /\ 1 <= d.row /\ d.row <= r /\ r < d.row + d.cell.rowSpan /\ d.row + d.cell.rowSpan <= R + 1
         /\ d.cell.rowSpan \in Int /\ 1 <= d.cell.rowSpan /\ d.cell \in Cell
    BY <2>3, <2>6, <2>8
  <2>12. C - 1 \in Int /\ d.col + d.cell.colSpan <= (C - 1) + 1 /\ r \in Int /\ c \in Int /\ R \in Int /\ r <= R /\ c <= C - 1
    BY <2>3, <2>9
  <2> QED BY <2>6, <2>9, <2>10, <2>11, <2>12 DEF Box, d
<1>4. \A r \in 1..R, c \in 1..(C - 1) : Box(D, R, C - 1, r, c)
  BY <1>3
<1> QED BY <1>1, <1>4, LaidFrom DEF D

\* The starts of the row that deleteCol leaves.
DelColMove(G, R, C, at, r, X, D, Y, Z, h) ==
    /\ Laid(G, R, C, {}) /\ at \in 1..C /\ r \in 1..R
    /\ X = Starts(G, r, C) /\ D = DelColGrid(G, R, C, at)
    /\ Y = {c \in X : ~(c = at /\ G[r][c].cell.colSpan = 1)}
    /\ Z = Starts(D, r, C - 1)
    /\ h = [c \in Y |-> IF c <= at THEN c ELSE c - 1]

\* Where the cells of a row start when a column is taken out.
LEMMA DelColStarts ==
  ASSUME NEW R, NEW C, NEW G, NEW at, NEW r, NEW X, NEW D, NEW Y, NEW Z, NEW h,
         DelColMove(G, R, C, at, r, X, D, Y, Z, h)
  PROVE  /\ Y \in SUBSET X /\ X \in SUBSET Int /\ Z \in SUBSET Int /\ h \in [Y -> Z]
         /\ \A x, y \in Y : x < y => h[x] < h[y]
         /\ \A z \in Z : \E y \in Y : h[y] = z
         /\ \A c \in Y : D[r][h[c]].cell = DelColCell(G[r][c], at).cell
<1>a. /\ Laid(G, R, C, {}) /\ at \in 1..C /\ r \in 1..R
      /\ X = Starts(G, r, C) /\ D = DelColGrid(G, R, C, at)
      /\ Y = {c \in X : ~(c = at /\ G[r][c].cell.colSpan = 1)}
      /\ Z = Starts(D, r, C - 1)
      /\ h = [c \in Y |-> IF c <= at THEN c ELSE c - 1]
  BY DEF DelColMove
<1>1. C \in Nat /\ at \in Int /\ 1 <= at /\ at <= C /\ r \in Int
  BY <1>a DEF Laid
<1>2. \A c \in X : c \in 1..C /\ G[r][c].row = r /\ G[r][c].col = c
  BY <1>a DEF Starts
<1>3. \A c \in 1..(C - 1) : D[r][c] = DelColCell(G[r][IF c < at THEN c ELSE c + 1], at)
  BY <1>a DEF DelColGrid
<1>4. ASSUME NEW c \in Y
      PROVE  /\ c \in Int /\ c \in X /\ h[c] \in Int /\ h[c] = (IF c <= at THEN c ELSE c - 1)
             /\ h[c] \in 1..(C - 1)
             /\ D[r][h[c]] = DelColCell(G[r][c], at)
             /\ D[r][h[c]].row = r /\ D[r][h[c]].col = h[c]
             /\ c = at => \A y \in 1..C : y = at + 1 => G[r][y] = G[r][c]
  <2>1. c \in X /\ c \in 1..C /\ G[r][c].row = r /\ G[r][c].col = c /\ c \in Int
    BY <1>a, <1>1, <1>2
  <2>2. Box(G, R, C, r, c)
    BY <1>a, <2>1, Boxed
  <2>3. /\ G[r][c].cell.colSpan \in Int /\ 1 <= G[r][c].cell.colSpan /\ c + G[r][c].cell.colSpan <= C + 1
        /\ r < r + G[r][c].cell.rowSpan
    BY <2>1, <2>2 DEF Box
  <2>4. c = at => G[r][c].cell.colSpan # 1
    BY <1>a
  <2>5. h[c] = (IF c <= at THEN c ELSE c - 1)
    BY <1>a
  <2>6. c = at => at + 1 <= C /\ G[r][at + 1] = G[r][c]
    <3>1. c = at => c <= at + 1 /\ at + 1 < c + G[r][c].cell.colSpan /\ at + 1 <= C /\ at + 1 \in Int
      BY <1>1, <2>1, <2>3, <2>4
    <3>2. c = at => Within(G[r][c], r, at + 1)
      BY <1>1, <2>1, <2>3, <3>1 DEF Within
    <3> QED BY <2>2, <3>1, <3>2, BoxAll
  <2>7. h[c] \in 1..(C - 1) /\ h[c] \in Int
    BY <1>1, <2>1, <2>5, <2>6
  <2>8. D[r][h[c]] = DelColCell(G[r][c], at)
    <3>1. D[r][h[c]] = DelColCell(G[r][IF h[c] < at THEN h[c] ELSE h[c] + 1], at)
      BY <1>3, <2>7
    <3>2. CASE c < at
      <4>1. (IF h[c] < at THEN h[c] ELSE h[c] + 1) = c
        BY <1>1, <2>1, <2>5, <3>2
      <4> QED BY <3>1, <4>1
    <3>3. CASE c = at
      <4>1. (IF h[c] < at THEN h[c] ELSE h[c] + 1) = at + 1
        BY <1>1, <2>1, <2>5, <3>3
      <4> QED BY <2>6, <3>1, <3>3, <4>1
    <3>4. CASE c > at
      <4>1. (IF h[c] < at THEN h[c] ELSE h[c] + 1) = c
        BY <1>1, <2>1, <2>5, <3>4
      <4> QED BY <3>1, <4>1
    <3> QED BY <1>1, <2>1, <3>2, <3>3, <3>4
  <2>9. D[r][h[c]].row = r /\ D[r][h[c]].col = h[c]
    <3>1. DelColCell(G[r][c], at).row = G[r][c].row /\ DelColCell(G[r][c], at).col = (IF G[r][c].col <= at THEN G[r][c].col ELSE G[r][c].col - 1)
      BY DEF DelColCell
    <3> QED BY <2>1, <2>5, <2>8, <3>1
  <2> QED BY <2>1, <2>5, <2>6, <2>7, <2>8, <2>9
<1>5. Y \in SUBSET X /\ X \in SUBSET Int /\ Z \in SUBSET Int
  BY <1>a, <1>1, <1>2 DEF Starts
<1>6. h \in [Y -> Z]
  <2>1. \A c \in Y : h[c] \in Z
    BY <1>a, <1>4 DEF Starts
  <2> QED BY <1>a, <2>1
<1>7. ASSUME NEW x \in Y, NEW y \in Y, x < y
      PROVE  h[x] < h[y]
  <2>1. /\ x \in Int /\ h[x] = (IF x <= at THEN x ELSE x - 1) /\ x \in X
        /\ (x = at => \A z \in 1..C : z = at + 1 => G[r][z] = G[r][x])
    BY <1>4
  <2>2. y \in Int /\ h[y] = (IF y <= at THEN y ELSE y - 1) /\ y \in X
    BY <1>4
  <2>3. G[r][x].col = x /\ G[r][y].col = y /\ y \in 1..C
    BY <1>2, <2>1, <2>2
  <2>4. ~(x = at /\ y = at + 1)
    BY <1>7, <2>1, <2>2, <2>3
  <2> QED BY <1>1, <1>7, <2>1, <2>2, <2>4
<1>8. ASSUME NEW z \in Z
      PROVE  \E y \in Y : h[y] = z
  <2> DEFINE s == IF z < at THEN z ELSE z + 1
             g == G[r][s]
             c == g.col
  <2>1. z \in 1..(C - 1) /\ D[r][z].row = r /\ D[r][z].col = z
    BY <1>a DEF Starts
  <2>2. D[r][z] = DelColCell(g, at)
    BY <1>3, <2>1
  <2>3. s \in 1..C /\ s # at /\ s \in Int
    BY <1>1, <2>1
  <2> HIDE DEF s
  <2>4. g.row = r /\ z = (IF c <= at THEN c ELSE c - 1)
    BY <2>1, <2>2 DEF DelColCell
  <2>5. Box(G, R, C, r, s)
    BY <1>a, <2>3, Boxed
  <2>6. /\ c \in Int /\ 1 <= c /\ c <= s /\ s <= C /\ s < c + g.cell.colSpan /\ g.cell.colSpan \in Int /\ 1 <= g.cell.colSpan
        /\ r < g.row + g.cell.rowSpan
    BY <2>5 DEF Box
  <2>a. \A x, y : Within(g, x, y) => G[x][y] = g
    BY <2>5, BoxAll
  <2> HIDE DEF s, g, c
  <2>7. G[r][c] = g /\ c \in 1..C
    <3>1. Within(g, r, c)
      BY <1>1, <2>4, <2>6 DEF Within, c
    <3> QED BY <1>1, <2>3, <2>6, <2>a, <3>1
  <2>8. c \in X
    BY <1>a, <2>4, <2>7 DEF Starts, c
  <2>9. ~(c = at /\ G[r][c].cell.colSpan = 1)
    BY <1>1, <2>3, <2>6, <2>7
  <2> QED BY <1>a, <2>4, <2>8, <2>9
<1> QED BY <1>4, <1>5, <1>6, <1>7, <1>8

\* deleteCol makes rows that lay the grid without the column.
LEMMA DelColLays ==
  ASSUME NEW t, Tiled(t), NEW R, NEW C, NEW G, NEW K, TableOf(t, R, C, G, K),
         \A r \in 1..R : \A i \in 1..Len(t.rows[r]) : Stands(t, R, C, G, K, r, i),
         NEW at \in 1..C
  PROVE  \E rows : deleteCol(t, at) = update(rows) /\ Lays(rows, C - 1, {}, DelColGrid(G, R, C, at)) /\ Len(rows) = R
<1> DEFINE D == DelColGrid(G, R, C, at)
           infos == {t.index[<<r, at>>] : r \in 1..t.rowsNum}
           narrow == {<<info.row, info.cell>> : info \in {x \in infos : x.colSpan > 1}}
           gone == {<<info.row, info.cell>> : info \in {x \in infos : x.colSpan = 1}}
           shrunk == [r \in DOMAIN t.rows |-> [i \in DOMAIN t.rows[r] |->
                         IF <<r, i>> \in narrow THEN [t.rows[r][i] EXCEPT !.colSpan = @ - 1]
                                                ELSE t.rows[r][i]]]
           kept(r) == Ascending({i \in DOMAIN shrunk[r] : <<r, i>> \notin gone})
           rows == Without(shrunk, gone)
<1>1. /\ R \in Nat \ {0} /\ C \in Nat /\ t.rowsNum = R
      /\ t.rows \in Seq(Seq(Cell)) /\ Len(t.rows) = R /\ DOMAIN t.rows = 1..R
      /\ Laid(G, R, C, {})
      /\ \A r \in 1..R : Line(t.rows[r], K[r], Starts(G, r, C), CellsOf(G, r, C))
  BY DEF TableOf
<1>2. deleteCol(t, at) = update(rows)
  BY DEF deleteCol
<1>3. Laid(D, R, C - 1, {}) /\ C - 1 \in Nat
  BY <1>1, DelColLaid
<1>4. ASSUME NEW r \in 1..R, NEW i \in 1..Len(t.rows[r])
      PROVE  LET c == K[r][i]
                 w == t.rows[r][i].colSpan
             IN  /\ <<r, i>> \in narrow <=> c <= at /\ at < c + w /\ w > 1
                 /\ <<r, i>> \in gone <=> c <= at /\ at < c + w /\ w = 1
  <2> DEFINE c == K[r][i]
             w == t.rows[r][i].colSpan
  <2>1. Stands(t, R, C, G, K, r, i)
    OBVIOUS
  <2>2. /\ (\E x \in 1..R : t.index[<<x, at>>].row = r /\ t.index[<<x, at>>].cell = i) <=> (c <= at /\ at < c + w)
        /\ \A x \in 1..R : t.index[<<x, at>>].row = r /\ t.index[<<x, at>>].cell = i => t.index[<<x, at>>].colSpan = w
    BY <2>1, InColumn
  <2> HIDE DEF c, w
  <2>3. <<r, i>> \in narrow <=> \E x \in 1..R : t.index[<<x, at>>].row = r /\ t.index[<<x, at>>].cell = i /\ t.index[<<x, at>>].colSpan > 1
    BY <1>1
  <2>4. <<r, i>> \in gone <=> \E x \in 1..R : t.index[<<x, at>>].row = r /\ t.index[<<x, at>>].cell = i /\ t.index[<<x, at>>].colSpan = 1
    BY <1>1
  <2> HIDE DEF narrow, gone
  <2> QED BY <2>2, <2>3, <2>4 DEF c, w
<1> HIDE DEF narrow, gone
<1>5. /\ shrunk = [r \in DOMAIN t.rows |-> shrunk[r]]
      /\ \A r \in DOMAIN t.rows : shrunk[r] = [i \in DOMAIN t.rows[r] |-> shrunk[r][i]]
      /\ \A r \in DOMAIN t.rows : \A i \in DOMAIN t.rows[r] :
           shrunk[r][i] = IF <<r, i>> \in narrow THEN [t.rows[r][i] EXCEPT !.colSpan = @ - 1] ELSE t.rows[r][i]
  OBVIOUS
<1>6. rows = [r \in 1..R |-> [k \in DOMAIN kept(r) |-> shrunk[r][kept(r)[k]]]]
  BY <1>1 DEF Without
<1> HIDE DEF shrunk
<1>7. \A r \in DOMAIN t.rows : \A i \in DOMAIN t.rows[r] : shrunk[r][i] \in Cell
  <2>1. ASSUME NEW r \in 1..R, NEW i \in DOMAIN t.rows[r]
        PROVE  shrunk[r][i] \in Cell
    <3>1. i \in 1..Len(t.rows[r]) /\ t.rows[r][i] \in Cell
      BY <1>1, RowsTyped
    <3>2. t.rows[r][i].colSpan \in Nat \ {0}
      BY <3>1, CellTyped
    <3>3. CASE <<r, i>> \in narrow
      <4>1. t.rows[r][i].colSpan - 1 \in Nat \ {0}
        BY <1>4, <3>1, <3>2, <3>3
      <4>2. shrunk[r][i] = [t.rows[r][i] EXCEPT !.colSpan = t.rows[r][i].colSpan - 1]
        BY <1>1, <1>5, <3>3
      <4> QED BY <3>1, <4>1, <4>2 DEF Cell
    <3>4. CASE <<r, i>> \notin narrow
      BY <1>1, <1>5, <3>1, <3>4
    <3> QED BY <3>3, <3>4
  <2> QED BY <1>1, <2>1
<1>8. \A r \in 1..R : shrunk[r] \in Seq(Cell) /\ Len(shrunk[r]) = Len(t.rows[r]) /\ DOMAIN shrunk[r] = 1..Len(t.rows[r])
  <2>1. \A r \in 1..Len(t.rows) : shrunk[r] \in Seq(Cell) /\ Len(shrunk[r]) = Len(t.rows[r]) /\ DOMAIN shrunk[r] = 1..Len(t.rows[r])
    BY <1>1, <1>5, <1>7, RowsChanged
  <2> QED BY <1>1, <2>1
<1>9. ASSUME NEW r \in 1..R
      PROVE  Lined(rows[r], Starts(D, r, C - 1), CellsOf(D, r, C - 1))
  <2> DEFINE X == Starts(G, r, C)
             Y == {c \in X : ~(c = at /\ G[r][c].cell.colSpan = 1)}
             Z == Starts(D, r, C - 1)
             h == [c \in Y |-> IF c <= at THEN c ELSE c - 1]
             S == shrunk[r]
             f == CellsOf(D, r, C - 1)
  <2>1. /\ Y \in SUBSET X /\ X \in SUBSET Int /\ Z \in SUBSET Int /\ h \in [Y -> Z]
        /\ \A x, y \in Y : x < y => h[x] < h[y]
        /\ \A z \in Z : \E y \in Y : h[y] = z
        /\ \A c \in Y : D[r][h[c]].cell = DelColCell(G[r][c], at).cell
    <3>1. /\ X = Starts(G, r, C) /\ D = DelColGrid(G, R, C, at) /\ Y = {c \in X : ~(c = at /\ G[r][c].cell.colSpan = 1)}
          /\ Z = Starts(D, r, C - 1) /\ h = [c \in Y |-> IF c <= at THEN c ELSE c - 1]
      OBVIOUS
    <3> HIDE DEF X, Y, Z, h, D
    <3>2. DelColMove(G, R, C, at, r, X, D, Y, Z, h)
      BY <1>1, <3>1 DEF DelColMove
    <3> QED BY <3>2, DelColStarts
  <2>2. \A i \in 1..Len(t.rows[r]) : K[r][i] \in X /\ t.rows[r][i] = G[r][K[r][i]].cell /\ G[r][K[r][i]].col = K[r][i]
    <3>1. ASSUME NEW i \in 1..Len(t.rows[r])
          PROVE  K[r][i] \in X /\ t.rows[r][i] = G[r][K[r][i]].cell /\ G[r][K[r][i]].col = K[r][i]
      <4>1. Stands(t, R, C, G, K, r, i)
        OBVIOUS
      <4> QED BY <4>1 DEF Stands
    <3> QED BY <3>1
  <2>3. Line(t.rows[r], K[r], X, CellsOf(G, r, C))
    BY <1>1
  <2>4. S \in Seq(Cell) /\ Len(S) = Len(t.rows[r]) /\ DOMAIN S = 1..Len(t.rows[r])
    BY <1>8
  <2>5. \A c \in X : c \in Int /\ c \in 1..C
    BY <1>1 DEF Starts
  <2>6. \A i \in 1..Len(t.rows[r]) : t.rows[r][i].colSpan \in Int /\ 1 <= t.rows[r][i].colSpan
    <3>1. ASSUME NEW i \in 1..Len(t.rows[r])
          PROVE  t.rows[r][i].colSpan \in Nat \ {0}
      BY <1>1, RowsTyped, CellTyped
    <3> QED BY <3>1
  <2>7. at \in Int
    BY <1>1
  <2> HIDE DEF X, S, Z, h, f, D
  <2>8. ASSUME NEW i \in 1..Len(t.rows[r])
        PROVE  /\ <<r, i>> \notin gone <=> K[r][i] \in Y
               /\ K[r][i] \in Y => S[i] = f[h[K[r][i]]]
    <3> DEFINE c == K[r][i]
               w == t.rows[r][i].colSpan
    <3>1. c \in X /\ c \in Int /\ w \in Int /\ 1 <= w /\ G[r][c].col = c /\ t.rows[r][i] = G[r][c].cell
      BY <2>2, <2>5, <2>6
    <3>2. /\ <<r, i>> \in narrow <=> c <= at /\ at < c + w /\ w > 1
          /\ <<r, i>> \in gone <=> c <= at /\ at < c + w /\ w = 1
      BY <1>4
    <3>3. <<r, i>> \notin gone <=> c \in Y
      BY <2>7, <3>1, <3>2
    <3>4. ASSUME c \in Y
          PROVE  S[i] = f[h[c]]
      <4>1. h[c] \in Z
        BY <2>1, <3>4
      <4>2. h[c] \in 1..(C - 1)
        BY <4>1 DEF Z, Starts
      <4>3. f[h[c]] = D[r][h[c]].cell
        BY <4>2 DEF f, CellsOf
      <4>4. D[r][h[c]].cell = DelColCell(G[r][c], at).cell
        BY <2>1, <3>4
      <4>5. DelColCell(G[r][c], at).cell = IF c <= at /\ at < c + w THEN [t.rows[r][i] EXCEPT !.colSpan = @ - 1] ELSE t.rows[r][i]
        BY <3>1 DEF DelColCell
      <4>6. S[i] = IF <<r, i>> \in narrow THEN [t.rows[r][i] EXCEPT !.colSpan = @ - 1] ELSE t.rows[r][i]
        BY <1>1, <1>5, <2>4 DEF S
      <4>7. <<r, i>> \in narrow <=> c <= at /\ at < c + w
        BY <2>7, <3>1, <3>2, <3>3, <3>4
      <4> HIDE DEF c, w
      <4> QED BY <4>3, <4>4, <4>5, <4>6, <4>7
    <3> QED BY <3>3, <3>4
  <2> HIDE DEF Y
  <2>9. kept(r) = Ascending({i \in DOMAIN S : K[r][i] \in Y})
    <3>1. {i \in DOMAIN S : <<r, i>> \notin gone} = {i \in DOMAIN S : K[r][i] \in Y}
      BY <2>4, <2>8
    <3> QED BY <3>1 DEF S
  <2>10. rows[r] = LET kp == Ascending({i \in DOMAIN S : K[r][i] \in Y}) IN [k \in DOMAIN kp |-> S[kp[k]]]
    BY <1>6, <2>9 DEF S
  <2> DEFINE v == rows[r]
  <2> HIDE DEF v, kept
  <2>11. Keeps(t.rows[r], K[r], X, CellsOf(G, r, C), S, Y, Z, h, v, f)
    BY <2>1, <2>3, <2>4, <2>8, <2>10 DEF Keeps, v
  <2>12. Lined(v, Z, f)
    BY <2>11, LineKeep
  <2> QED BY <2>12 DEF Z, f, v
<1>10. rows = [r \in 1..R |-> rows[r]]
  BY <1>6
<1> HIDE DEF rows, D
<1>11. Lays(rows, C - 1, {}, D) /\ Len(rows) = R
  BY <1>1, <1>3, <1>9, <1>10, LaysFrom
<1> QED BY <1>2, <1>11 DEF D

\* The content of a position of a tiled table, and of one that looks like a
\* layout.
LEMMA TextIn ==
  ASSUME NEW t, NEW G, NEW K, NEW r, NEW c, Agrees(t, G, K, r, c)
  PROVE  TextAt(t, <<r, c>>) = G[r][c].cell.text
BY DEF Agrees, TextAt

\* What a position of a table says that looks like a grid.
LEMMA TextLike ==
  ASSUME NEW u, NEW rows, NEW C, NEW G, LooksLike(u, rows, C, G),
         NEW r \in 1..Len(rows), NEW c \in 1..C
  PROVE  TextAt(u, <<r, c>>) = G[r][c].cell.text
BY DEF LooksLike, TextAt

\* A column taken out leaves a tiled table, and the other columns their
\* contents.
LEMMA DelColKeeps ==
  ASSUME NEW t, Tiled(t), t.rowsNum > 0, NEW at \in 1..t.colsNum
  PROVE  /\ Tiled(deleteCol(t, at)) /\ deleteCol(t, at).state = "ready"
         /\ \A r \in 1..t.rowsNum, c \in 1..t.colsNum :
              c # at => TextAt(deleteCol(t, at), <<r, Shift(c, at, -1)>>) = TextAt(t, <<r, c>>)
<1> DEFINE R == t.rowsNum
           C == t.colsNum
           G == GridOf(t)
           K == ColumnsOf(t)
           D == DelColGrid(G, R, C, at)
           u == deleteCol(t, at)
<1>1. /\ TableOf(t, R, C, G, K)
      /\ \A r \in 1..R, c \in 1..C : Agrees(t, G, K, r, c)
      /\ \A r \in 1..R : \A i \in 1..Len(t.rows[r]) : Stands(t, R, C, G, K, r, i)
  BY TableOfTiled
<1> HIDE DEF G, K
<1>2. PICK rows : deleteCol(t, at) = update(rows) /\ Lays(rows, C - 1, {}, D) /\ Len(rows) = R
  BY <1>1, DelColLays
<1>3. LooksLike(u, rows, C - 1, D)
  BY <1>2, UpdateLays
<1>4. Tiled(u) /\ u.state = "ready"
  BY <1>3 DEF LooksLike
<1>5. C \in Nat /\ at \in Int /\ 1 <= at /\ at <= C /\ Laid(G, R, C, {})
  BY <1>1 DEF TableOf
<1> HIDE DEF u
<1>6. ASSUME NEW r \in 1..R, NEW c \in 1..C, c # at
      PROVE  TextAt(u, <<r, Shift(c, at, -1)>>) = TextAt(t, <<r, c>>)
  <2> DEFINE d == Shift(c, at, -1)
  <2>1. d \in 1..(C - 1) /\ (IF d < at THEN d ELSE d + 1) = c
    BY <1>5, <1>6 DEF Shift
  <2> HIDE DEF d
  <2>2. TextAt(u, <<r, d>>) = D[r][d].cell.text
    BY <1>2, <1>3, <2>1, TextLike
  <2>3. D[r][d] = DelColCell(G[r][c], at)
    BY <2>1 DEF DelColGrid
  <2>4. TextAt(t, <<r, c>>) = G[r][c].cell.text
    BY <1>1, TextIn
  <2>5. DelColCell(G[r][c], at).cell.text = G[r][c].cell.text
    <3>1. G[r][c].cell \in Cell
      BY <1>5, Boxed DEF Box
    <3> QED BY <3>1 DEF DelColCell, Cell
  <2> QED BY <2>2, <2>3, <2>4, <2>5 DEF d
<1> QED BY <1>4, <1>6 DEF u

-----------------------------------------------------------------------------
(* A column is put in.                                                     *)

InsColCell(g, at) ==
    [row |-> g.row, col |-> IF g.col < at THEN g.col ELSE g.col + 1,
     cell |-> IF g.col < at /\ at < g.col + g.cell.colSpan THEN [g.cell EXCEPT !.colSpan = @ + 1] ELSE g.cell]

InsColGrid(G, R, C, at) ==
    [r \in 1..R |-> [c \in 1..(C + 1) |->
        IF c < at THEN InsColCell(G[r][c], at)
        ELSE IF c > at THEN InsColCell(G[r][c - 1], at)
        ELSE IF at \in 2..C /\ G[r][at].col < at THEN InsColCell(G[r][at], at)
        ELSE [row |-> r, col |-> at, cell |-> BlankCell]]]

\* A laid grid with one more column is laid.
LEMMA InsColLaid ==
  ASSUME NEW R, NEW C, NEW G, Laid(G, R, C, {}), NEW at \in 1..(C + 1)
  PROVE  Laid(InsColGrid(G, R, C, at), R, C + 1, {})
<1> DEFINE D == InsColGrid(G, R, C, at)
           New(r, c) == c = at /\ ~(at \in 2..C /\ G[r][at].col < at)
           old(c) == IF c > at THEN c - 1 ELSE c
<1>1. R \in Nat \ {0} /\ C \in Nat /\ at \in Int /\ 1 <= at /\ at <= C + 1 /\ C + 1 \in Nat
  BY DEF Laid
<1>2. ASSUME NEW r \in 1..R, NEW c \in 1..(C + 1)
      PROVE  D[r][c] = IF New(r, c) THEN [row |-> r, col |-> at, cell |-> BlankCell]
                                    ELSE InsColCell(G[r][old(c)], at)
  <2>1. c < at \/ c = at \/ c > at
    BY <1>1
  <2>2. D[r][c] = IF c < at THEN InsColCell(G[r][c], at)
                  ELSE IF c > at THEN InsColCell(G[r][c - 1], at)
                  ELSE IF at \in 2..C /\ G[r][at].col < at THEN InsColCell(G[r][at], at)
                  ELSE [row |-> r, col |-> at, cell |-> BlankCell]
    BY DEF InsColGrid
  <2>3. CASE c < at
    BY <1>1, <2>2, <2>3
  <2>4. CASE c = at
    BY <1>1, <2>2, <2>4
  <2>5. CASE c > at
    BY <1>1, <2>2, <2>5
  <2> QED BY <2>1, <2>3, <2>4, <2>5
<1> HIDE DEF D
<1>3. ASSUME NEW r \in 1..R, NEW c \in 1..(C + 1)
      PROVE  Box(D, R, C + 1, r, c)
  <2>1. CASE New(r, c)
    <3> DEFINE d == D[r][c]
    <3>1. d = [row |-> r, col |-> at, cell |-> BlankCell] /\ c = at
      BY <1>2, <2>1
    <3>2. d.row = r /\ d.col = at /\ d.cell = BlankCell /\ d = [row |-> d.row, col |-> d.col, cell |-> d.cell]
      BY <3>1
    <3> HIDE DEF d
    <3>3. d.cell \in Cell /\ d.cell.rowSpan = 1 /\ d.cell.colSpan = 1
      BY <3>2, BlankIs
    <3>4. ASSUME NEW x, NEW y, Within(d, x, y)
          PROVE  x = r /\ y = c
      BY <1>1, <3>1, <3>2, <3>3, <3>4 DEF Within
    <3>5. \A x, y : Within(d, x, y) => x \in 1..R /\ y \in 1..(C + 1) /\ D[x][y] = d
      BY <3>4 DEF d
    <3>6. r \in Int /\ c \in Int /\ R \in Int /\ C + 1 \in Int /\ 1 <= r /\ r <= R /\ 1 <= c /\ c <= C + 1
      BY <1>1
    <3> QED BY <1>1, <3>1, <3>2, <3>3, <3>5, <3>6 DEF Box, d
  <2>2. CASE ~New(r, c)
    <3> DEFINE k == old(c)
               g == G[r][k]
               d == D[r][c]
               w == g.cell.colSpan
               over == g.col < at /\ at < g.col + w
    <3>1. d = InsColCell(g, at)
      BY <1>2, <2>2
    <3>2. k \in 1..C /\ k = (IF c > at THEN c - 1 ELSE c) /\ (c = at => at \in 2..C /\ g.col < at)
      BY <1>1, <2>2
    <3>3. Box(G, R, C, r, k)
      BY <3>2, Boxed
    <3>4. /\ r \in Int /\ c \in Int /\ R \in Int /\ C \in Int /\ 1 <= c /\ c <= C + 1 /\ k \in Int
          /\ g.row \in Int /\ g.col \in Int /\ g.cell \in Cell
          /\ g.cell.rowSpan \in Int /\ w \in Int /\ 1 <= g.cell.rowSpan /\ 1 <= w
          /\ 1 <= g.row /\ g.row <= r /\ r <= R /\ r < g.row + g.cell.rowSpan /\ g.row + g.cell.rowSpan <= R + 1
          /\ 1 <= g.col /\ g.col <= k /\ k <= C /\ k < g.col + w /\ g.col + w <= C + 1
      BY <1>1, <3>3 DEF Box
    <3>5. \A x, y : Within(g, x, y) => x \in 1..R /\ y \in 1..C /\ G[x][y] = g
      BY <3>3, BoxAll
    <3>6. /\ d.row = g.row /\ d.col = (IF g.col < at THEN g.col ELSE g.col + 1)
          /\ d.cell = (IF over THEN [g.cell EXCEPT !.colSpan = @ + 1] ELSE g.cell)
          /\ d = [row |-> d.row, col |-> d.col, cell |-> d.cell]
      BY <3>1 DEF InsColCell
    <3>7. /\ d.cell \in Cell /\ d.cell.rowSpan = g.cell.rowSpan
          /\ d.cell.colSpan = IF over THEN w + 1 ELSE w
      <4>1. CASE over
        <5>1. d.cell = [g.cell EXCEPT !.colSpan = w + 1]
          BY <3>6, <4>1
        <5>2. g.cell \in Cell /\ w + 1 \in Nat \ {0}
          BY <3>4
        <5> HIDE DEF g, d, w, k
        <5>3. d.cell \in Cell /\ d.cell.colSpan = w + 1 /\ d.cell.rowSpan = g.cell.rowSpan
          BY <5>1, <5>2 DEF Cell
        <5> QED BY <4>1, <5>3
      <4>2. CASE ~over
        BY <3>4, <3>6, <4>2
      <4> QED BY <4>1, <4>2
    <3> HIDE DEF g, d, w, k
    <3>8. /\ 1 <= d.col /\ d.col <= c /\ c < d.col + d.cell.colSpan /\ d.col + d.cell.colSpan <= (C + 1) + 1
          /\ d.col \in Int /\ d.cell.colSpan \in Int /\ 1 <= d.cell.colSpan
      BY <1>1, <3>2, <3>4, <3>6, <3>7
    <3>9. ASSUME NEW x, NEW y, Within(d, x, y)
          PROVE  x \in 1..R /\ y \in 1..(C + 1) /\ D[x][y] = d
      <4>0. /\ x \in Int /\ y \in Int /\ d.row <= x /\ x < d.row + d.cell.rowSpan
            /\ d.col <= y /\ y < d.col + d.cell.colSpan
        BY <3>9 DEF Within
      <4>1. y \in 1..(C + 1)
        BY <1>1, <3>8, <4>0
      <4>2. old(y) \in Int /\ g.col <= old(y) /\ old(y) < g.col + w
        BY <1>1, <3>2, <3>4, <3>6, <3>7, <3>8, <4>0
      <4>3. g.row <= x /\ x < g.row + g.cell.rowSpan
        BY <3>6, <3>7, <4>0
      <4>4. Within(g, x, old(y))
        BY <4>0, <4>2, <4>3 DEF Within, w
      <4>5. x \in 1..R /\ G[x][old(y)] = g
        BY <3>5, <4>4
      <4>6. y = at => at \in 2..C /\ g.col < at /\ G[x][at] = g
        BY <1>1, <3>4, <3>6, <3>7, <3>8, <4>0, <4>5
      <4>7. ~New(x, y)
        BY <4>6
      <4>8. D[x][y] = InsColCell(G[x][old(y)], at)
        BY <1>2, <4>1, <4>5, <4>7
      <4> QED BY <3>1, <4>1, <4>5, <4>8
    <3>10. d.row \in Int /\ 1 <= d.row /\ d.row <= r /\ r < d.row + d.cell.rowSpan /\ d.row + d.cell.rowSpan <= R + 1
           /\ d.cell.rowSpan \in Int /\ 1 <= d.cell.rowSpan /\ d.cell \in Cell
      BY <3>4, <3>6, <3>7
    <3>11. C + 1 \in Int /\ r \in Int /\ c \in Int /\ R \in Int /\ r <= R /\ c <= C + 1
      BY <1>1, <3>4
    <3> QED BY <3>6, <3>8, <3>9, <3>10, <3>11 DEF Box, d
  <2> QED BY <2>1, <2>2
<1>4. \A r \in 1..R, c \in 1..(C + 1) : Box(D, R, C + 1, r, c)
  BY <1>3
<1> QED BY <1>1, <1>4, LaidFrom DEF D

InsColMove(G, R, C, at, r, X, D, Y, Z, h) ==
    /\ Laid(G, R, C, {}) /\ at \in 1..(C + 1) /\ r \in 1..R
    /\ X = Starts(G, r, C) /\ D = InsColGrid(G, R, C, at)
    /\ Y = {IF c < at THEN c ELSE c + 1 : c \in X}
    /\ Z = Starts(D, r, C + 1)
    /\ h = [c \in X |-> IF c < at THEN c ELSE c + 1]

\* Where the cells of a row start when a column is put in.
LEMMA InsColStarts ==
  ASSUME NEW R, NEW C, NEW G, NEW at, NEW r, NEW X, NEW D, NEW Y, NEW Z, NEW h,
         InsColMove(G, R, C, at, r, X, D, Y, Z, h)
  PROVE  /\ X \in SUBSET Int /\ Y \in SUBSET Int /\ h \in [X -> Y]
         /\ \A x, y \in X : x < y => h[x] < h[y]
         /\ \A y \in Y : \E x \in X : h[x] = y
         /\ at \notin Y /\ \A x \in X : h[x] < at <=> x < at
         /\ Z = Y \union (IF at \in 2..C /\ G[r][at].col < at THEN {} ELSE {at})
         /\ \A x \in X : h[x] \in 1..(C + 1) /\ D[r][h[x]] = InsColCell(G[r][x], at)
<1>a. /\ Laid(G, R, C, {}) /\ at \in 1..(C + 1) /\ r \in 1..R
      /\ X = Starts(G, r, C) /\ D = InsColGrid(G, R, C, at)
      /\ Y = {IF c < at THEN c ELSE c + 1 : c \in X}
      /\ Z = Starts(D, r, C + 1)
      /\ h = [c \in X |-> IF c < at THEN c ELSE c + 1]
  BY DEF InsColMove
<1>1. C \in Nat /\ at \in Int /\ 1 <= at /\ at <= C + 1
  BY <1>a DEF Laid
<1>2. \A c \in X : c \in 1..C /\ c \in Int /\ G[r][c].row = r /\ G[r][c].col = c
  BY <1>a, <1>1 DEF Starts
<1>3. \A c \in 1..(C + 1) :
        D[r][c] = IF c < at THEN InsColCell(G[r][c], at)
                  ELSE IF c > at THEN InsColCell(G[r][c - 1], at)
                  ELSE IF at \in 2..C /\ G[r][at].col < at THEN InsColCell(G[r][at], at)
                  ELSE [row |-> r, col |-> at, cell |-> BlankCell]
  BY <1>a DEF InsColGrid
<1>4. \A c \in X : h[c] = (IF c < at THEN c ELSE c + 1) /\ h[c] \in Int /\ h[c] \in 1..(C + 1)
  <2>1. \A c \in X : h[c] = (IF c < at THEN c ELSE c + 1)
    BY <1>a
  <2> QED BY <1>1, <1>2, <2>1
<1>5. X \in SUBSET Int /\ Y \in SUBSET Int /\ h \in [X -> Y] /\ \A y \in Y : \E x \in X : h[x] = y
  <2>1. X \in SUBSET Int
    BY <1>2
  <2>2. \A y \in Y : \E x \in X : h[x] = y
    BY <1>a
  <2>3. h \in [X -> Y]
    BY <1>a
  <2>4. Y \in SUBSET Int
    BY <1>4, <2>2
  <2> QED BY <2>1, <2>2, <2>3, <2>4
<1>6. /\ \A x, y \in X : x < y => h[x] < h[y]
      /\ \A x \in X : h[x] < at <=> x < at
  BY <1>1, <1>2, <1>4
<1>7. at \notin Y
  BY <1>1, <1>2, <1>4, <1>5
<1>8. ASSUME NEW x \in X
      PROVE  D[r][h[x]] = InsColCell(G[r][x], at)
  <2>1. x \in Int /\ h[x] \in Int /\ h[x] \in 1..(C + 1) /\ h[x] = (IF x < at THEN x ELSE x + 1)
    BY <1>2, <1>4
  <2>2. CASE x < at
    <3>1. h[x] = x /\ h[x] < at
      BY <2>1, <2>2
    <3> QED BY <1>3, <2>1, <3>1
  <2>3. CASE ~(x < at)
    <3>1. ~(h[x] < at) /\ h[x] > at /\ h[x] - 1 = x
      BY <1>1, <2>1, <2>3
    <3> QED BY <1>3, <2>1, <3>1
  <2> QED BY <2>2, <2>3
<1>9. ASSUME NEW y \in Y
      PROVE  y \in Z
  <2>1. PICK x \in X : h[x] = y
    BY <1>5
  <2>2. D[r][y] = InsColCell(G[r][x], at) /\ y \in 1..(C + 1) /\ y = (IF x < at THEN x ELSE x + 1)
    BY <1>4, <1>8, <2>1
  <2>3. D[r][y].row = r /\ D[r][y].col = y
    BY <1>2, <2>2 DEF InsColCell
  <2> QED BY <1>a, <2>2, <2>3 DEF Starts
<1>10. ASSUME ~(at \in 2..C /\ G[r][at].col < at)
       PROVE  at \in Z
  <2>1. D[r][at] = [row |-> r, col |-> at, cell |-> BlankCell]
    BY <1>1, <1>3, <1>10
  <2>2. D[r][at].row = r /\ D[r][at].col = at /\ at \in 1..(C + 1)
    BY <1>a, <2>1
  <2> QED BY <1>a, <2>2 DEF Starts
<1>11. ASSUME NEW z \in Z, z # at \/ (at \in 2..C /\ G[r][at].col < at)
       PROVE  z \in Y
  <2> DEFINE k == IF z > at THEN z - 1 ELSE z
             g == G[r][k]
             c == g.col
  <2>1. z \in 1..(C + 1) /\ z \in Int /\ D[r][z].row = r /\ D[r][z].col = z
    BY <1>a, <1>1 DEF Starts
  <2>2. D[r][z] = InsColCell(g, at)
    <3>1. CASE z < at
      BY <1>1, <1>3, <2>1, <3>1
    <3>2. CASE z = at
      BY <1>1, <1>3, <1>11, <2>1, <3>2
    <3>3. CASE z > at
      BY <1>1, <1>3, <2>1, <3>3
    <3> QED BY <1>1, <2>1, <3>1, <3>2, <3>3
  <2>3. k \in 1..C
    BY <1>1, <1>11, <2>1
  <2> HIDE DEF k
  <2>4. g.row = r /\ z = (IF c < at THEN c ELSE c + 1)
    BY <2>1, <2>2 DEF InsColCell
  <2>5. Box(G, R, C, r, k)
    BY <1>a, <2>3, Boxed
  <2>6. c \in Int /\ 1 <= c /\ c <= k /\ k <= C /\ r < g.row + g.cell.rowSpan /\ r \in Int /\ c < c + g.cell.colSpan
    BY <2>5 DEF Box
  <2>7. Within(g, r, c)
    BY <2>4, <2>6 DEF Within
  <2>8. G[r][c] = g /\ c \in 1..C
    BY <2>5, <2>7, BoxAll
  <2> HIDE DEF g
  <2>9. c \in X
    BY <1>a, <2>4, <2>8 DEF Starts
  <2> QED BY <1>a, <2>4, <2>9
<1>12. Z = Y \union (IF at \in 2..C /\ G[r][at].col < at THEN {} ELSE {at})
  <2>1. CASE at \in 2..C /\ G[r][at].col < at
    BY <1>9, <1>11, <2>1
  <2>2. CASE ~(at \in 2..C /\ G[r][at].col < at)
    BY <1>9, <1>10, <1>11, <2>2
  <2> QED BY <2>1, <2>2
<1> QED BY <1>4, <1>5, <1>6, <1>7, <1>8, <1>12

ShallowIn(t, at) ==
    at \in 2..t.colsNum => \A r \in 1..t.rowsNum : t.index[<<r, at>>].row # r => t.index[<<r, at>>].col # at

\* What WithNewCell does to a row of a tiled table.
LEMMA NewCellIs ==
  ASSUME NEW t, NEW at \in Int, t.colsNum \in Nat \ {0}, 1 <= at, NEW r, NEW row \in Seq(Cell)
  PROVE  /\ at = 1 => Inserted(WithNewCell(t, at, row, r), row, 1, BlankCell)
         /\ at > t.colsNum => Inserted(WithNewCell(t, at, row, r), row, Len(row) + 1, BlankCell)
         /\ at \in 2..t.colsNum /\ t.index[<<r, at>>].col \in Int /\ t.index[<<r, at>>].col < at
              => WithNewCell(t, at, row, r) = row
         /\ at \in 2..t.colsNum /\ t.index[<<r, at>>].col = at /\ t.index[<<r, at>>].cell \in 1..Len(row)
              => Inserted(WithNewCell(t, at, row, r), row, t.index[<<r, at>>].cell, BlankCell)
<1>1. BlankCell \in Cell
  BY BlankIs
<1>2. ASSUME at = 1
      PROVE  Inserted(WithNewCell(t, at, row, r), row, 1, BlankCell)
  <2>1. ~(at > t.colsNum) /\ ~(at \in 2..t.colsNum)
    BY <1>2
  <2>2. WithNewCell(t, at, row, r) = <<BlankCell>> \o row
    BY <1>2, <2>1 DEF WithNewCell
  <2> QED BY <1>1, <2>2, PrependIs
<1>3. ASSUME at > t.colsNum
      PROVE  Inserted(WithNewCell(t, at, row, r), row, Len(row) + 1, BlankCell)
  <2>1. ~(at = 1) /\ ~(at \in 2..t.colsNum)
    BY <1>3
  <2>2. WithNewCell(t, at, row, r) = Append(row, BlankCell)
    BY <1>3, <2>1 DEF WithNewCell
  <2> QED BY <1>1, <2>2, AppendIs
<1>4. ASSUME at \in 2..t.colsNum, t.index[<<r, at>>].col \in Int, t.index[<<r, at>>].col < at
      PROVE  WithNewCell(t, at, row, r) = row
  <2>1. ~(at = 1) /\ ~(at > t.colsNum)
    BY <1>4
  <2>2. ASSUME NEW info, info = t.index[<<r, at>>], NEW x, info.col < at
        PROVE  (CASE at = 1 -> <<BlankCell>> \o row
                  [] at > t.colsNum -> Append(row, BlankCell)
                  [] at \in 2..t.colsNum /\ info.col < at -> row
                  [] at \in 2..t.colsNum /\ info.col >= at -> x) = row
    <3>1. ~(info.col >= at)
      BY <1>4, <2>2
    <3> QED BY <1>4, <2>1, <2>2, <3>1
  <2> QED BY <1>4, <2>2 DEF WithNewCell
<1>5. ASSUME at \in 2..t.colsNum, t.index[<<r, at>>].col = at, t.index[<<r, at>>].cell \in 1..Len(row)
      PROVE  Inserted(WithNewCell(t, at, row, r), row, t.index[<<r, at>>].cell, BlankCell)
  <2> DEFINE m == t.index[<<r, at>>].cell
  <2>1. ~(at = 1) /\ ~(at > t.colsNum) /\ ~(t.index[<<r, at>>].col < at) /\ t.index[<<r, at>>].col >= at
    BY <1>5
  <2>2. m \in 1..(Len(row) + 1) /\ m <= Len(row)
    <3>1. Len(row) \in Nat
      BY LenProperties
    <3> QED BY <1>5, <3>1
  <2>3. WithNewCell(t, at, row, r) = InsertAt(row, m, BlankCell)
    BY <1>5, <2>1, <2>2 DEF WithNewCell
  <2> HIDE DEF m
  <2>4. Inserted(InsertAt(row, m, BlankCell), row, m, BlankCell)
    BY <1>1, <2>2, InsertAtIs
  <2> QED BY <2>3, <2>4 DEF m
<1> QED BY <1>2, <1>3, <1>4, <1>5

\* insertCol throws or makes rows that lay the grid with the column.
LEMMA InsColLays ==
  ASSUME NEW t, Tiled(t), NEW R, NEW C, NEW G, NEW K, TableOf(t, R, C, G, K), C # 0,
         \A r \in 1..R : \A i \in 1..Len(t.rows[r]) : Stands(t, R, C, G, K, r, i),
         \A r \in 1..R, c \in 1..C : Agrees(t, G, K, r, c),
         NEW at \in 1..(C + 1), ShallowIn(t, at)
  PROVE  \/ insertCol(t, at).state = "thrown"
         \/ \E rows : insertCol(t, at) = update(rows) /\ Lays(rows, C + 1, {}, InsColGrid(G, R, C, at)) /\ Len(rows) = R
<1> DEFINE D == InsColGrid(G, R, C, at)
           reached(r) == at \in 2..t.colsNum /\ t.index[<<r, at>>].col < at
           Stops(r) == \/ at > t.colsNum /\ t.rows[r] = <<>>
                       \/ r = 1 /\ reached(1) /\ Len(t.rows[1]) = 1
           stop == {r \in 1..t.rowsNum : Stops(r)}
           done == IF stop = {} THEN 1..t.rowsNum
                   ELSE {r \in 1..t.rowsNum : r < Min(stop) \/ (r = Min(stop) /\ reached(r))}
           grown == {<<t.index[<<r, at>>].row, t.index[<<r, at>>].cell>> : r \in {x \in done : reached(x)}}
           wider == [r \in DOMAIN t.rows |-> [i \in DOMAIN t.rows[r] |->
                        IF <<r, i>> \in grown THEN [t.rows[r][i] EXCEPT !.colSpan = @ + 1]
                                              ELSE t.rows[r][i]]]
           rows == [r \in DOMAIN wider |-> IF r \in done THEN WithNewCell(t, at, wider[r], r) ELSE wider[r]]
<1>1. /\ R \in Nat \ {0} /\ C \in Nat /\ t.rowsNum = R /\ t.colsNum = C
      /\ t.rows \in Seq(Seq(Cell)) /\ Len(t.rows) = R /\ DOMAIN t.rows = 1..R
      /\ Laid(G, R, C, {})
      /\ \A r \in 1..R : Line(t.rows[r], K[r], Starts(G, r, C), CellsOf(G, r, C))
  BY DEF TableOf
<1>2. insertCol(t, at) = IF stop = {} THEN update(rows) ELSE Throw(t, rows)
  BY DEF insertCol
<1>3. CASE stop # {}
  <2> HIDE DEF stop, rows
  <2>1. insertCol(t, at) = Throw(t, rows)
    BY <1>2, <1>3
  <2>2. {"state"} \subseteq DOMAIN t \/ TRUE
    OBVIOUS
  <2>3. Throw(t, rows).state = "thrown"
    BY DEF Throw
  <2> QED BY <2>1, <2>3
<1>4. CASE stop = {}
  <2>1. done = 1..R
    BY <1>1, <1>4
  <2>2. /\ wider = [r \in DOMAIN t.rows |-> wider[r]]
        /\ \A r \in DOMAIN t.rows : wider[r] = [i \in DOMAIN t.rows[r] |-> wider[r][i]]
        /\ \A r \in DOMAIN t.rows : \A i \in DOMAIN t.rows[r] :
             wider[r][i] = IF <<r, i>> \in grown THEN [t.rows[r][i] EXCEPT !.colSpan = @ + 1] ELSE t.rows[r][i]
    OBVIOUS
  <2>3. rows = [r \in 1..R |-> WithNewCell(t, at, wider[r], r)]
    <3>1. DOMAIN wider = 1..R
      BY <1>1
    <3> HIDE DEF wider, done
    <3> QED BY <2>1, <3>1
  <2>4. insertCol(t, at) = update(rows)
    BY <1>2, <1>4
  <2>5. \A a, b : <<a, b>> \in grown
                 <=> \E x \in 1..R : reached(x) /\ t.index[<<x, at>>].row = a /\ t.index[<<x, at>>].cell = b
    <3>1. grown = {<<t.index[<<r, at>>].row, t.index[<<r, at>>].cell>> : r \in {x \in 1..R : reached(x)}}
      BY <2>1
    <3> HIDE DEF done, grown
    <3>2. ASSUME NEW a, NEW b
          PROVE  <<a, b>> \in grown
                 <=> \E x \in 1..R : reached(x) /\ t.index[<<x, at>>].row = a /\ t.index[<<x, at>>].cell = b
      BY <3>1, Zenon
    <3> QED BY <3>2
  <2> HIDE DEF stop, done, rows, wider, grown
  <2>6. ASSUME NEW r \in 1..R, NEW i \in 1..Len(t.rows[r])
        PROVE  <<r, i>> \in grown <=> K[r][i] < at /\ at < K[r][i] + t.rows[r][i].colSpan
    <3> DEFINE c == K[r][i]
    <3>1. Stands(t, R, C, G, K, r, i)
      OBVIOUS
    <3>2. c \in 1..C /\ G[r][c].row = r /\ G[r][c].col = c /\ t.rows[r][i] = G[r][c].cell
          /\ \A x \in 1..R, y \in 1..C :
               (t.index[<<x, y>>].row = r /\ t.index[<<x, y>>].cell = i) <=> G[x][y] = G[r][c]
      BY <3>1 DEF Stands
    <3>3. <<r, i>> \in grown <=> \E x \in 1..R : reached(x) /\ t.index[<<x, at>>].row = r /\ t.index[<<x, at>>].cell = i
      BY <2>5
    <3>4. Box(G, R, C, r, c)
      BY <1>1, <3>2, Boxed
    <3> HIDE DEF c
    <3>5. c \in Int /\ c + t.rows[r][i].colSpan <= C + 1 /\ t.rows[r][i].colSpan \in Int /\ 1 <= c
      BY <3>2, <3>4 DEF Box
    <3>6. CASE at \in 2..C
      <4>1. /\ (\E x \in 1..R : t.index[<<x, at>>].row = r /\ t.index[<<x, at>>].cell = i)
                 <=> (c <= at /\ at < c + t.rows[r][i].colSpan)
        <5>1. at \in 1..C
          BY <1>1, <3>6
        <5> QED BY <3>1, <5>1, InColumn DEF c
      <4>2. ASSUME NEW x \in 1..R, t.index[<<x, at>>].row = r, t.index[<<x, at>>].cell = i
            PROVE  reached(x) <=> c < at
        <5>1. at \in 1..C
          BY <1>1, <3>6
        <5>2. Agrees(t, G, K, x, at) /\ G[x][at] = G[r][c]
          BY <3>2, <4>2, <5>1
        <5>3. t.index[<<x, at>>].col = c
          BY <3>2, <5>2 DEF Agrees
        <5> QED BY <1>1, <3>6, <5>3
      <4>3. at \in Int /\ (c < at => c <= at)
        BY <3>5, <3>6
      <4>4. ASSUME <<r, i>> \in grown
            PROVE  c < at /\ at < c + t.rows[r][i].colSpan
        <5>1. PICK x \in 1..R : reached(x) /\ t.index[<<x, at>>].row = r /\ t.index[<<x, at>>].cell = i
          BY <3>3, <4>4
        <5> QED BY <4>1, <4>2, <5>1
      <4>5. ASSUME c < at, at < c + t.rows[r][i].colSpan
            PROVE  <<r, i>> \in grown
        <5>1. PICK x \in 1..R : t.index[<<x, at>>].row = r /\ t.index[<<x, at>>].cell = i
          BY <4>1, <4>3, <4>5
        <5>2. reached(x)
          BY <4>2, <4>5, <5>1
        <5> QED BY <3>3, <5>1, <5>2
      <4> QED BY <4>4, <4>5 DEF c
    <3>7. CASE ~(at \in 2..C)
      <4>1. \A x \in 1..R : ~reached(x)
        BY <1>1, <3>7
      <4>2. ~(c < at /\ at < c + t.rows[r][i].colSpan)
        BY <1>1, <3>5, <3>7
      <4> HIDE DEF reached
      <4> QED BY <3>3, <4>1, <4>2 DEF c
    <3> QED BY <3>6, <3>7
  <2>7. \A r \in DOMAIN t.rows : \A i \in DOMAIN t.rows[r] : wider[r][i] \in Cell
    <3>1. ASSUME NEW r \in 1..R, NEW i \in DOMAIN t.rows[r]
          PROVE  wider[r][i] \in Cell
      <4>1. t.rows[r][i] \in Cell
        BY <1>1, RowsTyped
      <4>2. wider[r][i] = IF <<r, i>> \in grown THEN [t.rows[r][i] EXCEPT !.colSpan = @ + 1] ELSE t.rows[r][i]
        BY <1>1, <2>2
      <4> QED BY <4>1, <4>2 DEF Cell
    <3> QED BY <1>1, <3>1
  <2>8. \A r \in 1..Len(t.rows) : wider[r] \in Seq(Cell) /\ Len(wider[r]) = Len(t.rows[r]) /\ DOMAIN wider[r] = 1..Len(t.rows[r])
    BY <1>1, <2>2, <2>7, RowsChanged
  <2>9. Laid(D, R, C + 1, {}) /\ C + 1 \in Nat
    BY <1>1, InsColLaid
  <2>10. ASSUME NEW r \in 1..R
         PROVE  Lined(rows[r], Starts(D, r, C + 1), CellsOf(D, r, C + 1))
    <3> DEFINE X == Starts(G, r, C)
               Y == {IF c < at THEN c ELSE c + 1 : c \in X}
               Z == Starts(D, r, C + 1)
               h == [c \in X |-> IF c < at THEN c ELSE c + 1]
               S == wider[r]
               f == CellsOf(D, r, C + 1)
               over == at \in 2..C /\ G[r][at].col < at
    <3>1. /\ X \in SUBSET Int /\ Y \in SUBSET Int /\ h \in [X -> Y]
          /\ \A x, y \in X : x < y => h[x] < h[y]
          /\ \A y \in Y : \E x \in X : h[x] = y
          /\ at \notin Y /\ \A x \in X : h[x] < at <=> x < at
          /\ Z = Y \union (IF over THEN {} ELSE {at})
          /\ \A x \in X : h[x] \in 1..(C + 1) /\ D[r][h[x]] = InsColCell(G[r][x], at)
      <4>1. /\ X = Starts(G, r, C) /\ D = InsColGrid(G, R, C, at) /\ Y = {IF c < at THEN c ELSE c + 1 : c \in X}
            /\ Z = Starts(D, r, C + 1) /\ h = [c \in X |-> IF c < at THEN c ELSE c + 1]
        OBVIOUS
      <4> HIDE DEF X, Y, Z, h, D
      <4>2. InsColMove(G, R, C, at, r, X, D, Y, Z, h)
        BY <1>1, <4>1 DEF InsColMove
      <4> QED BY <4>2, InsColStarts
    <3>2. \A i \in 1..Len(t.rows[r]) : K[r][i] \in X /\ t.rows[r][i] = G[r][K[r][i]].cell /\ G[r][K[r][i]].col = K[r][i]
      <4>1. ASSUME NEW i \in 1..Len(t.rows[r])
            PROVE  K[r][i] \in X /\ t.rows[r][i] = G[r][K[r][i]].cell /\ G[r][K[r][i]].col = K[r][i]
        <5>1. Stands(t, R, C, G, K, r, i)
          OBVIOUS
        <5> QED BY <5>1 DEF Stands
      <4> QED BY <4>1
    <3>3. Line(t.rows[r], K[r], X, CellsOf(G, r, C))
      BY <1>1
    <3>4. S \in Seq(Cell) /\ Len(S) = Len(t.rows[r]) /\ DOMAIN S = 1..Len(t.rows[r])
      BY <1>1, <2>8
    <3>5. \A i \in 1..Len(t.rows[r]) : S[i] = f[h[K[r][i]]]
      <4>1. ASSUME NEW i \in 1..Len(t.rows[r])
            PROVE  S[i] = f[h[K[r][i]]]
        <5> DEFINE c == K[r][i]
        <5>1. c \in X /\ t.rows[r][i] = G[r][c].cell /\ G[r][c].col = c
          BY <3>2
        <5>2. h[c] \in 1..(C + 1) /\ D[r][h[c]] = InsColCell(G[r][c], at)
          BY <3>1, <5>1
        <5>3. InsColCell(G[r][c], at).cell = IF c < at /\ at < c + t.rows[r][i].colSpan
                THEN [t.rows[r][i] EXCEPT !.colSpan = @ + 1] ELSE t.rows[r][i]
          BY <5>1 DEF InsColCell
        <5>4. <<r, i>> \in grown <=> c < at /\ at < c + t.rows[r][i].colSpan
          BY <2>6
        <5>5. r \in DOMAIN t.rows /\ i \in DOMAIN t.rows[r]
          BY <1>1, RowsTyped
        <5>6. S[i] = IF <<r, i>> \in grown THEN [t.rows[r][i] EXCEPT !.colSpan = @ + 1] ELSE t.rows[r][i]
          BY <2>2, <5>5
        <5>7. f[h[c]] = D[r][h[c]].cell
          BY <5>2 DEF CellsOf
        <5> HIDE DEF c, f, S, D
        <5> QED BY <5>2, <5>3, <5>4, <5>6, <5>7 DEF c
      <4> QED BY <4>1
    <3> HIDE DEF X, Y, Z, h, S, f
    <3>6. Moves(t.rows[r], K[r], X, CellsOf(G, r, C), Y, h, S, f)
      BY <3>1, <3>3, <3>4, <3>5 DEF Moves
    <3>7. rows[r] = WithNewCell(t, at, S, r)
      BY <2>3 DEF S
    <3>8. at \in 2..C => t.index[<<r, at>>].col = G[r][at].col
      <4>1. at \in 2..C => at \in 1..C /\ Agrees(t, G, K, r, at)
        OBVIOUS
      <4> QED BY <4>1 DEF Agrees
    <3>9. CASE over
      <4>1. rows[r] = S
        <5>0. at \in 1..C
          BY <1>1, <3>9
        <5>9. Box(G, R, C, r, at)
          BY <1>1, <5>0, Boxed
        <5>8. G[r][at].col \in Int
          BY <5>9 DEF Box
        <5>1. at \in 2..t.colsNum /\ t.index[<<r, at>>].col < at /\ t.colsNum \in Nat \ {0} /\ at \in Int /\ 1 <= at
              /\ t.index[<<r, at>>].col \in Int
          BY <1>1, <3>8, <3>9, <5>8
        <5> QED BY <3>4, <3>7, <5>1, NewCellIs
      <4>2. Z = Y
        BY <3>1, <3>9
      <4>3. Lined(S, Y, f)
        BY <3>6, LineMoved
      <4> QED BY <4>1, <4>2, <4>3 DEF Z, f
    <3>10. CASE ~over
      <4>1. PICK b : Line(S, b, Y, f) /\ \A i \in 1..Len(t.rows[r]) : b[i] = h[K[r][i]]
        BY <3>6, LineMovedTo
      <4>2. \A i \in 1..Len(S) : b[i] < at <=> K[r][i] < at
        BY <3>1, <3>2, <3>4, <4>1
      <4>3. \E m : /\ m \in 1..(Len(S) + 1) /\ \A i \in 1..Len(S) : i < m <=> K[r][i] < at
                   /\ Inserted(rows[r], S, m, BlankCell)
        <5>1. t.colsNum \in Nat \ {0} /\ at \in Int /\ 1 <= at
          BY <1>1
        <5>2. Len(S) \in Nat
          BY <3>4, LenProperties
        <5>3. \A i \in 1..Len(S) : K[r][i] \in Int /\ K[r][i] \in 1..C
          <6>1. \A c \in X : c \in Int /\ c \in 1..C
            BY <1>1 DEF X, Starts
          <6> QED BY <3>2, <3>4, <6>1
        <5>4. CASE at = 1
          <6>1. Inserted(rows[r], S, 1, BlankCell)
            BY <3>4, <3>7, <5>1, <5>4, NewCellIs
          <6>2. 1 \in 1..(Len(S) + 1) /\ \A i \in 1..Len(S) : i < 1 <=> K[r][i] < at
            BY <5>2, <5>3, <5>4
          <6> QED BY <6>1, <6>2
        <5>5. CASE at > C
          <6>0. at > t.colsNum
            BY <1>1, <5>5
          <6>1. Inserted(rows[r], S, Len(S) + 1, BlankCell)
            BY <3>4, <3>7, <5>1, <6>0, NewCellIs
          <6>2. Len(S) + 1 \in 1..(Len(S) + 1) /\ \A i \in 1..Len(S) : i < Len(S) + 1 <=> K[r][i] < at
            BY <1>1, <5>2, <5>3, <5>5
          <6> QED BY <6>1, <6>2
        <5>6. CASE at \in 2..C
          <6> DEFINE j == t.index[<<r, at>>]
                     m == j.cell
          <6>1. at \in 1..C /\ Agrees(t, G, K, r, at)
            BY <5>6
          <6>2. Box(G, R, C, r, at)
            BY <1>1, <6>1, Boxed
          <6>3. j.col = at
            BY <3>8, <3>10, <5>6, <6>2 DEF Box
          <6>4. j.row = r
            BY <1>1, <5>6, <6>3 DEF ShallowIn
          <6>5. m \in 1..Len(t.rows[r]) /\ K[r][m] = at
            BY <6>1, <6>3, <6>4 DEF Agrees
          <6>10. at \in 2..t.colsNum /\ m \in 1..Len(S)
            BY <1>1, <3>4, <5>6, <6>5
          <6>6. Inserted(rows[r], S, m, BlankCell)
            BY <6>10, <3>4, <3>7, <5>1, <5>6, <6>3, <6>5, NewCellIs
          <6>7. \A i, k \in 1..Len(t.rows[r]) : K[r][i] < K[r][k] <=> i < k
            <7>1. X \in SUBSET Int
              BY <3>1
            <7> QED BY <3>3, <7>1, LineFacts
          <6> HIDE DEF m
          <6>8. \A i \in 1..Len(S) : i < m <=> K[r][i] < at
            BY <3>4, <6>5, <6>7
          <6>9. m \in 1..(Len(S) + 1)
            BY <3>4, <5>2, <6>5
          <6> QED BY <6>6, <6>8, <6>9
        <5>7. at = 1 \/ at > C \/ at \in 2..C
          BY <1>1
        <5> QED BY <5>4, <5>5, <5>6, <5>7
      <4>4. PICK m : /\ m \in 1..(Len(S) + 1) /\ \A i \in 1..Len(S) : i < m <=> K[r][i] < at
                     /\ Inserted(rows[r], S, m, BlankCell)
        BY <4>3
      <4>5. f[at] = BlankCell
        <5>1. at \in 1..(C + 1) /\ at \in Int
          BY <1>1
        <5>2. D[r][at] = [row |-> r, col |-> at, cell |-> BlankCell]
          BY <3>10, <5>1 DEF InsColGrid
        <5> HIDE DEF D
        <5> QED BY <5>1, <5>2 DEF f, CellsOf
      <4> DEFINE v == rows[r]
      <4> HIDE DEF v
      <4>6. Gains(S, b, Y, f, at, m, BlankCell, v, f)
        BY <1>1, <3>1, <4>1, <4>2, <4>4, <4>5 DEF Gains, v
      <4>7. Lined(v, Y \union {at}, f)
        BY <4>6, LineGains
      <4>8. Z = Y \union {at}
        BY <3>1, <3>10
      <4> QED BY <4>7, <4>8 DEF Z, f, v
    <3> QED BY <3>9, <3>10
  <2>11. rows = [r \in 1..R |-> rows[r]]
    BY <2>3
  <2> HIDE DEF D
  <2>12. Lays(rows, C + 1, {}, D) /\ Len(rows) = R
    BY <1>1, <2>9, <2>10, <2>11, LaysFrom
  <2> QED BY <2>4, <2>12 DEF D
<1> QED BY <1>3, <1>4

\* A column put in where no cells of several rows begin stops half way, or
\* leaves a tiled table and every position its contents.
LEMMA InsColKeeps ==
  ASSUME NEW t, Tiled(t), t.rowsNum > 0, t.colsNum > 0, NEW at \in 1..(t.colsNum + 1), ShallowIn(t, at)
  PROVE  \/ insertCol(t, at).state = "thrown"
         \/ /\ Tiled(insertCol(t, at)) /\ insertCol(t, at).state = "ready"
            /\ \A r \in 1..t.rowsNum, c \in 1..t.colsNum :
                 TextAt(insertCol(t, at), <<r, Shift(c, at, 1)>>) = TextAt(t, <<r, c>>)
<1> DEFINE R == t.rowsNum
           C == t.colsNum
           G == GridOf(t)
           K == ColumnsOf(t)
           D == InsColGrid(G, R, C, at)
           u == insertCol(t, at)
<1>1. /\ TableOf(t, R, C, G, K)
      /\ \A r \in 1..R, c \in 1..C : Agrees(t, G, K, r, c)
      /\ \A r \in 1..R : \A i \in 1..Len(t.rows[r]) : Stands(t, R, C, G, K, r, i)
  BY TableOfTiled
<1> HIDE DEF G, K
<1>2. SUFFICES ASSUME u.state # "thrown"
               PROVE  /\ Tiled(u) /\ u.state = "ready"
                      /\ \A r \in 1..R, c \in 1..C : TextAt(u, <<r, Shift(c, at, 1)>>) = TextAt(t, <<r, c>>)
  OBVIOUS
<1>3. PICK rows : insertCol(t, at) = update(rows) /\ Lays(rows, C + 1, {}, D) /\ Len(rows) = R
  <2>1. C # 0
    BY <1>1 DEF TableOf
  <2> QED BY <1>1, <1>2, <2>1, InsColLays
<1>4. LooksLike(u, rows, C + 1, D)
  BY <1>3, UpdateLays
<1>5. Tiled(u) /\ u.state = "ready"
  BY <1>4 DEF LooksLike
<1>6. C \in Nat /\ at \in Int /\ 1 <= at /\ at <= C + 1 /\ Laid(G, R, C, {})
  BY <1>1 DEF TableOf
<1> HIDE DEF u
<1>7. ASSUME NEW r \in 1..R, NEW c \in 1..C
      PROVE  TextAt(u, <<r, Shift(c, at, 1)>>) = TextAt(t, <<r, c>>)
  <2> DEFINE d == Shift(c, at, 1)
  <2>1. d \in 1..(C + 1) /\ d = (IF c < at THEN c ELSE c + 1) /\ d # at
    BY <1>6 DEF Shift
  <2> HIDE DEF d
  <2>2. TextAt(u, <<r, d>>) = D[r][d].cell.text
    BY <1>3, <1>4, <2>1, TextLike
  <2>3. D[r][d] = InsColCell(G[r][c], at)
    <3>1. D[r][d] = IF d < at THEN InsColCell(G[r][d], at)
                    ELSE IF d > at THEN InsColCell(G[r][d - 1], at)
                    ELSE IF at \in 2..C /\ G[r][at].col < at THEN InsColCell(G[r][at], at)
                    ELSE [row |-> r, col |-> at, cell |-> BlankCell]
      BY <2>1 DEF InsColGrid
    <3>2. CASE c < at
      BY <1>6, <2>1, <3>1, <3>2
    <3>3. CASE ~(c < at)
      <4>1. d = c + 1 /\ d > at /\ ~(d < at) /\ d - 1 = c
        BY <1>6, <2>1, <3>3
      <4> QED BY <3>1, <4>1
    <3> QED BY <3>2, <3>3
  <2>4. TextAt(t, <<r, c>>) = G[r][c].cell.text
    BY <1>1, TextIn
  <2>5. InsColCell(G[r][c], at).cell.text = G[r][c].cell.text
    <3>1. G[r][c].cell \in Cell
      BY <1>6, Boxed DEF Box
    <3> QED BY <3>1 DEF InsColCell, Cell
  <2> QED BY <2>2, <2>3, <2>4, <2>5 DEF d
<1> QED BY <1>5, <1>7 DEF u

-----------------------------------------------------------------------------
(* A row is put in.                                                        *)

InsRowCell(g, at) ==
    [row |-> IF g.row < at THEN g.row ELSE g.row + 1, col |-> g.col,
     cell |-> IF g.row < at /\ at < g.row + g.cell.rowSpan THEN [g.cell EXCEPT !.rowSpan = @ + 1] ELSE g.cell]

InsRowGrid(G, R, C, at) ==
    [r \in 1..(R + 1) |-> [c \in 1..C |->
        IF r < at THEN InsRowCell(G[r][c], at)
        ELSE IF r > at THEN InsRowCell(G[r - 1][c], at)
        ELSE IF at \in 2..R /\ G[at][c].row < at THEN InsRowCell(G[at][c], at)
        ELSE [row |-> at, col |-> c, cell |-> BlankCell]]]

\* A laid grid with one more row is laid.
LEMMA InsRowLaid ==
  ASSUME NEW R, NEW C, NEW G, Laid(G, R, C, {}), NEW at \in 1..(R + 1)
  PROVE  Laid(InsRowGrid(G, R, C, at), R + 1, C, {})
<1> DEFINE D == InsRowGrid(G, R, C, at)
           New(r, c) == r = at /\ ~(at \in 2..R /\ G[at][c].row < at)
           old(r) == IF r > at THEN r - 1 ELSE r
<1>1. C \in Nat /\ R \in Nat /\ R + 1 \in Nat \ {0} /\ at \in Int /\ 1 <= at /\ at <= R + 1 /\ R + 1 \in Nat
  BY DEF Laid
<1>2. ASSUME NEW r \in 1..(R + 1), NEW c \in 1..C
      PROVE  D[r][c] = IF New(r, c) THEN [row |-> at, col |-> c, cell |-> BlankCell]
                                    ELSE InsRowCell(G[old(r)][c], at)
  <2>1. r < at \/ r = at \/ r > at
    BY <1>1
  <2>2. D[r][c] = IF r < at THEN InsRowCell(G[r][c], at)
                  ELSE IF r > at THEN InsRowCell(G[r - 1][c], at)
                  ELSE IF at \in 2..R /\ G[at][c].row < at THEN InsRowCell(G[at][c], at)
                  ELSE [row |-> at, col |-> c, cell |-> BlankCell]
    BY DEF InsRowGrid
  <2>3. CASE r < at
    BY <1>1, <2>2, <2>3
  <2>4. CASE r = at
    BY <1>1, <2>2, <2>4
  <2>5. CASE r > at
    BY <1>1, <2>2, <2>5
  <2> QED BY <2>1, <2>3, <2>4, <2>5
<1> HIDE DEF D
<1>3. ASSUME NEW r \in 1..(R + 1), NEW c \in 1..C
      PROVE  Box(D, R + 1, C, r, c)
  <2>1. CASE New(r, c)
    <3> DEFINE d == D[r][c]
    <3>1. d = [row |-> at, col |-> c, cell |-> BlankCell] /\ r = at
      BY <1>2, <2>1
    <3>2. d.col = c /\ d.row = at /\ d.cell = BlankCell /\ d = [row |-> d.row, col |-> d.col, cell |-> d.cell]
      BY <3>1
    <3> HIDE DEF d
    <3>3. d.cell \in Cell /\ d.cell.colSpan = 1 /\ d.cell.rowSpan = 1
      BY <3>2, BlankIs
    <3>4. ASSUME NEW x, NEW y, Within(d, x, y)
          PROVE  y = c /\ x = r
      BY <1>1, <3>1, <3>2, <3>3, <3>4 DEF Within
    <3>5. \A x, y : Within(d, x, y) => y \in 1..C /\ x \in 1..(R + 1) /\ D[x][y] = d
      BY <3>4 DEF d
    <3>6. c \in Int /\ r \in Int /\ C \in Int /\ R + 1 \in Int /\ 1 <= c /\ c <= C /\ 1 <= r /\ r <= R + 1
      BY <1>1
    <3> QED BY <1>1, <3>1, <3>2, <3>3, <3>5, <3>6 DEF Box, d
  <2>2. CASE ~New(r, c)
    <3> DEFINE k == old(r)
               g == G[k][c]
               d == D[r][c]
               w == g.cell.rowSpan
               over == g.row < at /\ at < g.row + w
    <3>1. d = InsRowCell(g, at)
      BY <1>2, <2>2
    <3>2. k \in 1..R /\ k = (IF r > at THEN r - 1 ELSE r) /\ (r = at => at \in 2..R /\ g.row < at)
      BY <1>1, <2>2
    <3>3. Box(G, R, C, k, c)
      BY <3>2, Boxed
    <3>4. /\ c \in Int /\ r \in Int /\ C \in Int /\ R \in Int /\ 1 <= r /\ r <= R + 1 /\ k \in Int
          /\ g.col \in Int /\ g.row \in Int /\ g.cell \in Cell
          /\ g.cell.colSpan \in Int /\ w \in Int /\ 1 <= g.cell.colSpan /\ 1 <= w
          /\ 1 <= g.col /\ g.col <= c /\ c <= C /\ c < g.col + g.cell.colSpan /\ g.col + g.cell.colSpan <= C + 1
          /\ 1 <= g.row /\ g.row <= k /\ k <= R /\ k < g.row + w /\ g.row + w <= R + 1
      BY <1>1, <3>3 DEF Box
    <3>5. \A x, y : Within(g, x, y) => y \in 1..C /\ x \in 1..R /\ G[x][y] = g
      BY <3>3, BoxAll
    <3>6. /\ d.col = g.col /\ d.row = (IF g.row < at THEN g.row ELSE g.row + 1)
          /\ d.cell = (IF over THEN [g.cell EXCEPT !.rowSpan = @ + 1] ELSE g.cell)
          /\ d = [row |-> d.row, col |-> d.col, cell |-> d.cell]
      BY <3>1 DEF InsRowCell
    <3>7. /\ d.cell \in Cell /\ d.cell.colSpan = g.cell.colSpan
          /\ d.cell.rowSpan = IF over THEN w + 1 ELSE w
      <4>1. CASE over
        <5>1. d.cell = [g.cell EXCEPT !.rowSpan = w + 1]
          BY <3>6, <4>1
        <5>2. g.cell \in Cell /\ w + 1 \in Nat \ {0}
          BY <3>4
        <5> HIDE DEF g, d, w, k
        <5>3. d.cell \in Cell /\ d.cell.rowSpan = w + 1 /\ d.cell.colSpan = g.cell.colSpan
          BY <5>1, <5>2 DEF Cell
        <5> QED BY <4>1, <5>3
      <4>2. CASE ~over
        BY <3>4, <3>6, <4>2
      <4> QED BY <4>1, <4>2
    <3> HIDE DEF g, d, w, k
    <3>8. /\ 1 <= d.row /\ d.row <= r /\ r < d.row + d.cell.rowSpan /\ d.row + d.cell.rowSpan <= (R + 1) + 1
          /\ d.row \in Int /\ d.cell.rowSpan \in Int /\ 1 <= d.cell.rowSpan
      BY <1>1, <3>2, <3>4, <3>6, <3>7
    <3>9. ASSUME NEW x, NEW y, Within(d, x, y)
          PROVE  y \in 1..C /\ x \in 1..(R + 1) /\ D[x][y] = d
      <4>0. /\ y \in Int /\ x \in Int /\ d.col <= y /\ y < d.col + d.cell.colSpan
            /\ d.row <= x /\ x < d.row + d.cell.rowSpan
        BY <3>9 DEF Within
      <4>1. x \in 1..(R + 1)
        BY <1>1, <3>8, <4>0
      <4>2. old(x) \in Int /\ g.row <= old(x) /\ old(x) < g.row + w
        BY <1>1, <3>2, <3>4, <3>6, <3>7, <3>8, <4>0
      <4>3. g.col <= y /\ y < g.col + g.cell.colSpan
        BY <3>6, <3>7, <4>0
      <4>4. Within(g, old(x), y)
        BY <4>0, <4>2, <4>3 DEF Within, w
      <4>5. y \in 1..C /\ G[old(x)][y] = g
        BY <3>5, <4>4
      <4>6. x = at => at \in 2..R /\ g.row < at /\ G[at][y] = g
        BY <1>1, <3>4, <3>6, <3>7, <3>8, <4>0, <4>5
      <4>7. ~New(x, y)
        BY <4>6
      <4>8. D[x][y] = InsRowCell(G[old(x)][y], at)
        BY <1>2, <4>1, <4>5, <4>7
      <4> QED BY <3>1, <4>1, <4>5, <4>8
    <3>10. d.col \in Int /\ 1 <= d.col /\ d.col <= c /\ c < d.col + d.cell.colSpan /\ d.col + d.cell.colSpan <= C + 1
           /\ d.cell.colSpan \in Int /\ 1 <= d.cell.colSpan /\ d.cell \in Cell
      BY <3>4, <3>6, <3>7
    <3>11. R + 1 \in Int /\ c \in Int /\ r \in Int /\ C \in Int /\ c <= C /\ r <= R + 1
      BY <1>1, <3>4
    <3> QED BY <3>6, <3>8, <3>9, <3>10, <3>11 DEF Box, d
  <2> QED BY <2>1, <2>2
<1>4. \A r \in 1..(R + 1), c \in 1..C : Box(D, R + 1, C, r, c)
  BY <1>3
<1> QED BY <1>1, <1>4, LaidFrom DEF D

\* InsertAt and RemoveAt, element by element.
LEMMA PutIn ==
  ASSUME NEW S, NEW u \in Seq(S), NEW m \in 1..(Len(u) + 1), NEW x \in S
  PROVE  /\ InsertAt(u, m, x) \in Seq(S) /\ Len(InsertAt(u, m, x)) = Len(u) + 1
         /\ \A j \in 1..(Len(u) + 1) : InsertAt(u, m, x)[j] = IF j < m THEN u[j] ELSE IF j = m THEN x ELSE u[j - 1]
<1>1. Len(u) \in Nat /\ \A i \in 1..Len(u) : u[i] \in S
  BY LenProperties
<1> DEFINE a == SubSeq(u, 1, m - 1)
           b == SubSeq(u, m, Len(u))
           one == <<x>>
           w == a \o one
           v == w \o b
<1>2. a \in Seq(S) /\ Len(a) = m - 1 /\ \A i \in 1..(m - 1) : a[i] = u[i]
  <2>1. 1 \in Int /\ m - 1 \in Int /\ \A i \in 1..(m - 1) : u[i] \in S
    BY <1>1
  <2>2. /\ a \in Seq(S)
        /\ Len(a) = IF 1 <= m - 1 THEN (m - 1) - 1 + 1 ELSE 0
        /\ \A i \in 1..((m - 1) - 1 + 1) : a[i] = u[1 + i - 1]
    BY <2>1, SubSeqProperties
  <2> HIDE DEF a
  <2> QED BY <2>2, <1>1
<1>3. b \in Seq(S) /\ Len(b) = Len(u) - m + 1 /\ \A i \in 1..(Len(u) - m + 1) : b[i] = u[m + i - 1]
  <2>1. m \in Int /\ Len(u) \in Int /\ \A i \in m..Len(u) : u[i] \in S
    BY <1>1
  <2>2. /\ b \in Seq(S)
        /\ Len(b) = IF m <= Len(u) THEN Len(u) - m + 1 ELSE 0
        /\ \A i \in 1..(Len(u) - m + 1) : b[i] = u[m + i - 1]
    BY <2>1, SubSeqProperties
  <2> HIDE DEF b
  <2> QED BY <2>2, <1>1
<1>4. one \in Seq(S) /\ Len(one) = 1 /\ one[1] = x
  OBVIOUS
<1>5. InsertAt(u, m, x) = v
  BY DEF InsertAt
<1> HIDE DEF a, b, one
<1>6. w \in Seq(S) /\ Len(w) = m /\ \A j \in 1..m : w[j] = IF j <= m - 1 THEN u[j] ELSE x
  <2>1. /\ w \in Seq(S)
        /\ Len(w) = Len(a) + Len(one)
        /\ \A j \in 1..(Len(a) + Len(one)) : w[j] = IF j <= Len(a) THEN a[j] ELSE one[j - Len(a)]
    BY <1>2, <1>4, ConcatProperties
  <2> HIDE DEF w
  <2>2. Len(a) + Len(one) = m
    BY <1>2, <1>4, <1>1
  <2>3. ASSUME NEW j \in 1..m
        PROVE  w[j] = IF j <= m - 1 THEN u[j] ELSE x
    <3>1. CASE j <= m - 1
      <4>1. j <= Len(a) /\ j \in 1..(m - 1) /\ j \in 1..(Len(a) + Len(one))
        BY <3>1, <2>2, <1>2, <1>1
      <4>2. w[j] = a[j] /\ a[j] = u[j]
        BY <4>1, <2>1, <1>2
      <4> QED BY <4>2, <3>1
    <3>2. CASE j = m
      <4>1. ~(j <= Len(a)) /\ j - Len(a) = 1 /\ ~(j <= m - 1) /\ j \in 1..(Len(a) + Len(one))
        BY <3>2, <2>2, <1>2, <1>1
      <4>2. w[j] = one[j - Len(a)]
        BY <4>1, <2>1
      <4> QED BY <4>1, <4>2, <1>4
    <3>3. j <= m - 1 \/ j = m
      BY <1>1
    <3> QED BY <3>1, <3>2, <3>3
  <2> QED BY <2>1, <2>2, <2>3
<1> HIDE DEF w
<1>7. /\ v \in Seq(S) /\ Len(v) = m + Len(b)
      /\ \A j \in 1..(m + Len(b)) : v[j] = IF j <= m THEN w[j] ELSE b[j - m]
  <2>1. /\ v \in Seq(S) /\ Len(v) = Len(w) + Len(b)
        /\ \A j \in 1..(Len(w) + Len(b)) : v[j] = IF j <= Len(w) THEN w[j] ELSE b[j - Len(w)]
    BY <1>3, <1>6, ConcatProperties
  <2> QED BY <2>1, <1>6
<1> HIDE DEF v
<1>8. Len(v) = Len(u) + 1 /\ m + Len(b) = Len(u) + 1
  BY <1>7, <1>3, <1>1
<1>9. ASSUME NEW j \in 1..(Len(u) + 1)
      PROVE  v[j] = IF j < m THEN u[j] ELSE IF j = m THEN x ELSE u[j - 1]
  <2>1. v[j] = IF j <= m THEN w[j] ELSE b[j - m]
    BY <1>7, <1>8
  <2>2. CASE j <= m
    BY <2>1, <2>2, <1>6, <1>1
  <2>3. CASE j > m
    <3>1. j - m \in 1..(Len(u) - m + 1) /\ m + (j - m) - 1 = j - 1 /\ ~(j <= m) /\ ~(j < m) /\ j # m
      BY <2>3, <1>8, <1>1
    <3>2. b[j - m] = u[j - 1]
      BY <3>1, <1>3
    <3>3. v[j] = u[j - 1]
      BY <3>1, <3>2, <2>1
    <3> QED BY <3>1, <3>3
  <2>4. j \in Int /\ m \in Int
    BY <1>8, <1>1
  <2>5. j <= m \/ j > m
    BY <2>4
  <2> QED BY <2>2, <2>3, <2>5
<1> QED BY <1>5, <1>7, <1>8, <1>9

\* RemoveAt takes one member out of a sequence.
LEMMA TakenOut ==
  ASSUME NEW S, NEW u \in Seq(S), NEW m \in 1..Len(u)
  PROVE  /\ RemoveAt(u, m) \in Seq(S) /\ Len(RemoveAt(u, m)) = Len(u) - 1
         /\ \A j \in 1..(Len(u) - 1) : RemoveAt(u, m)[j] = IF j < m THEN u[j] ELSE u[j + 1]
<1>1. Len(u) \in Nat /\ \A i \in 1..Len(u) : u[i] \in S
  BY LenProperties
<1> DEFINE a == SubSeq(u, 1, m - 1)
           b == SubSeq(u, m + 1, Len(u))
           v == a \o b
<1>2. a \in Seq(S) /\ Len(a) = m - 1 /\ \A i \in 1..(m - 1) : a[i] = u[i]
  <2>1. 1 \in Int /\ m - 1 \in Int /\ \A i \in 1..(m - 1) : u[i] \in S
    BY <1>1
  <2>2. /\ a \in Seq(S)
        /\ Len(a) = IF 1 <= m - 1 THEN (m - 1) - 1 + 1 ELSE 0
        /\ \A i \in 1..((m - 1) - 1 + 1) : a[i] = u[1 + i - 1]
    BY <2>1, SubSeqProperties
  <2> HIDE DEF a
  <2> QED BY <2>2, <1>1
<1>3. b \in Seq(S) /\ Len(b) = Len(u) - m /\ \A i \in 1..(Len(u) - m) : b[i] = u[m + i]
  <2>1. m + 1 \in Int /\ Len(u) \in Int /\ \A i \in (m + 1)..Len(u) : u[i] \in S
    BY <1>1
  <2>2. /\ b \in Seq(S)
        /\ Len(b) = IF m + 1 <= Len(u) THEN Len(u) - (m + 1) + 1 ELSE 0
        /\ \A i \in 1..(Len(u) - (m + 1) + 1) : b[i] = u[(m + 1) + i - 1]
    BY <2>1, SubSeqProperties
  <2> HIDE DEF b
  <2> QED BY <2>2, <1>1
<1>4. RemoveAt(u, m) = v
  BY DEF RemoveAt
<1> HIDE DEF a, b
<1>5. /\ v \in Seq(S) /\ Len(v) = Len(a) + Len(b)
      /\ \A j \in 1..(Len(a) + Len(b)) : v[j] = IF j <= Len(a) THEN a[j] ELSE b[j - Len(a)]
  BY <1>2, <1>3, ConcatProperties
<1> HIDE DEF v
<1>6. Len(a) + Len(b) = Len(u) - 1
  BY <1>1, <1>2, <1>3
<1>7. ASSUME NEW j \in 1..(Len(u) - 1)
      PROVE  v[j] = IF j < m THEN u[j] ELSE u[j + 1]
  <2>1. v[j] = IF j <= Len(a) THEN a[j] ELSE b[j - Len(a)]
    BY <1>5, <1>6
  <2>2. CASE j < m
    <3>1. j <= Len(a) /\ j \in 1..(m - 1)
      BY <1>1, <1>2, <2>2
    <3> QED BY <1>2, <2>1, <2>2, <3>1
  <2>3. CASE ~(j < m)
    <3>1. ~(j <= Len(a)) /\ j - Len(a) \in 1..(Len(u) - m) /\ m + (j - Len(a)) = j + 1
      BY <1>1, <1>2, <2>3
    <3> QED BY <1>3, <2>1, <2>3, <3>1
  <2> QED BY <2>2, <2>3
<1> QED BY <1>4, <1>5, <1>6, <1>7

-----------------------------------------------------------------------------
\* The starts of the rows that insertRow leaves.
InsRowMove(G, R, C, at, D) == Laid(G, R, C, {}) /\ at \in 1..(R + 1) /\ D = InsRowGrid(G, R, C, at)

\* Where the cells of another row start when a row is put in,
LEMMA InsRowOther ==
  ASSUME NEW R, NEW C, NEW G, NEW at, NEW D, InsRowMove(G, R, C, at, D),
         NEW r \in 1..R, NEW s, s = IF r < at THEN r ELSE r + 1
  PROVE  /\ s \in 1..(R + 1) /\ Starts(D, s, C) = Starts(G, r, C)
         /\ \A c \in Starts(G, r, C) : CellsOf(D, s, C)[c] = InsRowCell(G[r][c], at).cell
<1>1. Laid(G, R, C, {}) /\ at \in 1..(R + 1) /\ D = InsRowGrid(G, R, C, at)
  BY DEF InsRowMove
<1>2. C \in Nat /\ R \in Nat /\ at \in Int /\ 1 <= at /\ at <= R + 1 /\ r \in Int /\ 1 <= r /\ r <= R
  BY <1>1 DEF Laid
<1>3. s \in 1..(R + 1) /\ s \in Int /\ s # at /\ (s < at <=> r < at) /\ (s > at <=> ~(r < at))
  BY <1>2
<1>4. ASSUME NEW c \in 1..C
      PROVE  D[s][c] = InsRowCell(G[r][c], at)
  <2>1. D[s][c] = IF s < at THEN InsRowCell(G[s][c], at)
                  ELSE IF s > at THEN InsRowCell(G[s - 1][c], at)
                  ELSE IF at \in 2..R /\ G[at][c].row < at THEN InsRowCell(G[at][c], at)
                  ELSE [row |-> at, col |-> c, cell |-> BlankCell]
    BY <1>1, <1>3 DEF InsRowGrid
  <2>2. CASE r < at
    BY <1>3, <2>1, <2>2
  <2>3. CASE ~(r < at)
    <3>1. s - 1 = r /\ ~(s < at) /\ s > at
      BY <1>2, <1>3, <2>3
    <3> QED BY <2>1, <3>1
  <2> QED BY <2>2, <2>3
<1>5. ASSUME NEW c \in 1..C
      PROVE  D[s][c].row = s /\ D[s][c].col = c <=> G[r][c].row = r /\ G[r][c].col = c
  <2> DEFINE g == G[r][c]
  <2>1. Box(G, R, C, r, c)
    BY <1>1, Boxed
  <2>2. g.row \in Int /\ g.row <= r
    BY <2>1 DEF Box
  <2>3. D[s][c].row = (IF g.row < at THEN g.row ELSE g.row + 1) /\ D[s][c].col = g.col
    <3>1. D[s][c] = InsRowCell(g, at)
      BY <1>4
    <3> HIDE DEF g
    <3>2. InsRowCell(g, at).row = (IF g.row < at THEN g.row ELSE g.row + 1) /\ InsRowCell(g, at).col = g.col
      BY DEF InsRowCell
    <3> QED BY <3>1, <3>2
  <2> HIDE DEF g
  <2>4. D[s][c].row = s <=> g.row = r
    BY <1>2, <1>3, <2>2, <2>3
  <2> QED BY <2>3, <2>4 DEF g
<1>6. Starts(D, s, C) = Starts(G, r, C)
  BY <1>5 DEF Starts
<1>7. ASSUME NEW c \in Starts(G, r, C)
      PROVE  CellsOf(D, s, C)[c] = InsRowCell(G[r][c], at).cell
  <2>1. c \in 1..C
    BY DEF Starts
  <2> QED BY <1>4, <2>1 DEF CellsOf
<1> QED BY <1>3, <1>6, <1>7

\* and those of the new row.
LEMMA InsRowNew ==
  ASSUME NEW R, NEW C, NEW G, NEW at, NEW D, InsRowMove(G, R, C, at, D)
  PROVE  /\ Starts(D, at, C) = {c \in 1..C : ~(at \in 2..R /\ G[at][c].row < at)}
         /\ \A c \in Starts(D, at, C) : CellsOf(D, at, C)[c] = BlankCell
<1>1. Laid(G, R, C, {}) /\ at \in 1..(R + 1) /\ D = InsRowGrid(G, R, C, at)
  BY DEF InsRowMove
<1>2. C \in Nat /\ R \in Nat /\ at \in Int /\ 1 <= at /\ at <= R + 1
  BY <1>1 DEF Laid
<1>3. ASSUME NEW c \in 1..C
      PROVE  D[at][c] = IF at \in 2..R /\ G[at][c].row < at THEN InsRowCell(G[at][c], at)
                        ELSE [row |-> at, col |-> c, cell |-> BlankCell]
  BY <1>1, <1>2 DEF InsRowGrid
<1>4. ASSUME NEW c \in 1..C, ~(at \in 2..R /\ G[at][c].row < at)
      PROVE  D[at][c].row = at /\ D[at][c].col = c /\ D[at][c].cell = BlankCell
  <2>1. D[at][c] = [row |-> at, col |-> c, cell |-> BlankCell]
    BY <1>3, <1>4
  <2> QED BY <2>1
<1>5. ASSUME NEW c \in 1..C, at \in 2..R, G[at][c].row < at
      PROVE  D[at][c].row # at
  <2>1. D[at][c].row = G[at][c].row
    <3>1. D[at][c] = InsRowCell(G[at][c], at)
      BY <1>3, <1>5
    <3>2. InsRowCell(G[at][c], at).row = G[at][c].row
      BY <1>5 DEF InsRowCell
    <3> QED BY <3>1, <3>2
  <2>2. Box(G, R, C, at, c)
    BY <1>1, <1>5, Boxed
  <2>3. G[at][c].row \in Int
    BY <2>2 DEF Box
  <2> QED BY <1>2, <1>5, <2>1, <2>3
<1>6. Starts(D, at, C) = {c \in 1..C : ~(at \in 2..R /\ G[at][c].row < at)}
  BY <1>4, <1>5 DEF Starts
<1>7. \A c \in Starts(D, at, C) : CellsOf(D, at, C)[c] = BlankCell
  BY <1>4, <1>6 DEF CellsOf
<1> QED BY <1>6, <1>7

\* insertRow throws or makes rows that lay the grid with the row.
LEMMA InsRowLays ==
  ASSUME NEW t, Tiled(t), NEW R, NEW C, NEW G, NEW K, TableOf(t, R, C, G, K),
         \A r \in 1..R : \A i \in 1..Len(t.rows[r]) : Stands(t, R, C, G, K, r, i),
         \A r \in 1..R, c \in 1..C : Agrees(t, G, K, r, c),
         NEW at \in 1..(R + 1)
  PROVE  \/ insertRow(t, at).state = "thrown"
         \/ \E rows : /\ insertRow(t, at) = update(rows) /\ Lays(rows, C, {}, InsRowGrid(G, R, C, at))
                      /\ Len(rows) = R + 1
<1> DEFINE D == InsRowGrid(G, R, C, at)
           reaching == IF at \in 2..t.rowsNum
                       THEN {c \in 1..t.colsNum : t.index[<<at, c>>].row < at} ELSE {}
           neighbour == IF at <= t.rowsNum THEN t.rows[at] ELSE t.rows[at - 1]
           done == 1..(IF neighbour = <<>> THEN 1 ELSE t.colsNum)
           grown == {<<t.index[<<at, c>>].row, t.index[<<at, c>>].cell>> : c \in reaching \intersect done}
           taller == [r \in DOMAIN t.rows |-> [i \in DOMAIN t.rows[r] |->
                         IF <<r, i>> \in grown THEN [t.rows[r][i] EXCEPT !.rowSpan = @ + 1]
                                               ELSE t.rows[r][i]]]
           row == [k \in 1..Cardinality(done \ reaching) |-> BlankCell]
           rows == InsertAt(taller, at, row)
<1>1. /\ R \in Nat \ {0} /\ C \in Nat /\ t.rowsNum = R /\ t.colsNum = C
      /\ t.rows \in Seq(Seq(Cell)) /\ Len(t.rows) = R /\ DOMAIN t.rows = 1..R
      /\ Laid(G, R, C, {})
      /\ \A r \in 1..R : Line(t.rows[r], K[r], Starts(G, r, C), CellsOf(G, r, C))
  BY DEF TableOf
<1>2. insertRow(t, at) = IF neighbour = <<>> THEN Throw(t, rows) ELSE update(rows)
  BY DEF insertRow
<1>3. CASE neighbour = <<>>
  <2> HIDE DEF neighbour, rows
  <2>1. Throw(t, rows).state = "thrown"
    BY DEF Throw
  <2> QED BY <1>2, <1>3, <2>1
<1>4. CASE neighbour # <<>>
  <2>1. insertRow(t, at) = update(rows) /\ done = 1..C
    BY <1>1, <1>2, <1>4
  <2> HIDE DEF neighbour
  <2>2. /\ taller = [r \in DOMAIN t.rows |-> taller[r]]
        /\ \A r \in DOMAIN t.rows : taller[r] = [i \in DOMAIN t.rows[r] |-> taller[r][i]]
        /\ \A r \in DOMAIN t.rows : \A i \in DOMAIN t.rows[r] :
             taller[r][i] = IF <<r, i>> \in grown THEN [t.rows[r][i] EXCEPT !.rowSpan = @ + 1] ELSE t.rows[r][i]
    OBVIOUS
  <2>3. reaching = {c \in 1..C : at \in 2..R /\ t.index[<<at, c>>].row < at}
    BY <1>1
  <2>4. grown = {<<t.index[<<at, c>>].row, t.index[<<at, c>>].cell>> : c \in reaching}
    <3>1. reaching \intersect done = reaching
      <4> HIDE DEF reaching, done
      <4> QED BY <2>1, <2>3
    <3> QED BY <3>1
  <2>5. done \ reaching = {c \in 1..C : ~(at \in 2..R /\ t.index[<<at, c>>].row < at)}
    <3> HIDE DEF reaching, done
    <3> QED BY <2>1, <2>3
  <2>6. row = [k \in 1..Cardinality(done \ reaching) |-> BlankCell] /\ rows = InsertAt(taller, at, row)
    OBVIOUS
  <2> HIDE DEF done, reaching, grown, taller, row, rows
  <2>7. \A a, b : <<a, b>> \in grown
                  <=> \E c \in 1..C : /\ at \in 2..R /\ t.index[<<at, c>>].row < at
                                      /\ t.index[<<at, c>>].row = a /\ t.index[<<at, c>>].cell = b
    BY <2>3, <2>4, Zenon
  <2>8. ASSUME NEW r \in 1..R, NEW i \in 1..Len(t.rows[r])
        PROVE  <<r, i>> \in grown <=> r < at /\ at < r + t.rows[r][i].rowSpan
    <3>1. Stands(t, R, C, G, K, r, i)
      OBVIOUS
    <3>2. t.rows[r][i] \in Cell /\ r \in Int
      BY <3>1 DEF Stands
    <3>3. t.rows[r][i].rowSpan \in Int /\ r + t.rows[r][i].rowSpan <= R + 1
      <4>1. K[r][i] \in 1..C /\ G[r][K[r][i]].row = r /\ t.rows[r][i] = G[r][K[r][i]].cell
        BY <3>1 DEF Stands
      <4>2. Box(G, R, C, r, K[r][i])
        BY <1>1, <4>1, Boxed
      <4> QED BY <4>1, <4>2 DEF Box
    <3>4. ASSUME <<r, i>> \in grown
          PROVE  r < at /\ at < r + t.rows[r][i].rowSpan
      <4>1. PICK c \in 1..C : /\ at \in 2..R /\ t.index[<<at, c>>].row < at
                              /\ t.index[<<at, c>>].row = r /\ t.index[<<at, c>>].cell = i
        BY <2>7, <3>4
      <4>2. at \in 1..R
        BY <4>1
      <4>a. MeetsRow(t, C, r, i, at)
        BY <4>1 DEF MeetsRow
      <4>3. r <= at /\ at < r + t.rows[r][i].rowSpan
        BY <3>1, <4>2, <4>a, InRow
      <4> QED BY <4>1, <4>3
    <3>5. ASSUME r < at, at < r + t.rows[r][i].rowSpan
          PROVE  <<r, i>> \in grown
      <4>1. at \in 1..R /\ at \in 2..R /\ r <= at
        BY <1>1, <3>2, <3>3, <3>5
      <4>3. MeetsRow(t, C, r, i, at)
        BY <3>1, <3>5, <4>1, InRow
      <4>2. PICK c \in 1..C : t.index[<<at, c>>].row = r /\ t.index[<<at, c>>].cell = i
        BY <4>3 DEF MeetsRow
      <4> QED BY <2>7, <3>5, <4>1, <4>2
    <3> QED BY <3>4, <3>5
  <2>9. \A r \in DOMAIN t.rows : \A i \in DOMAIN t.rows[r] : taller[r][i] \in Cell
    <3>1. ASSUME NEW r \in 1..R, NEW i \in DOMAIN t.rows[r]
          PROVE  taller[r][i] \in Cell
      <4>1. t.rows[r][i] \in Cell
        BY <1>1, RowsTyped
      <4>2. taller[r][i] = IF <<r, i>> \in grown THEN [t.rows[r][i] EXCEPT !.rowSpan = @ + 1] ELSE t.rows[r][i]
        BY <1>1, <2>2
      <4> QED BY <4>1, <4>2 DEF Cell
    <3> QED BY <1>1, <3>1
  <2>10. /\ taller \in Seq(Seq(Cell)) /\ Len(taller) = R
         /\ \A r \in 1..R : taller[r] \in Seq(Cell) /\ Len(taller[r]) = Len(t.rows[r]) /\ DOMAIN taller[r] = 1..Len(t.rows[r])
    <3>1. /\ taller \in Seq(Seq(Cell)) /\ Len(taller) = Len(t.rows)
          /\ \A r \in 1..Len(t.rows) : taller[r] \in Seq(Cell) /\ Len(taller[r]) = Len(t.rows[r]) /\ DOMAIN taller[r] = 1..Len(t.rows[r])
      BY <1>1, <2>2, <2>9, RowsChanged
    <3> QED BY <1>1, <3>1
  <2>11. InsRowMove(G, R, C, at, D)
    BY <1>1 DEF InsRowMove
  <2>12. Laid(D, R + 1, C, {}) /\ R + 1 \in Nat \ {0}
    BY <1>1, InsRowLaid
  <2> HIDE DEF D
  <2>13. Line(row, Ascending(Starts(D, at, C)), Starts(D, at, C), CellsOf(D, at, C))
    <3> DEFINE X == Starts(D, at, C)
               f == CellsOf(D, at, C)
    <3>1. X = {c \in 1..C : ~(at \in 2..R /\ G[at][c].row < at)} /\ \A c \in X : f[c] = BlankCell
      BY <2>11, InsRowNew
    <3>2. \A c \in 1..C : at \in 2..R => G[at][c].row = t.index[<<at, c>>].row
      <4>1. \A c \in 1..C : at \in 2..R => Agrees(t, G, K, at, c)
        OBVIOUS
      <4> QED BY <4>1 DEF Agrees
    <3>3. done \ reaching = X /\ X \in SUBSET (1..C)
      BY <2>5, <3>1, <3>2
    <3> HIDE DEF X, f
    <3>4. Line([k \in 1..Cardinality(X) |-> BlankCell], Ascending(X), X, f)
      BY <1>1, <3>1, <3>3, BlankIs, LineNew
    <3> QED BY <2>6, <3>3, <3>4 DEF X, f
  <2>14. /\ rows \in Seq(Seq(Cell)) /\ Len(rows) = R + 1
         /\ \A r \in 1..(R + 1) : rows[r] = IF r < at THEN taller[r] ELSE IF r = at THEN row ELSE taller[r - 1]
    <3>1. row \in Seq(Cell)
      BY <2>13 DEF Line
    <3> DEFINE SC == Seq(Cell)
    <3>3. taller \in Seq(SC) /\ row \in SC /\ at \in 1..(Len(taller) + 1)
      BY <2>10, <3>1
    <3> HIDE DEF SC
    <3>2. /\ InsertAt(taller, at, row) \in Seq(SC) /\ Len(InsertAt(taller, at, row)) = Len(taller) + 1
          /\ \A j \in 1..(Len(taller) + 1) :
                InsertAt(taller, at, row)[j] = IF j < at THEN taller[j] ELSE IF j = at THEN row ELSE taller[j - 1]
      BY <3>3, PutIn
    <3> QED BY <2>6, <2>10, <3>2 DEF SC
  <2>15. ASSUME NEW r \in 1..R, NEW s, s = IF r < at THEN r ELSE r + 1
         PROVE  Lined(taller[r], Starts(D, s, C), CellsOf(D, s, C))
    <3> DEFINE X == Starts(G, r, C)
               f == CellsOf(D, s, C)
               S == taller[r]
    <3>1. Starts(D, s, C) = X /\ \A c \in X : f[c] = InsRowCell(G[r][c], at).cell
      BY <2>11, <2>15, InsRowOther
    <3>2. Line(t.rows[r], K[r], X, CellsOf(G, r, C)) /\ S \in Seq(Cell) /\ Len(S) = Len(t.rows[r])
      BY <1>1, <2>10
    <3> HIDE DEF f, S
    <3>3. ASSUME NEW i \in 1..Len(t.rows[r])
          PROVE  S[i] = f[K[r][i]]
      <4> DEFINE c == K[r][i]
      <4>1. Stands(t, R, C, G, K, r, i)
        OBVIOUS
      <4>2. c \in X /\ G[r][c].row = r /\ t.rows[r][i] = G[r][c].cell
        BY <4>1 DEF Stands
      <4>3. r \in DOMAIN t.rows /\ i \in DOMAIN t.rows[r]
        BY <1>1, RowsTyped
      <4>4. S[i] = IF <<r, i>> \in grown THEN [t.rows[r][i] EXCEPT !.rowSpan = @ + 1] ELSE t.rows[r][i]
        BY <2>2, <4>3 DEF S
      <4>5. InsRowCell(G[r][c], at).cell = IF r < at /\ at < r + t.rows[r][i].rowSpan
              THEN [t.rows[r][i] EXCEPT !.rowSpan = @ + 1] ELSE t.rows[r][i]
        BY <4>2 DEF InsRowCell
      <4>6. <<r, i>> \in grown <=> r < at /\ at < r + t.rows[r][i].rowSpan
        BY <2>8
      <4> HIDE DEF c, X
      <4> QED BY <3>1, <4>2, <4>4, <4>5, <4>6 DEF c
    <3> HIDE DEF X
    <3>4. Line(S, K[r], X, f)
      BY <3>2, <3>3, LineSame
    <3> QED BY <3>1, <3>4 DEF Lined, S, f
  <2>16. ASSUME NEW x \in 1..(R + 1)
         PROVE  Lined(rows[x], Starts(D, x, C), CellsOf(D, x, C))
    <3>1. CASE x < at
      <4>1. x \in 1..R /\ x = IF x < at THEN x ELSE x + 1
        BY <1>1, <3>1
      <4>2. rows[x] = taller[x]
        BY <2>14, <3>1
      <4> QED BY <2>15, <4>1, <4>2
    <3>2. CASE x = at
      <4>1. rows[x] = row
        BY <2>14, <3>2
      <4> QED BY <2>13, <3>2, <4>1 DEF Lined
    <3>3. CASE x > at
      <4>1. x - 1 \in 1..R /\ x = IF x - 1 < at THEN x - 1 ELSE (x - 1) + 1
        BY <1>1, <3>3
      <4>2. rows[x] = taller[x - 1]
        BY <1>1, <2>14, <3>3
      <4> QED BY <2>15, <4>1, <4>2
    <3>4. x < at \/ x = at \/ x > at
      BY <1>1
    <3> QED BY <3>1, <3>2, <3>3, <3>4
  <2>17. rows = [r \in 1..(R + 1) |-> rows[r]]
    BY <1>1, <2>14
  <2>18. Lays(rows, C, {}, D) /\ Len(rows) = R + 1
    BY <1>1, <2>12, <2>16, <2>17, LaysFrom
  <2> QED BY <2>1, <2>18 DEF D
<1> QED BY <1>3, <1>4

\* A row put in stops half way, or leaves a tiled table and every position
\* its contents.
LEMMA InsRowKeeps ==
  ASSUME NEW t, Tiled(t), t.rowsNum > 0, NEW at \in 1..(t.rowsNum + 1)
  PROVE  \/ insertRow(t, at).state = "thrown"
         \/ /\ Tiled(insertRow(t, at)) /\ insertRow(t, at).state = "ready"
            /\ \A r \in 1..t.rowsNum, c \in 1..t.colsNum :
                 TextAt(insertRow(t, at), <<Shift(r, at, 1), c>>) = TextAt(t, <<r, c>>)
<1> DEFINE R == t.rowsNum
           C == t.colsNum
           G == GridOf(t)
           K == ColumnsOf(t)
           D == InsRowGrid(G, R, C, at)
           u == insertRow(t, at)
<1>1. /\ TableOf(t, R, C, G, K)
      /\ \A r \in 1..R, c \in 1..C : Agrees(t, G, K, r, c)
      /\ \A r \in 1..R : \A i \in 1..Len(t.rows[r]) : Stands(t, R, C, G, K, r, i)
  BY TableOfTiled
<1> HIDE DEF G, K
<1>2. SUFFICES ASSUME u.state # "thrown"
               PROVE  /\ Tiled(u) /\ u.state = "ready"
                      /\ \A r \in 1..R, c \in 1..C : TextAt(u, <<Shift(r, at, 1), c>>) = TextAt(t, <<r, c>>)
  OBVIOUS
<1>3. PICK rows : insertRow(t, at) = update(rows) /\ Lays(rows, C, {}, D) /\ Len(rows) = R + 1
  BY <1>1, <1>2, InsRowLays
<1>4. LooksLike(u, rows, C, D)
  BY <1>3, UpdateLays
<1>5. Tiled(u) /\ u.state = "ready"
  BY <1>4 DEF LooksLike
<1>6. R \in Nat /\ at \in Int /\ 1 <= at /\ at <= R + 1 /\ Laid(G, R, C, {})
  BY <1>1 DEF TableOf
<1> HIDE DEF u
<1>7. ASSUME NEW r \in 1..R, NEW c \in 1..C
      PROVE  TextAt(u, <<Shift(r, at, 1), c>>) = TextAt(t, <<r, c>>)
  <2> DEFINE d == Shift(r, at, 1)
  <2>1. d \in 1..(R + 1) /\ d = (IF r < at THEN r ELSE r + 1) /\ d # at
    BY <1>6 DEF Shift
  <2> HIDE DEF d
  <2>2. TextAt(u, <<d, c>>) = D[d][c].cell.text
    BY <1>3, <1>4, <2>1, TextLike
  <2>3. D[d][c] = InsRowCell(G[r][c], at)
    <3>1. D[d][c] = IF d < at THEN InsRowCell(G[d][c], at)
                    ELSE IF d > at THEN InsRowCell(G[d - 1][c], at)
                    ELSE IF at \in 2..R /\ G[at][c].row < at THEN InsRowCell(G[at][c], at)
                    ELSE [row |-> at, col |-> c, cell |-> BlankCell]
      BY <2>1 DEF InsRowGrid
    <3>2. CASE r < at
      BY <1>6, <2>1, <3>1, <3>2
    <3>3. CASE ~(r < at)
      <4>1. d = r + 1 /\ d > at /\ ~(d < at) /\ d - 1 = r
        BY <1>6, <2>1, <3>3
      <4> QED BY <3>1, <4>1
    <3> QED BY <3>2, <3>3
  <2>4. TextAt(t, <<r, c>>) = G[r][c].cell.text
    BY <1>1, TextIn
  <2>5. InsRowCell(G[r][c], at).cell.text = G[r][c].cell.text
    <3>1. G[r][c].cell \in Cell
      BY <1>6, Boxed DEF Box
    <3> QED BY <3>1 DEF InsRowCell, Cell
  <2> QED BY <2>2, <2>3, <2>4, <2>5 DEF d
<1> QED BY <1>5, <1>7 DEF u

-----------------------------------------------------------------------------
(* What getPreviewMergedCellsNum counts.                                   *)

\* The next cell of a row starts where a cell ends.
LEMMA NextCell ==
  ASSUME NEW G, NEW R, NEW C, Laid(G, R, C, {}), NEW r \in 1..R, NEW k \in 1..C, G[r][k].col = k,
         NEW c \in 1..C, G[r][c].col = c, k < c
  PROVE  LET w == G[r][k].cell.colSpan
         IN  /\ w \in Int /\ 1 <= w /\ k + w <= c /\ k + w \in 1..C /\ G[r][k + w].col = k + w
             /\ \A x \in 1..C : k < x /\ x < k + w => x \notin Starts(G, r, C)
<1> DEFINE w == G[r][k].cell.colSpan
<1>1. C \in Nat /\ r \in Int /\ k \in Int /\ c \in Int
  BY DEF Laid
<1>2. Box(G, R, C, r, k) /\ Box(G, R, C, r, c)
  BY Boxed
<1>3. w \in Int /\ 1 <= w /\ G[r][k].row <= r /\ r < G[r][k].row + G[r][k].cell.rowSpan
  BY <1>2 DEF Box
<1>4. ASSUME NEW x \in 1..C, k <= x, x < k + w
      PROVE  G[r][x] = G[r][k]
  <2>1. x \in Int
    BY <1>1
  <2>2. Within(G[r][k], r, x)
    BY <1>1, <1>3, <1>4, <2>1 DEF Within
  <2> QED BY <1>2, <2>2, BoxAll
<1>5. k + w <= c
  <2>1. ~(k + w <= c) => G[r][c] = G[r][k]
    <3>1. ~(k + w <= c) => k <= c /\ c < k + w
      BY <1>1, <1>3
    <3> QED BY <1>4, <3>1
  <2>2. G[r][c] # G[r][k]
    BY <1>1
  <2> QED BY <2>1, <2>2
<1>6. k + w \in 1..C
  BY <1>1, <1>3, <1>5
<1>7. G[r][k + w].col = k + w
  <2> DEFINE n == k + w
             g == G[r][n]
  <2>1. Box(G, R, C, r, n) /\ n \in 1..C
    BY <1>6, Boxed
  <2> HIDE DEF n
  <2>2. /\ g.col \in Int /\ g.col <= n /\ n < g.col + g.cell.colSpan /\ g.row <= r /\ r < g.row + g.cell.rowSpan
        /\ g.cell.colSpan \in Int /\ n \in Int
    BY <2>1 DEF Box
  <2>3. ASSUME g.col < n
        PROVE  FALSE
    <3>1. n - 1 \in 1..C /\ k <= n - 1 /\ n - 1 < k + w /\ n - 1 \in Int
      BY <1>1, <1>3, <1>6 DEF n
    <3>2. G[r][n - 1] = G[r][k]
      BY <1>4, <3>1
    <3>3. Within(g, r, n - 1)
      BY <1>1, <2>2, <2>3, <3>1 DEF Within
    <3>4. G[r][n - 1] = g
      BY <2>1, <3>3, BoxAll
    <3>5. G[r][k] = g
      BY <3>2, <3>4
    <3>6. n < k + w
      BY <2>2, <3>5
    <3> QED BY <1>1, <1>3, <3>6 DEF n
  <2> QED BY <2>2, <2>3 DEF n
<1>8. ASSUME NEW x \in 1..C, k < x, x < k + w
      PROVE  x \notin Starts(G, r, C)
  <2>1. G[r][x].col = k
    BY <1>1, <1>4, <1>8
  <2>2. x # k
    BY <1>1, <1>8
  <2> QED BY <2>1, <2>2 DEF Starts
<1> QED BY <1>3, <1>5, <1>6, <1>7, <1>8

\* getPreviewMergedCellsNum counts the columns before a cell without a cell of their own in the row.
LEMMA PreviewIs ==
  ASSUME NEW t, NEW R, NEW C, NEW G, NEW K, TableOf(t, R, C, G, K),
         NEW r \in 1..R, \A c \in 1..C : Agrees(t, G, K, r, c),
         NEW c \in 1..C, G[r][c].col = c
  PROVE  LET n == Cardinality({x \in Starts(G, r, C) : x < c})
         IN  n \in Nat /\ getPreviewMergedCellsNum(t, r, c) = (c - 1) - n
<1> DEFINE X == Starts(G, r, C)
           M == c + t.colsNum
           w(k) == t.index[<<r, k>>].colSpan
           own(k) == IF t.index[<<r, k>>].row = r THEN 1 ELSE 0
           Good(f, a) == f = [k \in a..M |-> IF k >= c THEN 0 ELSE w(k) - own(k) + f[k + w(k)]]
           num == CHOOSE f : Good(f, 1)
<1>1. /\ C \in Nat /\ t.colsNum = C /\ c \in Int /\ 1 <= c /\ c <= C /\ Laid(G, R, C, {}) /\ r \in Int
      /\ M \in Int /\ M = c + C
  BY DEF TableOf
<1>2. getPreviewMergedCellsNum(t, r, c) = num[1]
  BY DEF getPreviewMergedCellsNum
<1>3. ASSUME NEW k \in 1..C
      PROVE  /\ w(k) = G[r][k].cell.colSpan /\ w(k) \in Int /\ 1 <= w(k) /\ w(k) <= C
             /\ own(k) = (IF G[r][k].row = r THEN 1 ELSE 0) /\ own(k) \in Int
  <2>1. Agrees(t, G, K, r, k)
    OBVIOUS
  <2>2. w(k) = G[r][k].cell.colSpan /\ t.index[<<r, k>>].row = G[r][k].row
    BY <2>1 DEF Agrees
  <2>3. Box(G, R, C, r, k)
    BY <1>1, Boxed
  <2>4. /\ G[r][k].cell.colSpan \in Int /\ 1 <= G[r][k].cell.colSpan
        /\ G[r][k].col \in Int /\ 1 <= G[r][k].col /\ G[r][k].col + G[r][k].cell.colSpan <= C + 1
    BY <2>3 DEF Box
  <2> HIDE DEF w
  <2> QED BY <1>1, <2>2, <2>4
<1> HIDE DEF w, own
\* The equation has a solution.
<1>4. \E f : Good(f, 1)
  <2> DEFINE all == {n \in Nat : n < M => \E f : Good(f, M - n)}
  <2>1. 0 \in all
    <3>1. Good([k \in M..M |-> 0], M)
      <4>1. \A k \in M..M : k >= c
        BY <1>1
      <4> QED BY <4>1
    <3>2. M - 0 = M
      BY <1>1
    <3> HIDE DEF Good
    <3> QED BY <3>1, <3>2
  <2>2. ASSUME NEW n \in Nat, n \in all
        PROVE  n + 1 \in all
    <3> SUFFICES ASSUME n + 1 < M
                 PROVE  \E f : Good(f, M - (n + 1))
      OBVIOUS
    <3> DEFINE a == M - (n + 1)
    <3>0. a \in Int /\ M - n = a + 1 /\ 1 <= a /\ a < M /\ n < M
      BY <1>1
    <3>1. PICK f : Good(f, a + 1)
      BY <2>2, <3>0
    <3> HIDE DEF a
    <3> DEFINE e == IF a >= c THEN 0 ELSE w(a) - own(a) + f[a + w(a)]
               g == [k \in a..M |-> IF k = a THEN e ELSE f[k]]
    <3>2. \A k \in (a + 1)..M : k \in a..M /\ k # a /\ g[k] = f[k]
      BY <1>1, <3>0
    <3>3. \A k \in (a + 1)..M : f[k] = IF k >= c THEN 0 ELSE w(k) - own(k) + f[k + w(k)]
      BY <3>1
    <3>4. \A k \in a..M : k < c => k \in 1..C /\ k + w(k) \in (a + 1)..M
      <4>1. ASSUME NEW k \in a..M, k < c
            PROVE  k \in 1..C /\ k + w(k) \in (a + 1)..M
        <5>1. k \in 1..C
          BY <1>1, <3>0, <4>1
        <5>2. w(k) \in Int /\ 1 <= w(k) /\ w(k) <= C
          BY <1>3, <5>1
        <5> QED BY <1>1, <3>0, <4>1, <5>1, <5>2
      <4> QED BY <4>1
    <3> HIDE DEF e
    <3>5. ASSUME NEW k \in a..M
          PROVE  g[k] = IF k >= c THEN 0 ELSE w(k) - own(k) + g[k + w(k)]
      <4>1. k < c => g[k + w(k)] = f[k + w(k)]
        BY <3>2, <3>4
      <4>2. CASE k = a
        <5>1. g[k] = e
          BY <4>2
        <5>2. k >= c \/ k < c
          BY <1>1, <3>0
        <5> HIDE DEF g
        <5> QED BY <4>1, <4>2, <5>1, <5>2 DEF e
      <4>3. CASE k # a
        <5>1. k \in (a + 1)..M /\ (k >= c \/ k < c)
          BY <1>1, <3>0, <4>3
        <5>2. g[k] = f[k]
          BY <3>2, <5>1
        <5> HIDE DEF g
        <5> QED BY <3>3, <4>1, <5>1, <5>2
      <4> QED BY <4>2, <4>3
    <3>6. g = [k \in a..M |-> g[k]]
      OBVIOUS
    <3> HIDE DEF g
    <3>7. Good(g, a)
      BY <3>5, <3>6
    <3> QED BY <3>7 DEF a
  <2>3. Nat \subseteq all
    <3> HIDE DEF all
    <3> QED BY <2>1, <2>2, NatInSet
  <2>4. M - 1 \in Nat /\ M - 1 < M /\ M - (M - 1) = 1
    BY <1>1
  <2>5. M - 1 \in all
    BY <2>3, <2>4
  <2> HIDE DEF Good
  <2> QED BY <2>4, <2>5
<1>5. Good(num, 1)
  BY <1>4
<1> HIDE DEF num
<1>6. \A k \in 1..M : num[k] = IF k >= c THEN 0 ELSE w(k) - own(k) + num[k + w(k)]
  BY <1>5
<1> HIDE DEF Good, M
\* From a cell's column on it counts the columns without a cell of their own.
<1> DEFINE A(k) == {x \in X : k <= x /\ x < c}
           Right(k) == k \in 1..c /\ G[r][k].col = k => IsFiniteSet(A(k)) /\ Cardinality(A(k)) \in Nat
                                                        /\ num[k] = (c - k) - Cardinality(A(k))
           far == {n \in Nat : \A k \in 1..c : c - k <= n => Right(k)}
<1>7. X \in SUBSET (1..C) /\ \A x \in X : x \in Int /\ G[r][x].row = r
  BY <1>1 DEF Starts
<1>8. Right(c)
  <2>1. A(c) = {}
    BY <1>1, <1>7
  <2>2. IsFiniteSet({}) /\ Cardinality({}) = 0
    BY FS_EmptySet
  <2>3. num[c] = 0
    <3>1. c \in 1..M /\ c >= c
      BY <1>1
    <3> QED BY <1>6, <3>1
  <2> HIDE DEF A
  <2> QED BY <1>1, <2>1, <2>2, <2>3
<1>9. 0 \in far
  <2>1. \A k \in 1..c : c - k <= 0 => k = c
    BY <1>1
  <2> HIDE DEF Right
  <2> QED BY <1>8, <2>1
<1>10. ASSUME NEW n \in Nat, n \in far
       PROVE  n + 1 \in far
  <2>a. SUFFICES ASSUME NEW k \in 1..c, c - k <= n + 1
                 PROVE  Right(k)
    <3> HIDE DEF Right
    <3> QED OBVIOUS
  <2>b. CASE k = c
    <3> HIDE DEF Right
    <3> QED BY <1>8, <2>b
  <2>c. SUFFICES ASSUME G[r][k].col = k, k # c
                 PROVE  /\ IsFiniteSet(A(k)) /\ Cardinality(A(k)) \in Nat
                        /\ num[k] = (c - k) - Cardinality(A(k))
    <3> HIDE DEF A
    <3> QED BY <2>b
  <2>1. k \in 1..C /\ k < c /\ k \in Int
    BY <1>1, <2>c
  <2> DEFINE m == k + w(k)
  <2>2. /\ w(k) = G[r][k].cell.colSpan /\ own(k) = (IF G[r][k].row = r THEN 1 ELSE 0) /\ w(k) \in Int /\ 1 <= w(k)
    BY <1>3, <2>1
  <2>3. /\ m <= c /\ G[r][m].col = m /\ \A x \in 1..C : k < x /\ x < m => x \notin X
    BY <1>1, <2>1, <2>2, <2>c, NextCell
  <2>4. m \in 1..c /\ c - m <= n /\ m \in Int
    BY <1>1, <2>a, <2>1, <2>2, <2>3
  <2>5. IsFiniteSet(A(m)) /\ Cardinality(A(m)) \in Nat /\ num[m] = (c - m) - Cardinality(A(m))
    <3>1. Right(m)
      <4> HIDE DEF Right, m
      <4> QED BY <1>10, <2>4
    <3> HIDE DEF A, m
    <3> QED BY <2>3, <2>4, <3>1
  <2>6. num[k] = w(k) - own(k) + num[m]
    <3>1. k \in 1..M /\ ~(k >= c)
      BY <1>1, <2>1
    <3> QED BY <1>6, <3>1
  <2>7. k \in X <=> G[r][k].row = r
    BY <2>1, <2>c DEF Starts
  <2>8. A(k) = IF G[r][k].row = r THEN A(m) \union {k} ELSE A(m)
    <3>1. \A x \in X : k <= x /\ x < c <=> (m <= x /\ x < c) \/ x = k
      BY <1>1, <1>7, <2>1, <2>2, <2>3, <2>4
    <3> HIDE DEF X, m
    <3>2. CASE G[r][k].row = r
      BY <2>7, <3>1, <3>2
    <3>3. CASE G[r][k].row # r
      BY <2>7, <3>1, <3>3
    <3> QED BY <3>2, <3>3
  <2>9. k \notin A(m)
    BY <2>1, <2>2
  <2> HIDE DEF A
  <2>10. CASE G[r][k].row = r
    <3>1. IsFiniteSet(A(m) \union {k}) /\ Cardinality(A(m) \union {k}) = Cardinality(A(m)) + 1
      BY <2>5, <2>9, FS_AddElement
    <3> QED BY <1>1, <2>1, <2>2, <2>5, <2>6, <2>8, <2>10, <3>1
  <2>11. CASE G[r][k].row # r
    BY <1>1, <2>1, <2>2, <2>5, <2>6, <2>8, <2>11
  <2> QED BY <2>10, <2>11
<1>11. Nat \subseteq far
  <2> HIDE DEF far
  <2> QED BY <1>9, <1>10, NatInSet
<1>12. Right(1)
  <2>1. c - 1 \in Nat /\ 1 \in 1..c /\ c - 1 <= c - 1
    BY <1>1
  <2>2. c - 1 \in far
    BY <1>11, <2>1
  <2> HIDE DEF Right
  <2> QED BY <2>1, <2>2
<1>13. G[r][1].col = 1 /\ 1 \in 1..c
  <2>1. 1 \in 1..C /\ 1 \in 1..c
    BY <1>1
  <2>2. Box(G, R, C, r, 1)
    BY <1>1, <2>1, Boxed
  <2>3. G[r][1].col \in Int /\ 1 <= G[r][1].col /\ G[r][1].col <= 1
    BY <2>2 DEF Box
  <2> QED BY <2>1, <2>3
<1>14. A(1) = {x \in X : x < c}
  BY <1>7
<1> HIDE DEF A, X
<1> QED BY <1>2, <1>12, <1>13, <1>14 DEF X

-----------------------------------------------------------------------------
(* A row is taken out.                                                     *)

(* A cell that begins in the row goes on empty below it.                   *)
DelRowCell(g, at) ==
    [row |-> IF g.row <= at THEN g.row ELSE g.row - 1, col |-> g.col,
     cell |-> IF g.row < at /\ at < g.row + g.cell.rowSpan THEN [g.cell EXCEPT !.rowSpan = @ - 1]
              ELSE IF g.row = at THEN [g.cell EXCEPT !.rowSpan = @ - 1, !.text = {}]
              ELSE g.cell]

DelRowGrid(G, R, C, at) ==
    [r \in 1..(R - 1) |-> [c \in 1..C |-> DelRowCell(G[IF r < at THEN r ELSE r + 1][c], at)]]

\* A laid grid without one of its rows is laid.
LEMMA DelRowLaid ==
  ASSUME NEW R, NEW C, NEW G, Laid(G, R, C, {}), NEW at \in 1..R, R > 1
  PROVE  Laid(DelRowGrid(G, R, C, at), R - 1, C, {})
<1> DEFINE D == DelRowGrid(G, R, C, at)
           s(r) == IF r < at THEN r ELSE r + 1
<1>1. C \in Nat /\ R \in Nat /\ R - 1 \in Nat \ {0} /\ at \in Int /\ 1 <= at /\ at <= R /\ R - 1 \in Nat
  BY DEF Laid
<1>2. ASSUME NEW r \in 1..(R - 1), NEW c \in 1..C
      PROVE  /\ s(r) \in 1..R /\ s(r) # at /\ s(r) \in Int
             /\ D[r][c] = DelRowCell(G[s(r)][c], at)
  BY <1>1 DEF DelRowGrid
<1> HIDE DEF D
<1>3. ASSUME NEW r \in 1..(R - 1), NEW c \in 1..C
      PROVE  Box(D, R - 1, C, r, c)
  <2> DEFINE g == G[s(r)][c]
             d == D[r][c]
             w == g.cell.rowSpan
             over == g.row <= at /\ at < g.row + w
  <2>1. s(r) \in 1..R /\ s(r) # at /\ s(r) \in Int /\ d = DelRowCell(g, at)
    BY <1>2
  <2>2. Box(G, R, C, s(r), c)
    BY <2>1, Boxed
  <2>3. /\ c \in Int /\ r \in Int /\ C \in Int /\ R \in Int /\ 1 <= r /\ r <= R - 1
        /\ g.col \in Int /\ g.row \in Int /\ g.cell \in Cell
        /\ g.cell.colSpan \in Int /\ w \in Int /\ 1 <= g.cell.colSpan /\ 1 <= w
        /\ 1 <= g.col /\ g.col <= c /\ c <= C /\ c < g.col + g.cell.colSpan /\ g.col + g.cell.colSpan <= C + 1
        /\ 1 <= g.row /\ g.row <= s(r) /\ s(r) <= R /\ s(r) < g.row + w /\ g.row + w <= R + 1
    BY <1>1, <2>2 DEF Box
  <2>4. \A x, y : Within(g, x, y) => y \in 1..C /\ x \in 1..R /\ G[x][y] = g
    BY <2>2, BoxAll
  <2>5. over => w >= 2
    BY <1>1, <2>1, <2>3
  <2>6. /\ d.col = g.col /\ d.row = (IF g.row <= at THEN g.row ELSE g.row - 1)
        /\ d.cell = (IF g.row < at /\ at < g.row + w THEN [g.cell EXCEPT !.rowSpan = w - 1]
                     ELSE IF g.row = at THEN [g.cell EXCEPT !.rowSpan = w - 1, !.text = {}]
                     ELSE g.cell)
        /\ d = [row |-> d.row, col |-> d.col, cell |-> d.cell]
    BY <2>1 DEF DelRowCell
  <2>7. over => w - 1 \in Nat \ {0}
    BY <2>3, <2>5
  <2>8. /\ d.cell \in Cell /\ d.cell.colSpan = g.cell.colSpan
        /\ d.cell.rowSpan = IF over THEN w - 1 ELSE w
    <3>0. g.row = at => over
      BY <1>1, <2>3
    <3>1. CASE over
      <4>1. \/ d.cell = [g.cell EXCEPT !.rowSpan = w - 1]
            \/ d.cell = [g.cell EXCEPT !.rowSpan = w - 1, !.text = {}]
        BY <1>1, <2>3, <2>6, <3>1
      <4>3. g.cell \in Cell /\ w - 1 \in Nat \ {0}
        BY <2>3, <2>7, <3>1
      <4> HIDE DEF g, d, w, s
      <4>4. d.cell \in Cell /\ d.cell.rowSpan = w - 1 /\ d.cell.colSpan = g.cell.colSpan
        BY <4>1, <4>3 DEF Cell
      <4> QED BY <3>1, <4>4
    <3>2. CASE ~over
      <4>1. d.cell = g.cell
        BY <1>1, <2>3, <2>6, <3>0, <3>2
      <4> QED BY <2>3, <3>2, <4>1
    <3> QED BY <3>1, <3>2
  <2> HIDE DEF g, d, w
  <2>9. /\ 1 <= d.row /\ d.row <= r /\ r < d.row + d.cell.rowSpan /\ d.row + d.cell.rowSpan <= R
        /\ d.row \in Int /\ d.cell.rowSpan \in Int /\ 1 <= d.cell.rowSpan
    BY <1>1, <2>1, <2>3, <2>6, <2>7, <2>8
  <2>10. ASSUME NEW x, NEW y, Within(d, x, y)
         PROVE  y \in 1..C /\ x \in 1..(R - 1) /\ D[x][y] = d
    <3>0. /\ y \in Int /\ x \in Int /\ d.col <= y /\ y < d.col + d.cell.colSpan
          /\ d.row <= x /\ x < d.row + d.cell.rowSpan
      BY <2>10 DEF Within
    <3>1. x \in 1..(R - 1)
      BY <1>1, <2>9, <3>0
    <3>2. s(x) \in Int /\ g.row <= s(x) /\ s(x) < g.row + w
      BY <1>1, <2>1, <2>3, <2>6, <2>8, <2>9, <3>0
    <3>3. g.col <= y /\ y < g.col + g.cell.colSpan
      BY <2>6, <2>8, <3>0
    <3>a. Within(g, s(x), y)
      BY <3>0, <3>2, <3>3 DEF Within, w
    <3>4. y \in 1..C /\ G[s(x)][y] = g
      BY <2>4, <3>a
    <3>5. D[x][y] = DelRowCell(G[s(x)][y], at)
      BY <1>2, <3>1, <3>4
    <3> QED BY <2>1, <3>1, <3>4, <3>5
  <2>11. d.col \in Int /\ 1 <= d.col /\ d.col <= c /\ c < d.col + d.cell.colSpan /\ d.col + d.cell.colSpan <= C + 1
         /\ d.cell.colSpan \in Int /\ 1 <= d.cell.colSpan /\ d.cell \in Cell
    BY <2>3, <2>6, <2>8
  <2>12. R - 1 \in Int /\ d.row + d.cell.rowSpan <= (R - 1) + 1 /\ c \in Int /\ r \in Int /\ C \in Int /\ c <= C /\ r <= R - 1
    BY <2>3, <2>9
  <2> QED BY <2>6, <2>9, <2>10, <2>11, <2>12 DEF Box, d
<1>4. \A r \in 1..(R - 1), c \in 1..C : Box(D, R - 1, C, r, c)
  BY <1>3
<1> QED BY <1>1, <1>4, LaidFrom DEF D

\* The rows that a row taken out leaves.
Low(G, at, k) == {c \in 1..k : G[at][c].row = at /\ G[at][c].col = c /\ G[at][c].cell.rowSpan > 1}

DelRowMove(G, R, C, at, D) == Laid(G, R, C, {}) /\ at \in 1..R /\ R > 1 /\ D = DelRowGrid(G, R, C, at)

\* What is given where a row is taken out.
LEMMA DelRowFacts ==
  ASSUME NEW R, NEW C, NEW G, NEW at, NEW D, DelRowMove(G, R, C, at, D)
  PROVE  /\ C \in Nat /\ R \in Nat \ {0} /\ at \in Int /\ 1 <= at /\ at <= R /\ Laid(G, R, C, {})
         /\ \A s \in 1..(R - 1), c \in 1..C : D[s][c] = DelRowCell(G[IF s < at THEN s ELSE s + 1][c], at)
<1>1. Laid(G, R, C, {}) /\ at \in 1..R /\ R > 1 /\ D = DelRowGrid(G, R, C, at)
  BY DEF DelRowMove
<1>2. C \in Nat /\ R \in Nat \ {0}
  BY <1>1 DEF Laid
<1> QED BY <1>1, <1>2 DEF DelRowGrid

\* Where the cells of another row start when a row is taken out.
LEMMA DelRowOther ==
  ASSUME NEW R, NEW C, NEW G, NEW at, NEW D, DelRowMove(G, R, C, at, D),
         NEW r \in 1..R, r # at, r # at + 1, NEW s, s = IF r < at THEN r ELSE r - 1
  PROVE  /\ s \in 1..(R - 1) /\ Starts(D, s, C) = Starts(G, r, C)
         /\ \A c \in Starts(G, r, C) : CellsOf(D, s, C)[c] = DelRowCell(G[r][c], at).cell
<1>1. C \in Nat /\ R \in Nat \ {0} /\ at \in Int /\ 1 <= at /\ at <= R /\ Laid(G, R, C, {}) /\ r \in Int
  BY DelRowFacts
<1>2. s \in 1..(R - 1) /\ s \in Int /\ (IF s < at THEN s ELSE s + 1) = r
  BY <1>1
<1>3. ASSUME NEW c \in 1..C
      PROVE  D[s][c] = DelRowCell(G[r][c], at)
  <2>1. D[s][c] = DelRowCell(G[IF s < at THEN s ELSE s + 1][c], at)
    BY <1>2, DelRowFacts
  <2> QED BY <1>2, <2>1
<1>4. ASSUME NEW c \in 1..C
      PROVE  D[s][c].row = s /\ D[s][c].col = c <=> G[r][c].row = r /\ G[r][c].col = c
  <2> DEFINE g == G[r][c]
  <2>1. Box(G, R, C, r, c)
    BY <1>1, Boxed
  <2>2. g.row \in Int /\ g.row <= r
    BY <2>1 DEF Box
  <2>3. D[s][c] = DelRowCell(g, at)
    BY <1>3
  <2> HIDE DEF g
  <2>4. DelRowCell(g, at).row = (IF g.row <= at THEN g.row ELSE g.row - 1) /\ DelRowCell(g, at).col = g.col
    BY DEF DelRowCell
  <2>5. (IF g.row <= at THEN g.row ELSE g.row - 1) = s <=> g.row = r
    BY <1>1, <1>2, <2>2
  <2> QED BY <2>3, <2>4, <2>5 DEF g
<1>5. Starts(D, s, C) = Starts(G, r, C)
  BY <1>4 DEF Starts
<1>6. ASSUME NEW c \in Starts(G, r, C)
      PROVE  CellsOf(D, s, C)[c] = DelRowCell(G[r][c], at).cell
  <2>1. c \in 1..C
    BY DEF Starts
  <2> QED BY <1>3, <2>1 DEF CellsOf
<1> QED BY <1>2, <1>5, <1>6

\* The cells of a row that reach into the next one.
LEMMA LowIs ==
  ASSUME NEW R, NEW C, NEW G, NEW at, NEW D, DelRowMove(G, R, C, at, D), NEW c \in Low(G, at, C)
  PROVE  /\ at < R /\ c \in 1..C /\ G[at + 1][c] = G[at][c] /\ c \notin Starts(G, at + 1, C)
         /\ G[at + 1][c].col = c /\ G[at + 1][c].row = at
<1>1. C \in Nat /\ R \in Nat \ {0} /\ at \in Int /\ 1 <= at /\ at <= R /\ Laid(G, R, C, {})
  BY DelRowFacts
<1> DEFINE g == G[at][c]
<1>2. c \in 1..C /\ g.row = at /\ g.col = c /\ g.cell.rowSpan > 1
  BY DEF Low
<1>3. Box(G, R, C, at, c)
  BY <1>1, <1>2, Boxed
<1>4. /\ g.cell.rowSpan \in Int /\ g.row + g.cell.rowSpan <= R + 1 /\ c \in Int
      /\ g.col <= c /\ c < g.col + g.cell.colSpan
  BY <1>3 DEF Box
<1>5. at < R /\ at + 1 \in Int /\ g.row <= at + 1 /\ at + 1 < g.row + g.cell.rowSpan
  BY <1>1, <1>2, <1>4
<1>6. Within(g, at + 1, c)
  BY <1>4, <1>5 DEF Within
<1>7. G[at + 1][c] = g
  BY <1>3, <1>6, BoxAll
<1>8. c \notin Starts(G, at + 1, C)
  BY <1>1, <1>2, <1>7 DEF Starts
<1> QED BY <1>2, <1>5, <1>7, <1>8

(* The lower part of a cell, in the row below it.                          *)
LowerPart(cell) == [cell EXCEPT !.rowSpan = @ - 1, !.text = {}]

\* The next row gets them in its empty positions.
LEMMA DelRowNext ==
  ASSUME NEW R, NEW C, NEW G, NEW at, NEW D, DelRowMove(G, R, C, at, D), at < R
  PROVE  /\ Starts(D, at, C) = Starts(G, at + 1, C) \union Low(G, at, C)
         /\ \A c \in Starts(G, at + 1, C) : CellsOf(D, at, C)[c] = G[at + 1][c].cell
         /\ \A c \in Low(G, at, C) : CellsOf(D, at, C)[c] = LowerPart(G[at][c].cell)
<1>1. C \in Nat /\ R \in Nat \ {0} /\ at \in Int /\ 1 <= at /\ at <= R /\ Laid(G, R, C, {})
  BY DelRowFacts
<1>2. at \in 1..(R - 1) /\ at + 1 \in 1..R /\ (IF at < at THEN at ELSE at + 1) = at + 1
  BY <1>1
<1>3. ASSUME NEW c \in 1..C
      PROVE  D[at][c] = DelRowCell(G[at + 1][c], at)
  <2>1. D[at][c] = DelRowCell(G[IF at < at THEN at ELSE at + 1][c], at)
    BY <1>2, DelRowFacts
  <2> QED BY <1>2, <2>1
<1>4. ASSUME NEW c \in Starts(G, at + 1, C)
      PROVE  c \in Starts(D, at, C) /\ CellsOf(D, at, C)[c] = G[at + 1][c].cell
  <2> DEFINE g == G[at + 1][c]
  <2>1. c \in 1..C /\ g.row = at + 1 /\ g.col = c
    BY DEF Starts
  <2>2. D[at][c] = DelRowCell(g, at)
    BY <1>3, <2>1
  <2> HIDE DEF g
  <2>3. DelRowCell(g, at).row = at /\ DelRowCell(g, at).col = c /\ DelRowCell(g, at).cell = g.cell
    BY <1>1, <2>1 DEF DelRowCell
  <2> QED BY <2>1, <2>2, <2>3 DEF Starts, CellsOf, g
<1>5. ASSUME NEW c \in Low(G, at, C)
      PROVE  /\ c \in Starts(D, at, C)
             /\ CellsOf(D, at, C)[c] = LowerPart(G[at][c].cell)
  <2> DEFINE g == G[at][c]
  <2>1. c \in 1..C /\ G[at + 1][c] = g
    BY LowIs
  <2>2. D[at][c] = DelRowCell(g, at)
    BY <1>3, <2>1
  <2>3. g.row = at /\ g.col = c
    BY DEF Low
  <2> HIDE DEF g
  <2>4. /\ DelRowCell(g, at).row = at /\ DelRowCell(g, at).col = c
        /\ DelRowCell(g, at).cell = LowerPart(g.cell)
    BY <1>1, <2>3 DEF DelRowCell, LowerPart
  <2> QED BY <2>1, <2>2, <2>4 DEF Starts, CellsOf, g
<1>6. ASSUME NEW c \in Starts(D, at, C)
      PROVE  c \in Starts(G, at + 1, C) \/ c \in Low(G, at, C)
  <2> DEFINE g == G[at + 1][c]
  <2>1. c \in 1..C /\ D[at][c].row = at /\ D[at][c].col = c
    BY DEF Starts
  <2>2. D[at][c] = DelRowCell(g, at)
    BY <1>3, <2>1
  <2>3. Box(G, R, C, at + 1, c)
    BY <1>1, <1>2, <2>1, Boxed
  <2>4. /\ g.row \in Int /\ g.row <= at + 1 /\ at + 1 < g.row + g.cell.rowSpan /\ c \in Int
        /\ g.col <= c /\ c < g.col + g.cell.colSpan /\ g.cell.rowSpan \in Int
    BY <2>3 DEF Box
  <2>5. \A x, y : Within(g, x, y) => G[x][y] = g
    BY <2>3, BoxAll
  <2> HIDE DEF g
  <2>6. DelRowCell(g, at).row = (IF g.row <= at THEN g.row ELSE g.row - 1) /\ DelRowCell(g, at).col = g.col
    BY DEF DelRowCell
  <2>7. g.col = c /\ (g.row = at \/ g.row = at + 1)
    BY <1>1, <2>1, <2>2, <2>4, <2>6
  <2>8. CASE g.row = at + 1
    BY <2>1, <2>7, <2>8 DEF Starts, g
  <2>9. CASE g.row = at
    <3>1. Within(g, at, c)
      BY <1>1, <2>4, <2>9 DEF Within
    <3>2. G[at][c] = g
      BY <2>5, <3>1
    <3>3. g.cell.rowSpan > 1
      BY <1>1, <2>4, <2>9
    <3> QED BY <2>1, <2>7, <2>9, <3>2, <3>3 DEF Low
  <2> QED BY <2>7, <2>8, <2>9
<1> QED BY <1>4, <1>5, <1>6

-----------------------------------------------------------------------------
(* The lower parts are kept one after the other.                           *)

LeavesIn(t, at) ==
    \E c \in 1..t.colsNum : /\ t.index[<<at, c>>].row = at /\ t.index[<<at, c>>].rowSpan > 1
                            /\ t.rows[at + 1] = <<>>

Removing(t, R, C, G, K, at, D) ==
    /\ TableOf(t, R, C, G, K) /\ DelRowMove(G, R, C, at, D) /\ ~LeavesIn(t, at)
    /\ \A r \in 1..R, c \in 1..C : Agrees(t, G, K, r, c)
    /\ \A r \in 1..R : \A i \in 1..Len(t.rows[r]) : Stands(t, R, C, G, K, r, i)

KeptTo(t, R, C, G, K, at, D, s, k) ==
    /\ s = [rows |-> s.rows, count |-> s.count, ok |-> TRUE]
    /\ s.rows = [r \in 1..R |-> s.rows[r]]
    /\ \A r \in 1..R : r # at /\ r # at + 1 => s.rows[r] = t.rows[r]
    /\ s.rows[at] = [i \in 1..Len(t.rows[at]) |-> s.rows[at][i]]
    /\ \A i \in 1..Len(t.rows[at]) : K[at][i] > k => s.rows[at][i] = t.rows[at][i]
    /\ s.count = Cardinality(Low(G, at, k))
    /\ at < R => Lined(s.rows[at + 1], Starts(G, at + 1, C) \union Low(G, at, k), CellsOf(D, at, C))

\* The cells of the next row before a column, the ones just added included.
LEMMA BeforeIs ==
  ASSUME NEW t, NEW R, NEW C, NEW G, NEW K, NEW at, NEW D, Removing(t, R, C, G, K, at, D),
         NEW k \in Low(G, at, C), NEW count, count = Cardinality(Low(G, at, k - 1)),
         NEW info, info.col = k
  PROVE  /\ count \in Nat
         /\ CellsBefore(t, at + 1, info, count)
              = Cardinality({x \in Starts(G, at + 1, C) \union Low(G, at, k - 1) : x < k})
<1>1. TableOf(t, R, C, G, K) /\ DelRowMove(G, R, C, at, D) /\ \A r \in 1..R, c \in 1..C : Agrees(t, G, K, r, c)
  BY DEF Removing
<1>2. C \in Nat /\ R \in Nat \ {0} /\ at \in Int /\ 1 <= at /\ at <= R
  BY <1>1, DelRowFacts
<1>3. at < R /\ k \in 1..C /\ G[at + 1][k].col = k
  BY <1>1, LowIs
<1>4. at + 1 \in 1..R /\ k \in Int
  BY <1>2, <1>3
<1> DEFINE S == {x \in Starts(G, at + 1, C) : x < k}
           L == Low(G, at, k - 1)
           n == Cardinality(S)
<1>5. n \in Nat /\ getPreviewMergedCellsNum(t, at + 1, k) = (k - 1) - n
  <2>1. \A c \in 1..C : Agrees(t, G, K, at + 1, c)
    BY <1>1, <1>4
  <2> QED BY <1>1, <1>3, <1>4, <2>1, PreviewIs
<1>6. S \in SUBSET (1..C) /\ L \in SUBSET (1..C) /\ \A x \in L : x < k
  <2>1. Starts(G, at + 1, C) \in SUBSET (1..C)
    BY DEF Starts
  <2>2. \A x \in L : x \in 1..(k - 1)
    BY DEF Low
  <2>3. \A x \in 1..(k - 1) : x \in 1..C /\ x < k
    BY <1>2, <1>3
  <2> QED BY <2>1, <2>2, <2>3
<1>7. IsFiniteSet(S) /\ IsFiniteSet(L) /\ Cardinality(L) \in Nat
  <2>1. IsFiniteSet(1..C)
    BY <1>2, FS_Interval
  <2>2. IsFiniteSet(S) /\ IsFiniteSet(L)
    <3> HIDE DEF S, L
    <3> QED BY <1>6, <2>1, FS_Subset
  <2> HIDE DEF L
  <2> QED BY <2>2, FS_CardinalityType
<1>8. S \intersect L = {}
  <2>1. ASSUME NEW x \in L
        PROVE  x \notin Starts(G, at + 1, C)
    <3>1. x \in Low(G, at, C)
      BY <1>6 DEF Low
    <3> QED BY <1>1, <3>1, LowIs
  <2> QED BY <2>1
<1>9. Cardinality(S \union L) = n + count
  <2>1. Cardinality(S \union L) = Cardinality(S) + Cardinality(L) - Cardinality(S \intersect L)
    <3> HIDE DEF S, L
    <3> QED BY <1>7, FS_Union
  <2>2. Cardinality({}) = 0
    BY FS_EmptySet
  <2> HIDE DEF S, L
  <2> QED BY <1>5, <1>7, <1>8, <2>1, <2>2 DEF L
<1>10. {x \in Starts(G, at + 1, C) \union L : x < k} = S \union L
  BY <1>6
<1>11. CellsBefore(t, at + 1, info, count) = k - 1 - (getPreviewMergedCellsNum(t, at + 1, k) - count)
  BY DEF CellsBefore
<1>12. count \in Nat
  BY <1>7
<1> HIDE DEF S, n
<1>13. CellsBefore(t, at + 1, info, count) = n + count
  BY <1>4, <1>5, <1>11, <1>12
<1> QED BY <1>9, <1>10, <1>12, <1>13

\* Keeping the lower part of a cell of the row, one column further on.
LEMMA KeepStep ==
  ASSUME NEW t, NEW R, NEW C, NEW G, NEW K, NEW at, NEW D, Removing(t, R, C, G, K, at, D),
         NEW k \in Low(G, at, C), NEW s, KeptTo(t, R, C, G, K, at, D, s, k - 1),
         NEW info, info = t.index[<<at, k>>]
  PROVE  KeptTo(t, R, C, G, K, at, D, KeepLowerPart(t, at, s, info), k)
<1>1. /\ TableOf(t, R, C, G, K) /\ DelRowMove(G, R, C, at, D) /\ ~LeavesIn(t, at)
      /\ \A r \in 1..R, c \in 1..C : Agrees(t, G, K, r, c)
  BY DEF Removing
<1>2. C \in Nat /\ R \in Nat \ {0} /\ at \in Int /\ 1 <= at /\ at <= R /\ Laid(G, R, C, {})
  BY <1>1, DelRowFacts
<1>3. at < R /\ k \in 1..C /\ G[at + 1][k].col = k /\ k \notin Starts(G, at + 1, C)
  BY <1>1, LowIs
<1>4. at + 1 \in 1..R /\ at \in 1..R /\ k \in Int /\ at + 1 # at
  BY <1>2, <1>3
<1>5. /\ t.rows \in Seq(Seq(Cell)) /\ Len(t.rows) = R /\ DOMAIN t.rows = 1..R /\ t.colsNum = C
      /\ \A r \in 1..R : Line(t.rows[r], K[r], Starts(G, r, C), CellsOf(G, r, C))
  BY <1>1 DEF TableOf
<1> DEFINE g == G[at][k]
           m == info.cell
<1>6. g.row = at /\ g.col = k /\ g.cell.rowSpan > 1 /\ g.cell \in Cell
  <2>1. Box(G, R, C, at, k)
    BY <1>2, <1>3, <1>4, Boxed
  <2>2. g.cell \in Cell
    BY <2>1 DEF Box
  <2> QED BY <2>2 DEF Low
<1>7. /\ info.row = at /\ info.col = k /\ info.rowSpan = g.cell.rowSpan
      /\ m \in 1..Len(t.rows[at]) /\ K[at][m] = k /\ t.rows[at][m] = g.cell
  <2>1. Agrees(t, G, K, at, k)
    BY <1>1, <1>3, <1>4
  <2> QED BY <1>6, <2>1 DEF Agrees
<1>8. /\ s = [rows |-> s.rows, count |-> s.count, ok |-> TRUE]
      /\ s.rows = [r \in 1..R |-> s.rows[r]]
      /\ \A r \in 1..R : r # at /\ r # at + 1 => s.rows[r] = t.rows[r]
      /\ s.rows[at] = [i \in 1..Len(t.rows[at]) |-> s.rows[at][i]]
      /\ \A i \in 1..Len(t.rows[at]) : K[at][i] > k - 1 => s.rows[at][i] = t.rows[at][i]
      /\ s.count = Cardinality(Low(G, at, k - 1))
      /\ at < R => Lined(s.rows[at + 1], Starts(G, at + 1, C) \union Low(G, at, k - 1), CellsOf(D, at, C))
  BY DEF KeptTo
<1>9. s.ok = TRUE
  BY <1>8
<1> DEFINE rest == [s.rows[at][m] EXCEPT !.rowSpan = info.rowSpan - 1, !.text = {}]
           before == CellsBefore(t, at + 1, info, s.count)
           next == s.rows[at + 1]
           cut == [s.rows EXCEPT ![at][m].rowSpan = 1]
           new == IF next = <<>> THEN next ELSE InsertAt(next, Max({before, 0}) + 1, rest)
           X == Starts(G, at + 1, C) \union Low(G, at, k - 1)
           f == CellsOf(D, at, C)
<1>10. KeepLowerPart(t, at, s, info)
         = CASE ~s.ok -> s
             [] s.ok /\ before > Len(next) -> [s EXCEPT !.rows = cut, !.ok = FALSE]
             [] s.ok /\ before <= Len(next) -> [s EXCEPT !.rows = [cut EXCEPT ![at + 1] = new], !.count = @ + 1]
  BY DEF KeepLowerPart
<1>11. rest = LowerPart(g.cell) /\ rest \in Cell
  <2>1. s.rows[at][m] = g.cell
    BY <1>4, <1>7, <1>8
  <2>2. g.cell.rowSpan \in Nat \ {0}
    BY <1>6, CellTyped
  <2>3. g.cell.rowSpan - 1 \in Nat \ {0}
    BY <1>6, <2>2
  <2>4. rest = [g.cell EXCEPT !.rowSpan = g.cell.rowSpan - 1, !.text = {}]
    BY <1>7, <2>1
  <2> HIDE DEF rest, g
  <2>5. rest = LowerPart(g.cell)
    BY <2>4 DEF LowerPart
  <2> QED BY <1>6, <2>3, <2>4, <2>5 DEF Cell
<1>12. f[k] = rest
  <2>0. DelRowMove(G, R, C, at, D) /\ at < R
    BY <1>1, <1>3
  <2> HIDE DEF rest, before, next, cut, new, X
  <2>1. \A c \in Low(G, at, C) :
           CellsOf(D, at, C)[c] = LowerPart(G[at][c].cell)
    BY <2>0, DelRowNext
  <2> QED BY <1>11, <2>1
<1>13. s.count \in Nat /\ before = Cardinality({x \in X : x < k})
  BY <1>7, <1>8, BeforeIs
<1>14. X \in SUBSET Int /\ k \notin X
  <2>1. \A x \in Starts(G, at + 1, C) : x \in Int
    BY <1>2 DEF Starts
  <2>2. \A x \in Low(G, at, k - 1) : x \in Int /\ x # k
    BY <1>4 DEF Low
  <2> QED BY <1>3, <2>1, <2>2
<1>15. PICK b : Line(next, b, X, f)
  BY <1>3, <1>8 DEF Lined
<1> HIDE DEF rest, before, cut, f
<1>16. before \in 0..Len(next) /\ \A i \in 1..Len(next) : i <= before <=> b[i] < k
  <2> HIDE DEF X, next
  <2> QED BY <1>4, <1>13, <1>14, <1>15, LineCount
<1>17. next \in Seq(Cell) /\ Len(next) \in Nat
  <2>1. next \in Seq(Cell)
    BY <1>15 DEF Line
  <2> QED BY <2>1, LenProperties
<1>18. next # <<>>
  <2>1. t.rows[at + 1] # <<>>
    BY <1>1, <1>3, <1>5, <1>6, <1>7 DEF LeavesIn
  <2>2. PICK x : x \in Starts(G, at + 1, C)
    <3>1. t.rows[at + 1] \in Seq(Cell) /\ Len(t.rows[at + 1]) \in Nat
      BY <1>4, <1>5, RowsTyped
    <3>2. Len(t.rows[at + 1]) # 0
      BY <2>1, <3>1, EmptySeq
    <3>3. 1 \in 1..Len(t.rows[at + 1])
      BY <3>1, <3>2
    <3>4. K[at + 1][1] \in Starts(G, at + 1, C)
      BY <1>4, <1>5, <3>3 DEF Line
    <3> QED BY <3>4
  <2>3. x \in X
    BY <2>2
  <2>4. PICK i \in 1..Len(next) : b[i] = x
    BY <1>15, <2>3 DEF Line
  <2>5. Len(next) # 0
    BY <1>17, <2>4
  <2> HIDE DEF next
  <2> QED BY <1>17, <2>5, EmptySeq
<1>19. Max({before, 0}) = before
  <2>1. before \in Int /\ 0 <= before
    BY <1>16
  <2>2. {before, 0} \in SUBSET Int /\ before \in {before, 0} /\ \A x \in {before, 0} : x <= before
    BY <2>1
  <2> QED BY <2>2, MaxIs
<1>20. new = InsertAt(next, before + 1, rest)
  BY <1>18, <1>19
<1>21. KeepLowerPart(t, at, s, info) = [s EXCEPT !.rows = [cut EXCEPT ![at + 1] = new], !.count = @ + 1]
  <2>1. s.ok /\ before <= Len(next) /\ ~(before > Len(next))
    BY <1>9, <1>16, <1>17
  <2> HIDE DEF new, next
  <2> QED BY <1>10, <2>1
<1> HIDE DEF new
<1>22. Lined(new, X \union {k}, f)
  <2>1. before + 1 \in 1..(Len(next) + 1) /\ before \in Int
    BY <1>16, <1>17
  <2>2. Inserted(new, next, before + 1, rest)
    <3> HIDE DEF next
    <3> QED BY <1>11, <1>17, <1>20, <2>1, InsertAtIs
  <2>3. \A i \in 1..Len(next) : i < before + 1 <=> b[i] < k
    BY <1>16, <1>17, <2>1
  <2> HIDE DEF X, next
  <2>4. Gains(next, b, X, f, k, before + 1, rest, new, f)
    BY <1>4, <1>12, <1>14, <1>15, <2>1, <2>2, <2>3 DEF Gains
  <2> QED BY <2>4, LineGains
<1>23. Low(G, at, k) = Low(G, at, k - 1) \union {k} /\ k \notin Low(G, at, k - 1)
  <2>1. 1..k = 1..(k - 1) \union {k}
    BY <1>3, <1>4
  <2> QED BY <1>4, <1>6, <2>1 DEF Low
<1>24. X \union {k} = Starts(G, at + 1, C) \union Low(G, at, k)
  BY <1>23
<1>25. Cardinality(Low(G, at, k)) = s.count + 1
  <2>1. IsFiniteSet(Low(G, at, k - 1))
    <3>1. Low(G, at, k - 1) \in SUBSET (1..(k - 1))
      BY DEF Low
    <3>2. IsFiniteSet(1..(k - 1))
      BY <1>4, FS_Interval
    <3> QED BY <3>1, <3>2, FS_Subset
  <2> QED BY <1>8, <1>23, <2>1, FS_AddElement
<1> DEFINE u == KeepLowerPart(t, at, s, info)
           rows == [cut EXCEPT ![at + 1] = new]
<1>26. u = [rows |-> rows, count |-> s.count + 1, ok |-> TRUE]
  <2> DEFINE a == s.rows
             b0 == s.count
  <2>1. s = [rows |-> a, count |-> b0, ok |-> TRUE]
    BY <1>8
  <2>2. u = [s EXCEPT !.rows = rows, !.count = s.count + 1]
    BY <1>21
  <2> HIDE DEF a, b0, rows, u
  <2> DEFINE n == s.count + 1
  <2>3. s.ok = TRUE /\ DOMAIN s = {"rows", "count", "ok"}
    BY <2>1
  <2> HIDE DEF n
  <2>4. u = [s EXCEPT !.rows = rows, !.count = n]
    BY <2>2 DEF n
  <2>5. DOMAIN u = {"rows", "count", "ok"}
    BY <2>3, <2>4
  <2>6. u.rows = rows /\ u.count = n /\ u.ok = TRUE
    BY <2>3, <2>4
  <2>7. u = [x \in {"rows", "count", "ok"} |-> u[x]]
    BY <2>4, <2>5
  <2>8. u = [rows |-> rows, count |-> n, ok |-> TRUE]
    BY <2>6, <2>7
  <2> QED BY <2>8 DEF n
<1>27. /\ rows = [r \in 1..R |-> rows[r]] /\ rows[at + 1] = new
       /\ \A r \in 1..R : r # at /\ r # at + 1 => rows[r] = t.rows[r]
       /\ rows[at] = [s.rows[at] EXCEPT ![m].rowSpan = 1]
  <2>1. cut = [r \in 1..R |-> IF r = at THEN [s.rows[at] EXCEPT ![m].rowSpan = 1] ELSE s.rows[r]]
    BY <1>4, <1>8 DEF cut
  <2> QED BY <1>4, <1>8, <2>1
<1>28. /\ rows[at] = [i \in 1..Len(t.rows[at]) |-> rows[at][i]]
       /\ \A i \in 1..Len(t.rows[at]) : i # m => rows[at][i] = s.rows[at][i]
  <2> HIDE DEF rows, m
  <2> QED BY <1>8, <1>27
<1>29. ASSUME NEW i \in 1..Len(t.rows[at]), K[at][i] > k
       PROVE  rows[at][i] = t.rows[at][i]
  <2>1. Line(t.rows[at], K[at], Starts(G, at, C), CellsOf(G, at, C))
    BY <1>4, <1>5
  <2>2. Starts(G, at, C) \in SUBSET Int
    BY <1>2 DEF Starts
  <2>3. K[at][i] \in Int
    BY <2>1, <2>2, LineFacts
  <2>4. i # m /\ K[at][i] > k - 1
    BY <1>4, <1>7, <1>29, <2>3
  <2> QED BY <1>8, <1>28, <2>4
<1> HIDE DEF u, rows
<1>30. u.rows = rows /\ u.count = s.count + 1 /\ u = [rows |-> u.rows, count |-> u.count, ok |-> TRUE]
  BY <1>26
<1> HIDE DEF X
<1>31. Lined(rows[at + 1], Starts(G, at + 1, C) \union Low(G, at, k), CellsOf(D, at, C))
  BY <1>22, <1>24, <1>27 DEF f
<1>32. KeptTo(t, R, C, G, K, at, D, u, k)
  BY <1>25, <1>27, <1>28, <1>29, <1>30, <1>31 DEF KeptTo
<1> QED BY <1>32 DEF u

\* A column where no cell of the row begins changes nothing.
LEMMA KeepSkip ==
  ASSUME NEW t, NEW R, NEW C, NEW G, NEW K, NEW at, NEW D, Removing(t, R, C, G, K, at, D),
         NEW k \in 1..C, k \notin Low(G, at, C), NEW s, KeptTo(t, R, C, G, K, at, D, s, k - 1)
  PROVE  KeptTo(t, R, C, G, K, at, D, s, k)
<1>1. TableOf(t, R, C, G, K) /\ DelRowMove(G, R, C, at, D)
  BY DEF Removing
<1>2. C \in Nat /\ k \in Int /\ at \in 1..R
  BY <1>1, DelRowFacts DEF DelRowMove
<1>3. Low(G, at, k) = Low(G, at, k - 1)
  <2>1. 1..k = 1..(k - 1) \union {k}
    BY <1>2
  <2> QED BY <2>1 DEF Low
<1>4. \A i \in 1..Len(t.rows[at]) : K[at][i] > k => K[at][i] > k - 1
  <2>1. Line(t.rows[at], K[at], Starts(G, at, C), CellsOf(G, at, C))
    BY <1>1, <1>2 DEF TableOf
  <2>2. Starts(G, at, C) \in SUBSET Int
    BY <1>2 DEF Starts
  <2>3. \A i \in 1..Len(t.rows[at]) : K[at][i] \in Int
    BY <2>1, <2>2, LineFacts
  <2> QED BY <1>2, <2>3
<1> QED BY <1>3, <1>4 DEF KeptTo

\* Before the first cell nothing is kept yet.
LEMMA KeptNone ==
  ASSUME NEW t, NEW R, NEW C, NEW G, NEW K, NEW at, NEW D, Removing(t, R, C, G, K, at, D)
  PROVE  KeptTo(t, R, C, G, K, at, D, [rows |-> t.rows, count |-> 0, ok |-> TRUE], 0)
<1> DEFINE s == [rows |-> t.rows, count |-> 0, ok |-> TRUE]
           f == CellsOf(D, at, C)
<1>1. TableOf(t, R, C, G, K) /\ DelRowMove(G, R, C, at, D)
  BY DEF Removing
<1>2. C \in Nat /\ R \in Nat \ {0} /\ at \in Int /\ 1 <= at /\ at <= R /\ at \in 1..R
  BY <1>1, DelRowFacts
<1>3. /\ t.rows \in Seq(Seq(Cell)) /\ DOMAIN t.rows = 1..R
      /\ \A r \in 1..R : Line(t.rows[r], K[r], Starts(G, r, C), CellsOf(G, r, C))
  BY <1>1 DEF TableOf
<1>4. t.rows = [r \in 1..R |-> t.rows[r]]
  <2> DEFINE SC == Seq(Cell)
  <2>1. t.rows \in Seq(SC)
    BY <1>3
  <2> HIDE DEF SC
  <2>2. t.rows = [r \in DOMAIN t.rows |-> t.rows[r]]
    BY <2>1
  <2> QED BY <1>3, <2>2
<1>5. t.rows[at] = [i \in 1..Len(t.rows[at]) |-> t.rows[at][i]]
  <2>1. t.rows[at] \in Seq(Cell)
    BY <1>2, <1>3, RowsTyped
  <2> QED BY <2>1
<1>6. Low(G, at, 0) = {} /\ Cardinality({}) = 0
  BY FS_EmptySet DEF Low
<1>7. ASSUME at < R
      PROVE  Lined(t.rows[at + 1], Starts(G, at + 1, C) \union {}, f)
  <2>1. at + 1 \in 1..R
    BY <1>2, <1>7
  <2>2. Line(t.rows[at + 1], K[at + 1], Starts(G, at + 1, C), CellsOf(G, at + 1, C))
    BY <1>3, <2>1
  <2>3. \A c \in Starts(G, at + 1, C) : f[c] = CellsOf(G, at + 1, C)[c]
    <3>1. \A c \in Starts(G, at + 1, C) : f[c] = G[at + 1][c].cell
      BY <1>1, <1>7, DelRowNext
    <3>2. \A c \in Starts(G, at + 1, C) : CellsOf(G, at + 1, C)[c] = G[at + 1][c].cell
      BY DEF CellsOf, Starts
    <3> HIDE DEF f
    <3> QED BY <3>1, <3>2
  <2> HIDE DEF f
  <2>4. Line(t.rows[at + 1], K[at + 1], Starts(G, at + 1, C), f)
    BY <2>2, <2>3 DEF Line
  <2>5. Starts(G, at + 1, C) \union {} = Starts(G, at + 1, C)
    OBVIOUS
  <2> QED BY <2>4, <2>5 DEF Lined
<1>8. s.rows = t.rows /\ s.count = 0 /\ s = [rows |-> s.rows, count |-> s.count, ok |-> TRUE]
  OBVIOUS
<1> HIDE DEF s
<1>9. KeptTo(t, R, C, G, K, at, D, s, 0)
  BY <1>4, <1>5, <1>6, <1>7, <1>8 DEF KeptTo
<1> QED BY <1>9 DEF s

(* f[c] is what KeepLowerParts has made of the rows after column c.         *)
KeepSteps(f, t, at) ==
    /\ KeepLowerParts(t, at) = f[t.colsNum]
    /\ \A c \in 0..t.colsNum :
          LET info == t.index[<<at, c>>]
          IN  f[c] = IF c = 0 THEN [rows |-> t.rows, count |-> 0, ok |-> TRUE]
                     ELSE IF info.row = at /\ info.col = c /\ info.rowSpan > 1
                     THEN KeepLowerPart(t, at, f[c - 1], info)
                     ELSE f[c - 1]

\* KeepLowerParts goes through the columns.
LEMMA KeepStepsAre ==
  ASSUME NEW t, t.colsNum \in Nat, NEW at
  PROVE  \E f : KeepSteps(f, t, at)
<1> DEFINE C == t.colsNum
           init == [rows |-> t.rows, count |-> 0, ok |-> TRUE]
           low(c) == t.index[<<at, c>>].row = at /\ t.index[<<at, c>>].col = c /\ t.index[<<at, c>>].rowSpan > 1
           step(s, c) == IF low(c) THEN KeepLowerPart(t, at, s, t.index[<<at, c>>]) ELSE s
           Good(f, n) == f = [c \in 0..n |-> IF c = 0 THEN init
                                ELSE IF t.index[<<at, c>>].row = at /\ t.index[<<at, c>>].col = c /\ t.index[<<at, c>>].rowSpan > 1
                                THEN KeepLowerPart(t, at, f[c - 1], t.index[<<at, c>>]) ELSE f[c - 1]]
           keep == CHOOSE f : Good(f, t.colsNum)
<1>2. C \in Nat /\ t.colsNum = C
  OBVIOUS
<1>3. KeepLowerParts(t, at) = keep[t.colsNum]
  BY DEF KeepLowerParts
<1>4. \A f, n : Good(f, n) <=> f = [c \in 0..n |-> IF c = 0 THEN init ELSE step(f[c - 1], c)]
  OBVIOUS
<1> HIDE DEF Good, step, init
\* The equation has a solution.
<1>5. \E f : Good(f, t.colsNum)
  <2> DEFINE all == {n \in Nat : \E f : f = [c \in 0..n |-> IF c = 0 THEN init ELSE step(f[c - 1], c)]}
  <2>1. 0 \in all
    <3> DEFINE f == [c \in 0..0 |-> init]
    <3>1. f = [c \in 0..0 |-> IF c = 0 THEN init ELSE step(f[c - 1], c)]
      OBVIOUS
    <3> HIDE DEF f
    <3> QED BY <3>1
  <2>2. ASSUME NEW n \in Nat, n \in all
        PROVE  n + 1 \in all
    <3>1. PICK f : f = [c \in 0..n |-> IF c = 0 THEN init ELSE step(f[c - 1], c)]
      BY <2>2
    <3> DEFINE e == step(f[n], n + 1)
               g == [c \in 0..(n + 1) |-> IF c = n + 1 THEN e ELSE f[c]]
    <3>2. \A c \in 0..n : c \in 0..(n + 1) /\ c # n + 1 /\ g[c] = f[c]
      OBVIOUS
    <3>3. n + 1 \in 0..(n + 1) /\ n \in 0..n /\ n + 1 # 0 /\ g[n + 1] = e /\ (n + 1) - 1 = n
      OBVIOUS
    <3>4. \A c \in 0..n : f[c] = IF c = 0 THEN init ELSE step(f[c - 1], c)
      BY <3>1
    <3>5. g = [c \in 0..(n + 1) |-> g[c]]
      OBVIOUS
    <3> HIDE DEF g
    <3>6. ASSUME NEW c \in 0..(n + 1)
          PROVE  g[c] = IF c = 0 THEN init ELSE step(g[c - 1], c)
      <4>1. CASE c = n + 1
        <5>1. g[n] = f[n]
          BY <3>2, <3>3
        <5> QED BY <3>3, <4>1, <5>1
      <4>2. CASE c # n + 1
        <5>1. c \in 0..n /\ (c # 0 => c - 1 \in 0..n)
          BY <4>2
        <5>2. g[c] = f[c] /\ (c # 0 => g[c - 1] = f[c - 1])
          BY <3>2, <5>1
        <5> HIDE DEF e
        <5> QED BY <3>4, <5>1, <5>2
      <4> QED BY <4>1, <4>2
    <3>7. g = [c \in 0..(n + 1) |-> IF c = 0 THEN init ELSE step(g[c - 1], c)]
      BY <3>5, <3>6
    <3> QED BY <3>7
  <2>3. C \in all
    <3> HIDE DEF all
    <3> QED BY <1>2, <2>1, <2>2, NatInSet
  <2> QED BY <1>2, <1>4, <2>3
<1>6. Good(keep, t.colsNum)
  BY <1>5
<1> HIDE DEF keep
<1>7. \A c \in 0..C : keep[c] = IF c = 0 THEN init ELSE step(keep[c - 1], c)
  <2>1. keep = [c \in 0..C |-> IF c = 0 THEN init ELSE step(keep[c - 1], c)]
    BY <1>2, <1>4, <1>6
  <2> QED BY <2>1
<1> DEFINE f == keep
<1>8. \A c \in 0..C : f[c] = IF c = 0 THEN init ELSE IF low(c) THEN KeepLowerPart(t, at, f[c - 1], t.index[<<at, c>>]) ELSE f[c - 1]
  BY <1>7 DEF step
<1>9. KeepLowerParts(t, at) = f[C]
  BY <1>3
<1> HIDE DEF f
<1>10. KeepSteps(f, t, at)
  BY <1>8, <1>9 DEF KeepSteps, init
<1> QED BY <1>10

\* When every column is done, every lower part is kept.
LEMMA KeptAll ==
  ASSUME NEW t, NEW R, NEW C, NEW G, NEW K, NEW at, NEW D, Removing(t, R, C, G, K, at, D)
  PROVE  KeptTo(t, R, C, G, K, at, D, KeepLowerParts(t, at), C)
<1> DEFINE init == [rows |-> t.rows, count |-> 0, ok |-> TRUE]
           low(c) == t.index[<<at, c>>].row = at /\ t.index[<<at, c>>].col = c /\ t.index[<<at, c>>].rowSpan > 1
           step(s, c) == IF low(c) THEN KeepLowerPart(t, at, s, t.index[<<at, c>>]) ELSE s
<1>1. /\ TableOf(t, R, C, G, K) /\ DelRowMove(G, R, C, at, D)
      /\ \A r \in 1..R, c \in 1..C : Agrees(t, G, K, r, c)
  BY DEF Removing
<1>2. C \in Nat /\ t.colsNum = C /\ at \in 1..R
  BY <1>1 DEF TableOf, DelRowMove
<1>3. PICK keep : KeepSteps(keep, t, at)
  BY <1>2, KeepStepsAre
<1>4. KeepLowerParts(t, at) = keep[C]
  BY <1>2, <1>3 DEF KeepSteps
<1>7. \A c \in 0..C : keep[c] = IF c = 0 THEN init ELSE step(keep[c - 1], c)
  BY <1>2, <1>3 DEF KeepSteps
<1> HIDE DEF init, step
<1> DEFINE ok == {n \in Nat : n <= C => KeptTo(t, R, C, G, K, at, D, keep[n], n)}
<1>8. 0 \in ok
  <2>1. keep[0] = init
    BY <1>2, <1>7
  <2> QED BY <2>1, KeptNone DEF init
<1>9. ASSUME NEW n \in Nat, n \in ok
      PROVE  n + 1 \in ok
  <2> SUFFICES ASSUME n + 1 <= C
               PROVE  KeptTo(t, R, C, G, K, at, D, keep[n + 1], n + 1)
    OBVIOUS
  <2> DEFINE k == n + 1
  <2>1. k \in 1..C /\ k \in 0..C /\ k # 0 /\ k - 1 = n /\ n <= C
    BY <1>2
  <2>2. keep[k] = step(keep[k - 1], k)
    BY <1>7, <2>1
  <2>3. KeptTo(t, R, C, G, K, at, D, keep[k - 1], k - 1)
    BY <1>9, <2>1
  <2> HIDE DEF k
  <2>4. low(k) <=> k \in Low(G, at, C)
    <3>1. Agrees(t, G, K, at, k)
      BY <1>1, <1>2, <2>1
    <3> QED BY <2>1, <3>1 DEF Low, Agrees
  <2>5. KeptTo(t, R, C, G, K, at, D, keep[k], k)
    <3>1. CASE k \in Low(G, at, C)
      <4>1. keep[k] = KeepLowerPart(t, at, keep[k - 1], t.index[<<at, k>>])
        BY <2>2, <2>4, <3>1 DEF step
      <4> QED BY <2>3, <3>1, <4>1, KeepStep
    <3>2. CASE k \notin Low(G, at, C)
      <4>1. keep[k] = keep[k - 1]
        BY <2>2, <2>4, <3>2 DEF step
      <4> QED BY <2>1, <2>3, <3>2, <4>1, KeepSkip
    <3> QED BY <3>1, <3>2
  <2> QED BY <2>5 DEF k
<1>10. C \in ok
  <2> HIDE DEF ok
  <2> QED BY <1>2, <1>8, <1>9, NatInSet
<1> QED BY <1>2, <1>4, <1>10

\* What deleteRow leaves is the layout without the row.
LEMMA DelRowLays ==
  ASSUME NEW t, Tiled(t), NEW R, NEW C, NEW G, NEW K, NEW at, NEW D, Removing(t, R, C, G, K, at, D)
  PROVE  \E rows : deleteRow(t, at) = update(rows) /\ Lays(rows, C, {}, D) /\ Len(rows) = R - 1
<1> DEFINE s == KeepLowerParts(t, at)
           reaching == {<<info.row, info.cell>> : info \in {t.index[<<at, c>>] : c \in 1..t.colsNum}}
           shorter == [r \in DOMAIN s.rows |-> [i \in DOMAIN s.rows[r] |->
                          IF r < at /\ <<r, i>> \in reaching THEN [s.rows[r][i] EXCEPT !.rowSpan = @ - 1]
                                                             ELSE s.rows[r][i]]]
           rows == RemoveAt(shorter, at)
<1>1. /\ TableOf(t, R, C, G, K) /\ DelRowMove(G, R, C, at, D)
      /\ \A r \in 1..R, c \in 1..C : Agrees(t, G, K, r, c)
      /\ \A r \in 1..R : \A i \in 1..Len(t.rows[r]) : Stands(t, R, C, G, K, r, i)
  BY DEF Removing
<1>2. /\ C \in Nat /\ R \in Nat \ {0} /\ at \in Int /\ 1 <= at /\ at <= R /\ Laid(G, R, C, {})
      /\ at \in 1..R /\ R > 1 /\ D = DelRowGrid(G, R, C, at)
  BY <1>1, DelRowFacts DEF DelRowMove
<1>3. /\ t.rows \in Seq(Seq(Cell)) /\ Len(t.rows) = R /\ DOMAIN t.rows = 1..R /\ t.colsNum = C
      /\ \A r \in 1..R : Line(t.rows[r], K[r], Starts(G, r, C), CellsOf(G, r, C))
  BY <1>1 DEF TableOf
<1>4. KeptTo(t, R, C, G, K, at, D, s, C)
  BY KeptAll
<1>5. deleteRow(t, at) = IF s.ok THEN update(rows) ELSE Throw(t, s.rows)
  BY DEF deleteRow
<1>6. reaching = {<<t.index[<<at, c>>].row, t.index[<<at, c>>].cell>> : c \in 1..C}
  BY <1>3
<1> HIDE DEF s, reaching
<1>7. /\ s.ok = TRUE /\ s.rows = [r \in 1..R |-> s.rows[r]] /\ DOMAIN s.rows = 1..R
      /\ \A r \in 1..R : r # at /\ r # at + 1 => s.rows[r] = t.rows[r]
      /\ at < R => Lined(s.rows[at + 1], Starts(G, at + 1, C) \union Low(G, at, C), CellsOf(D, at, C))
  <2>1. s = [rows |-> s.rows, count |-> s.count, ok |-> TRUE] /\ s.rows = [r \in 1..R |-> s.rows[r]]
    BY <1>4 DEF KeptTo
  <2>2. s.ok = TRUE
    BY <2>1
  <2>3. DOMAIN s.rows = 1..R
    BY <2>1
  <2> QED BY <1>4, <2>1, <2>2, <2>3 DEF KeptTo
<1>8. deleteRow(t, at) = update(rows)
  <2> HIDE DEF rows
  <2> QED BY <1>5, <1>7
<1>9. /\ shorter = [r \in 1..R |-> shorter[r]]
      /\ \A r \in 1..R : shorter[r] = [i \in DOMAIN s.rows[r] |->
             IF r < at /\ <<r, i>> \in reaching THEN [s.rows[r][i] EXCEPT !.rowSpan = @ - 1] ELSE s.rows[r][i]]
  BY <1>7
<1>10. \A a, b : <<a, b>> \in reaching <=> MeetsRow(t, C, a, b, at)
  BY <1>6 DEF MeetsRow
<1> HIDE DEF shorter
\* The rows below the one taken out stay, the next one with the lower parts.
<1>11. ASSUME NEW r \in 1..R, r > at
       PROVE  shorter[r] = s.rows[r]
  <2>1. s.rows[r] \in Seq(Cell)
    <3>1. CASE r = at + 1
      <4>1. at < R
        BY <1>2, <3>1
      <4> QED BY <1>7, <3>1, <4>1 DEF Lined, Line
    <3>2. CASE r # at + 1
      <4>1. s.rows[r] = t.rows[r]
        BY <1>2, <1>7, <1>11, <3>2
      <4> QED BY <1>3, <4>1, RowsTyped
    <3> QED BY <3>1, <3>2
  <2>2. ~(r < at)
    BY <1>2, <1>11
  <2>3. shorter[r] = [i \in DOMAIN s.rows[r] |-> s.rows[r][i]]
    BY <1>9, <2>2
  <2> DEFINE v == s.rows[r]
  <2>4. v = [i \in DOMAIN v |-> v[i]]
    <3>1. v \in Seq(Cell)
      BY <2>1
    <3> HIDE DEF v
    <3> QED BY <3>1
  <2> QED BY <2>3, <2>4
\* In the rows above it the cells that reach it are one row shorter.
<1>12. ASSUME NEW r \in 1..R, r < at
       PROVE  /\ shorter[r] \in Seq(Cell) /\ Len(shorter[r]) = Len(t.rows[r])
              /\ \A i \in 1..Len(t.rows[r]) : shorter[r][i] = DelRowCell(G[r][K[r][i]], at).cell
  <2>1. s.rows[r] = t.rows[r]
    BY <1>2, <1>7, <1>12
  <2>2. shorter[r] = [i \in DOMAIN t.rows[r] |->
          IF <<r, i>> \in reaching THEN [t.rows[r][i] EXCEPT !.rowSpan = @ - 1] ELSE t.rows[r][i]]
    BY <1>9, <1>12, <2>1
  <2>3. DOMAIN t.rows[r] = 1..Len(t.rows[r]) /\ Len(t.rows[r]) \in Nat
    BY <1>3, RowsTyped
  <2>4. ASSUME NEW i \in 1..Len(t.rows[r])
        PROVE  shorter[r][i] \in Cell /\ shorter[r][i] = DelRowCell(G[r][K[r][i]], at).cell
    <3> DEFINE g == G[r][K[r][i]]
               x == t.rows[r][i]
    <3>1. Stands(t, R, C, G, K, r, i)
      BY <1>1
    <3>2. x \in Cell /\ g.row = r /\ x = g.cell
      BY <3>1 DEF Stands
    <3>3. <<r, i>> \in reaching <=> r <= at /\ at < r + x.rowSpan
      <4>1. MeetsRow(t, C, r, i, at) <=> (r <= at /\ at < r + t.rows[r][i].rowSpan)
        BY <1>1, <1>2, <3>1, InRow
      <4> QED BY <1>10, <4>1
    <3>4. shorter[r][i] = IF <<r, i>> \in reaching THEN [x EXCEPT !.rowSpan = @ - 1] ELSE x
      BY <2>2, <2>3
    <3> HIDE DEF x, g
    <3>5. x.rowSpan \in Nat \ {0} /\ r \in Int /\ r # at /\ r <= at
      BY <1>2, <1>12, <3>2, CellTyped
    <3>6. DelRowCell(g, at).cell = IF at < r + x.rowSpan THEN [x EXCEPT !.rowSpan = @ - 1] ELSE x
      BY <1>12, <3>2, <3>5 DEF DelRowCell
    <3>7. at < r + x.rowSpan => x.rowSpan - 1 \in Nat \ {0}
      BY <1>2, <1>12, <3>5
    <3>8. at < r + x.rowSpan => [x EXCEPT !.rowSpan = @ - 1] \in Cell
      BY <3>2, <3>7 DEF Cell
    <3> QED BY <3>2, <3>3, <3>4, <3>5, <3>6, <3>8 DEF g
  <2>5. shorter[r] \in [1..Len(t.rows[r]) -> Cell]
    <3>1. shorter[r] = [i \in 1..Len(t.rows[r]) |-> shorter[r][i]]
      BY <2>2, <2>3
    <3> QED BY <2>4, <3>1
  <2> QED BY <2>3, <2>4, <2>5, FcnIsSeq
<1>13. /\ Len(rows) = R - 1 /\ rows = [j \in 1..(R - 1) |-> rows[j]]
       /\ \A j \in 1..(R - 1) : rows[j] = IF j < at THEN shorter[j] ELSE shorter[j + 1]
  <2> DEFINE S == {shorter[r] : r \in 1..R}
  <2>1. shorter \in [1..R -> S]
    <3>1. \A r \in 1..R : shorter[r] \in S
      OBVIOUS
    <3> HIDE DEF S
    <3> QED BY <1>9, <3>1
  <2> HIDE DEF S
  <2>2. shorter \in Seq(S) /\ Len(shorter) = R
    BY <1>2, <2>1, FcnIsSeq
  <2>3. /\ RemoveAt(shorter, at) \in Seq(S) /\ Len(RemoveAt(shorter, at)) = R - 1
        /\ \A j \in 1..(R - 1) : RemoveAt(shorter, at)[j] = IF j < at THEN shorter[j] ELSE shorter[j + 1]
    BY <1>2, <2>2, TakenOut
  <2>4. rows \in Seq(S) /\ rows = RemoveAt(shorter, at)
    BY <2>3
  <2> HIDE DEF rows
  <2>5. rows = [j \in 1..Len(rows) |-> rows[j]]
    BY <2>4
  <2> QED BY <2>3, <2>4, <2>5
<1> HIDE DEF rows
<1>14. ASSUME NEW j \in 1..(R - 1)
       PROVE  Lined(rows[j], Starts(D, j, C), CellsOf(D, j, C))
  <2> DEFINE f == CellsOf(D, j, C)
             X == Starts(D, j, C)
  <2>1. CASE j < at
    <3>1. j \in 1..R /\ j # at /\ j # at + 1 /\ j = (IF j < at THEN j ELSE j - 1)
      BY <1>2, <2>1
    <3>2. X = Starts(G, j, C) /\ \A c \in Starts(G, j, C) : f[c] = DelRowCell(G[j][c], at).cell
      BY <1>1, <3>1, DelRowOther
    <3>3. rows[j] = shorter[j]
      BY <1>13, <2>1
    <3>4. /\ rows[j] \in Seq(Cell) /\ Len(rows[j]) = Len(t.rows[j])
          /\ \A i \in 1..Len(t.rows[j]) : rows[j][i] = DelRowCell(G[j][K[j][i]], at).cell
      BY <1>12, <2>1, <3>1, <3>3
    <3>5. Line(t.rows[j], K[j], Starts(G, j, C), CellsOf(G, j, C))
      BY <1>3, <3>1
    <3>6. \A i \in 1..Len(t.rows[j]) : K[j][i] \in Starts(G, j, C)
      BY <3>5 DEF Line
    <3> HIDE DEF f, X
    <3>7. \A i \in 1..Len(t.rows[j]) : rows[j][i] = f[K[j][i]]
      BY <3>2, <3>4, <3>6
    <3>8. Line(rows[j], K[j], X, f)
      BY <3>2, <3>4, <3>5, <3>7, LineSame
    <3> QED BY <3>8 DEF Lined, f, X
  <2>2. CASE j = at
    <3>1. at < R /\ at + 1 \in 1..R /\ at + 1 > at /\ ~(at < at)
      BY <1>2, <2>2
    <3>2. rows[j] = s.rows[at + 1]
      BY <1>11, <1>13, <2>2, <3>1
    <3>3. Starts(D, at, C) = Starts(G, at + 1, C) \union Low(G, at, C)
      BY <1>1, <3>1, DelRowNext
    <3> QED BY <1>7, <2>2, <3>1, <3>2, <3>3
  <2>3. CASE j > at
    <3> DEFINE r == j + 1
    <3>1. r \in 1..R /\ r # at /\ r # at + 1 /\ j = (IF r < at THEN r ELSE r - 1) /\ r > at /\ ~(j < at)
      BY <1>2, <2>3
    <3>2. rows[j] = t.rows[r]
      BY <1>7, <1>11, <1>13, <3>1
    <3> HIDE DEF r
    <3>3. X = Starts(G, r, C) /\ \A c \in Starts(G, r, C) : f[c] = DelRowCell(G[r][c], at).cell
      BY <1>1, <3>1, DelRowOther
    <3>4. \A c \in Starts(G, r, C) : f[c] = CellsOf(G, r, C)[c]
      <4>1. ASSUME NEW c \in Starts(G, r, C)
            PROVE  f[c] = CellsOf(G, r, C)[c]
        <5> DEFINE g == G[r][c]
        <5>1. c \in 1..C /\ g.row = r /\ CellsOf(G, r, C)[c] = g.cell /\ f[c] = DelRowCell(g, at).cell
          BY <3>3 DEF Starts, CellsOf
        <5> HIDE DEF g, f
        <5>2. DelRowCell(g, at).cell = g.cell
          BY <1>2, <3>1, <5>1 DEF DelRowCell
        <5> QED BY <5>1, <5>2
      <4> QED BY <4>1
    <3>5. Line(t.rows[r], K[r], Starts(G, r, C), CellsOf(G, r, C))
      BY <1>3, <3>1
    <3> HIDE DEF f
    <3>6. Line(t.rows[r], K[r], Starts(G, r, C), f)
      BY <3>4, <3>5 DEF Line
    <3> QED BY <3>2, <3>3, <3>6 DEF Lined, f
  <2>4. j < at \/ j = at \/ j > at
    BY <1>2
  <2> QED BY <2>1, <2>2, <2>3, <2>4
<1>15. Laid(D, R - 1, C, {}) /\ R - 1 \in Nat \ {0}
  BY <1>2, DelRowLaid
<1>16. Lays(rows, C, {}, D)
  BY <1>13, <1>14, <1>15, LaysFrom
<1> QED BY <1>8, <1>13, <1>16

\* A row taken out, none of whose lower parts is lost, leaves a tiled table,
\* and the positions of the cells of other rows their contents.
LEMMA DelRowKeeps ==
  ASSUME NEW t, Tiled(t), t.rowsNum > 1, NEW at \in 1..t.rowsNum, ~LeavesIn(t, at)
  PROVE  /\ Tiled(deleteRow(t, at)) /\ deleteRow(t, at).state = "ready"
         /\ \A r \in 1..t.rowsNum, c \in 1..t.colsNum :
              t.index[<<r, c>>].row # at => TextAt(deleteRow(t, at), <<Shift(r, at, -1), c>>) = TextAt(t, <<r, c>>)
<1> DEFINE R == t.rowsNum
           C == t.colsNum
           G == GridOf(t)
           K == ColumnsOf(t)
           D == DelRowGrid(G, R, C, at)
           u == deleteRow(t, at)
<1>0. R \in Nat /\ R > 0
  <2>1. R \in Nat
    BY DEF Tiled
  <2> QED BY <2>1
<1>1. /\ TableOf(t, R, C, G, K)
      /\ \A r \in 1..R, c \in 1..C : Agrees(t, G, K, r, c)
      /\ \A r \in 1..R : \A i \in 1..Len(t.rows[r]) : Stands(t, R, C, G, K, r, i)
  BY <1>0, TableOfTiled
<1> HIDE DEF G, K
<1>2. C \in Nat /\ at \in Int /\ 1 <= at /\ at <= R /\ Laid(G, R, C, {})
  BY <1>0, <1>1 DEF TableOf
<1>3. Removing(t, R, C, G, K, at, D) /\ DelRowMove(G, R, C, at, D)
  BY <1>1, <1>2 DEF Removing, DelRowMove
<1>4. PICK rows : deleteRow(t, at) = update(rows) /\ Lays(rows, C, {}, D) /\ Len(rows) = R - 1
  <2> HIDE DEF D
  <2> QED BY <1>3, DelRowLays
<1>5. LooksLike(u, rows, C, D)
  BY <1>4, UpdateLays
<1>6. Tiled(u) /\ u.state = "ready"
  BY <1>5 DEF LooksLike
<1> HIDE DEF u, D
<1>7. ASSUME NEW r \in 1..R, NEW c \in 1..C, t.index[<<r, c>>].row # at
      PROVE  TextAt(u, <<Shift(r, at, -1), c>>) = TextAt(t, <<r, c>>)
  <2> DEFINE d == Shift(r, at, -1)
             g == G[r][c]
  <2>1. Agrees(t, G, K, r, c)
    BY <1>1
  <2>2. g.row # at /\ TextAt(t, <<r, c>>) = g.cell.text
    <3>1. g.row = t.index[<<r, c>>].row
      BY <2>1 DEF Agrees
    <3>2. TextAt(t, <<r, c>>) = g.cell.text
      BY <2>1, TextIn
    <3> QED BY <1>7, <3>1, <3>2
  <2>3. Box(G, R, C, r, c)
    BY <1>2, Boxed
  <2>4. /\ g.row \in Int /\ 1 <= g.row /\ g.row <= r /\ r < g.row + g.cell.rowSpan /\ g.cell.rowSpan \in Int
        /\ g.col \in Int /\ g.col <= c /\ c < g.col + g.cell.colSpan /\ g.cell \in Cell /\ c \in Int /\ r \in Int
    BY <2>3 DEF Box
  <2>5. d \in 1..(R - 1) /\ d = (IF r < at THEN r ELSE r - 1) /\ d \in Int
    BY <1>0, <1>2, <2>2, <2>4 DEF Shift
  <2>6. \A x, y : Within(g, x, y) => G[x][y] = g
    BY <2>3, BoxAll
  <2> DEFINE e == IF d < at THEN d ELSE d + 1
  <2> HIDE DEF d, g
  <2>7. G[e][c] = g
    <3>1. CASE r # at
      <4>1. e = r
        BY <1>2, <2>4, <2>5, <3>1
      <4> QED BY <4>1 DEF g
    <3>2. CASE r = at
      <4>1. e = r - 1
        BY <1>2, <2>4, <2>5, <3>2
      <4>2. g.row <= e /\ e < g.row + g.cell.rowSpan /\ e \in Int
        BY <2>2, <2>4, <3>2, <4>1
      <4>3. Within(g, e, c)
        BY <2>4, <4>2 DEF Within
      <4> QED BY <2>6, <4>3
    <3> QED BY <3>1, <3>2
  <2>8. D[d][c] = DelRowCell(g, at)
    BY <1>3, <2>5, <2>7, DelRowFacts
  <2>9. TextAt(u, <<d, c>>) = D[d][c].cell.text
    BY <1>4, <1>5, <2>5, TextLike
  <2>10. DelRowCell(g, at).cell.text = g.cell.text
    BY <2>2, <2>4 DEF DelRowCell, Cell
  <2> QED BY <2>2, <2>8, <2>9, <2>10 DEF d
<1> QED BY <1>6, <1>7 DEF u

\* Wherever a row or a column is put in or taken out of a tiled table, the
\* contents that stay are where they moved to.
LEMMA PlacesKept == ContentsKeepPlace
<1> SUFFICES ASSUME ut.state = "ready", Tiled(ut)
             PROVE  /\ \A at \in 1..(ut.rowsNum + 1) :
                          Kept(ut, insertRow(ut, at), LAMBDA pos : <<Shift(pos[1], at, 1), pos[2]>>, {})
                    /\ \A at \in {r \in 1..ut.rowsNum : ~LeavesARest(r)} :
                          Kept(ut, deleteRow(ut, at), LAMBDA pos : <<Shift(pos[1], at, -1), pos[2]>>,
                               {pos \in DOMAIN ut.index : ut.index[pos].row = at})
                    /\ \A at \in {c \in 1..(ut.colsNum + 1) : ShallowColumn(c)} :
                          Kept(ut, insertCol(ut, at), LAMBDA pos : <<pos[1], Shift(pos[2], at, 1)>>, {})
                    /\ \A at \in 1..ut.colsNum :
                          Kept(ut, deleteCol(ut, at), LAMBDA pos : <<pos[1], Shift(pos[2], at, -1)>>,
                               {pos \in DOMAIN ut.index : pos[2] = at})
  BY DEF ContentsKeepPlace
<1> DEFINE R == ut.rowsNum
           C == ut.colsNum
<1>1. R \in Nat /\ C \in Nat /\ DOMAIN ut.index = (1..R) \X (1..C) /\ R = Len(ut.rows)
  BY DEF Tiled
<1>2. ASSUME NEW pos \in DOMAIN ut.index
      PROVE  pos[1] \in 1..R /\ pos[2] \in 1..C /\ pos = <<pos[1], pos[2]>> /\ R > 0 /\ C > 0
  BY <1>1
<1>3. ASSUME NEW at \in 1..(R + 1)
      PROVE  Kept(ut, insertRow(ut, at), LAMBDA pos : <<Shift(pos[1], at, 1), pos[2]>>, {})
  <2> DEFINE u == insertRow(ut, at)
  <2>1. ASSUME u.state = "ready", NEW pos \in DOMAIN ut.index \ {}
        PROVE  TextAt(u, <<Shift(pos[1], at, 1), pos[2]>>) = TextAt(ut, pos)
    <3>1. pos[1] \in 1..R /\ pos[2] \in 1..C /\ pos = <<pos[1], pos[2]>> /\ R > 0
      BY <1>2
    <3>2. \A r \in 1..R, c \in 1..C : TextAt(u, <<Shift(r, at, 1), c>>) = TextAt(ut, <<r, c>>)
      BY <2>1, <3>1, InsRowKeeps
    <3> HIDE DEF u
    <3> QED BY <3>1, <3>2
  <2> QED BY <2>1 DEF Kept
<1>4. ASSUME NEW at \in {r \in 1..R : ~LeavesARest(r)}
      PROVE  Kept(ut, deleteRow(ut, at), LAMBDA pos : <<Shift(pos[1], at, -1), pos[2]>>,
                  {pos \in DOMAIN ut.index : ut.index[pos].row = at})
  <2> DEFINE u == deleteRow(ut, at)
  <2>1. ~LeavesIn(ut, at) /\ at \in 1..R
    BY DEF LeavesIn, LeavesARest
  <2>2. ASSUME u.state = "ready", NEW pos \in DOMAIN ut.index \ {p \in DOMAIN ut.index : ut.index[p].row = at}
        PROVE  TextAt(u, <<Shift(pos[1], at, -1), pos[2]>>) = TextAt(ut, pos)
    <3>1. pos[1] \in 1..R /\ pos[2] \in 1..C /\ pos = <<pos[1], pos[2]>> /\ R > 0 /\ ut.index[pos].row # at
      BY <1>2
    <3>a. R # 1
      <4>1. SUFFICES ASSUME R = 1
                     PROVE  FALSE
        OBVIOUS
      <4>2. Agrees(ut, GridOf(ut), ColumnsOf(ut), pos[1], pos[2]) /\ TableOf(ut, R, C, GridOf(ut), ColumnsOf(ut))
        BY <3>1, TableOfTiled
      <4>3. Box(GridOf(ut), R, C, pos[1], pos[2])
        BY <3>1, <4>2, Boxed DEF TableOf
      <4>4. GridOf(ut)[pos[1]][pos[2]].row \in 1..1
        BY <3>1, <4>1, <4>3 DEF Box
      <4>5. ut.index[pos].row = 1
        BY <3>1, <4>2, <4>4 DEF Agrees
      <4> QED BY <2>1, <3>1, <4>1, <4>5
    <3>2. R > 1
      <4>1. R \in Nat
        BY <1>1
      <4> HIDE DEF R
      <4> QED BY <3>1, <3>a, <4>1
    <3>3. \A r \in 1..R, c \in 1..C :
            ut.index[<<r, c>>].row # at => TextAt(u, <<Shift(r, at, -1), c>>) = TextAt(ut, <<r, c>>)
      BY <2>1, <3>2, DelRowKeeps
    <3> HIDE DEF u
    <3> QED BY <3>1, <3>3
  <2> QED BY <2>2 DEF Kept
<1>5. ASSUME NEW at \in {c \in 1..(C + 1) : ShallowColumn(c)}
      PROVE  Kept(ut, insertCol(ut, at), LAMBDA pos : <<pos[1], Shift(pos[2], at, 1)>>, {})
  <2> DEFINE u == insertCol(ut, at)
  <2>1. ShallowIn(ut, at) /\ at \in 1..(C + 1)
    BY DEF ShallowIn, ShallowColumn
  <2>2. ASSUME u.state = "ready", NEW pos \in DOMAIN ut.index \ {}
        PROVE  TextAt(u, <<pos[1], Shift(pos[2], at, 1)>>) = TextAt(ut, pos)
    <3>1. pos[1] \in 1..R /\ pos[2] \in 1..C /\ pos = <<pos[1], pos[2]>> /\ R > 0 /\ C > 0
      BY <1>2
    <3>2. \A r \in 1..R, c \in 1..C : TextAt(u, <<r, Shift(c, at, 1)>>) = TextAt(ut, <<r, c>>)
      BY <2>1, <2>2, <3>1, InsColKeeps
    <3> HIDE DEF u
    <3> QED BY <3>1, <3>2
  <2> QED BY <2>2 DEF Kept
<1>6. ASSUME NEW at \in 1..C
      PROVE  Kept(ut, deleteCol(ut, at), LAMBDA pos : <<pos[1], Shift(pos[2], at, -1)>>,
                  {pos \in DOMAIN ut.index : pos[2] = at})
  <2> DEFINE u == deleteCol(ut, at)
  <2>1. ASSUME u.state = "ready", NEW pos \in DOMAIN ut.index \ {p \in DOMAIN ut.index : p[2] = at}
        PROVE  TextAt(u, <<pos[1], Shift(pos[2], at, -1)>>) = TextAt(ut, pos)
    <3>1. pos[1] \in 1..R /\ pos[2] \in 1..C /\ pos = <<pos[1], pos[2]>> /\ R > 0 /\ pos[2] # at
      BY <1>2
    <3>2. \A r \in 1..R, c \in 1..C :
            c # at => TextAt(u, <<r, Shift(c, at, -1)>>) = TextAt(ut, <<r, c>>)
      BY <3>1, DelColKeeps
    <3> HIDE DEF u
    <3> QED BY <3>1, <3>2
  <2> QED BY <2>1 DEF Kept
<1> QED BY <1>3, <1>4, <1>5, <1>6

\* ContentsKeepPlace holds of every table the editor can have.
THEOREM TableContentsKeepPlace == TableSpec => []ContentsKeepPlace
BY PlacesKept, PTL
=============================================================================
