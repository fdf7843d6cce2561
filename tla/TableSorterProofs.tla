--------------------------- MODULE TableSorterProofs ---------------------------
(***************************************************************************)
(* Proofs about TableSorter for every set of tables and columns, every set *)
(* of rows and any number of timers.  The order the list and the cached    *)
(* positions give is total, so multisort has a sequence to choose; sorts,  *)
(* updates of rows and updates of cells then keep the cache and the page   *)
(* in step.                                                                *)
(***************************************************************************)
EXTENDS TableSorter, SequenceTheorems, FiniteSetTheorems, FunctionTheorems,
        WellFoundedInduction, TLAPS

--------------------------------------------------------------------------------
(* Numbers and orders *)

\* A non-empty set of numbers has a first.
LEMMA HasFirst ==
    ASSUME NEW S \in SUBSET Nat, S # {} PROVE \E m \in S : \A k \in S : m <= k
<1>1. PICK m \in S : \A k \in S : ~(<<k, m>> \in OpToRel(<, Nat))
  BY NatLessThanWellFounded, WFMin
<1>2. ASSUME NEW k \in S PROVE m <= k
  <2>1. k \in Nat /\ m \in Nat
    OBVIOUS
  <2>2. <<k, m>> \in OpToRel(<, Nat) <=> k < m
    BY <2>1 DEF OpToRel
  <2>3. ~(k < m)
    BY <1>1, <2>2, Zenon
  <2> QED
    BY <2>1, <2>3
<1> QED
  BY <1>2

\* Induction, with a set of numbers for the predicate.
LEMMA EveryNumber ==
    ASSUME NEW K, 0 \in K, \A k \in Nat : k \in K => k + 1 \in K PROVE Nat \subseteq K
<1> SUFFICES ASSUME NEW n \in Nat, n \notin K PROVE FALSE
  OBVIOUS
<1>1. PICK m \in Nat \ K : \A k \in Nat \ K : m <= k
  <2>1. Nat \ K \in SUBSET Nat /\ Nat \ K # {}
    OBVIOUS
  <2> QED
    BY <2>1, HasFirst
<1>2. m # 0 /\ m - 1 \in Nat
  BY <1>1
<1>3. m - 1 \in K
  BY <1>1, <1>2
<1>4. (m - 1) + 1 \in K
  BY <1>2, <1>3
<1> QED
  BY <1>1, <1>4

\* A strict total order, as a set of pairs.
Orders(R, S) ==
    /\ \A a \in S : <<a, a>> \notin R
    /\ \A a, b \in S : a # b => <<a, b>> \in R \/ <<b, a>> \in R
    /\ \A a, b, c \in S : <<a, b>> \in R /\ <<b, c>> \in R => <<a, c>> \in R

InOrder(R, seq, n) == \A i, j \in 1..n : i < j => <<seq[i], seq[j]>> \in R

LEMMA OrderOfPart ==
    ASSUME NEW R, NEW S, Orders(R, S), NEW T \in SUBSET S PROVE Orders(R, T)
  BY DEF Orders

\* A finite set has a least element.
LEMMA HasLeast ==
    ASSUME NEW R, NEW S, IsFiniteSet(S), Orders(R, S), S # {}
    PROVE  \E m \in S : \A x \in S \ {m} : <<m, x>> \in R
<1> DEFINE P(n) == \A T \in SUBSET S : Cardinality(T) = n /\ T # {} =>
                       \E m \in T : \A x \in T \ {m} : <<m, x>> \in R
           K == {n \in Nat : P(n)}
<1>1. 0 \in K
  <2>1. ASSUME NEW T \in SUBSET S, Cardinality(T) = 0 PROVE T = {}
    BY <2>1, FS_Subset, FS_EmptySet
  <2> QED
    BY <2>1
<1>2. ASSUME NEW n \in Nat, n \in K PROVE n + 1 \in K
  <2> SUFFICES ASSUME NEW T \in SUBSET S, Cardinality(T) = n + 1, T # {}
               PROVE  \E m \in T : \A x \in T \ {m} : <<m, x>> \in R
    OBVIOUS
  <2>1. IsFiniteSet(T)
    BY FS_Subset
  <2>2. PICK a \in T : TRUE
    OBVIOUS
  <2> DEFINE U == T \ {a}
  <2>3. U \in SUBSET S /\ Cardinality(U) = n
    <3>1. Cardinality(T \ {a}) = Cardinality(T) - 1
      BY <2>1, <2>2, FS_RemoveElement
    <3> QED
      BY <3>1
  <2>4. CASE U = {}
    BY <2>2, <2>4
  <2>5. CASE U # {}
    <3>1. PICK m \in U : \A x \in U \ {m} : <<m, x>> \in R
      BY <1>2, <2>3, <2>5
    <3>2. CASE <<m, a>> \in R
      <4>1. \A x \in T \ {m} : <<m, x>> \in R
        BY <3>1, <3>2
      <4> QED
        BY <3>1, <4>1
    <3>3. CASE <<a, m>> \in R
      <4>1. \A x \in T \ {a} : <<a, x>> \in R
        <5> SUFFICES ASSUME NEW x \in T \ {a}, x # m PROVE <<a, x>> \in R
          BY <3>3
        <5>1. <<m, x>> \in R
          BY <3>1
        <5> QED
          BY <2>2, <3>1, <3>3, <5>1 DEF Orders
      <4> QED
        BY <2>2, <4>1
    <3> QED
      BY <2>2, <3>1, <3>2, <3>3 DEF Orders
  <2> QED
    BY <2>4, <2>5
<1>3. Cardinality(S) \in Nat
  BY FS_CardinalityType
<1> HIDE DEF P
<1>4. P(Cardinality(S))
  BY <1>1, <1>2, <1>3, EveryNumber
<1> QED
  BY <1>4 DEF P

\* A finite set can be put in order.
LEMMA OrderExists ==
    ASSUME NEW R, NEW S, IsFiniteSet(S), Orders(R, S)
    PROVE  \E seq \in [1..Cardinality(S) -> S] : InOrder(R, seq, Cardinality(S))
<1> DEFINE P(n) == \A T \in SUBSET S : Cardinality(T) = n =>
                       \E seq \in [1..n -> T] : InOrder(R, seq, n)
           K == {n \in Nat : P(n)}
<1>1. 0 \in K
  <2> SUFFICES ASSUME NEW T \in SUBSET S, Cardinality(T) = 0
               PROVE  \E seq \in [1..0 -> T] : InOrder(R, seq, 0)
    OBVIOUS
  <2>1. [i \in 1..0 |-> i] \in [1..0 -> T] /\ InOrder(R, [i \in 1..0 |-> i], 0)
    BY DEF InOrder
  <2> QED
    BY <2>1
<1>2. ASSUME NEW n \in Nat, n \in K PROVE n + 1 \in K
  <2> SUFFICES ASSUME NEW T \in SUBSET S, Cardinality(T) = n + 1
               PROVE  \E seq \in [1..n + 1 -> T] : InOrder(R, seq, n + 1)
    OBVIOUS
  <2>1. IsFiniteSet(T) /\ T # {} /\ Orders(R, T)
    BY FS_Subset, FS_EmptySet, OrderOfPart
  <2>2. PICK m \in T : \A x \in T \ {m} : <<m, x>> \in R
    BY <2>1, HasLeast
  <2>3. Cardinality(T \ {m}) = n /\ T \ {m} \in SUBSET S
    <3>1. Cardinality(T \ {m}) = Cardinality(T) - 1
      BY <2>1, FS_RemoveElement
    <3> QED
      BY <3>1
  <2>4. PICK seq \in [1..n -> T \ {m}] : InOrder(R, seq, n)
    BY <1>2, <2>3
  <2> DEFINE new == [i \in 1..n + 1 |-> IF i = 1 THEN m ELSE seq[i - 1]]
  <2>5. new \in [1..n + 1 -> T]
    OBVIOUS
  <2>6. ASSUME NEW i \in 1..n + 1, NEW j \in 1..n + 1, i < j PROVE <<new[i], new[j]>> \in R
    <3>1. j - 1 \in 1..n /\ new[j] = seq[j - 1] /\ seq[j - 1] \in T \ {m}
      BY <2>6
    <3>2. CASE i = 1
      BY <2>2, <3>1, <3>2
    <3>3. CASE i # 1
      <4>1. i - 1 \in 1..n /\ new[i] = seq[i - 1] /\ i - 1 < j - 1
        BY <2>6, <3>3
      <4> QED
        BY <2>4, <3>1, <4>1 DEF InOrder
    <3> QED
      BY <3>2, <3>3
  <2> HIDE DEF new
  <2>7. InOrder(R, new, n + 1)
    BY <2>6 DEF InOrder
  <2> QED
    BY <2>5, <2>7
<1>3. Cardinality(S) \in Nat
  BY FS_CardinalityType
<1> HIDE DEF P
<1>4. P(Cardinality(S))
  BY <1>1, <1>2, <1>3, EveryNumber
<1> QED
  BY <1>4 DEF P

\* Every element, and each once.
Lists(seq, S, n) ==
    /\ \A x \in S : \E i \in 1..n : seq[i] = x
    /\ \A i, j \in 1..n : seq[i] = seq[j] => i = j

LEMMA OrderHasAll ==
    ASSUME NEW R, NEW S, IsFiniteSet(S), Orders(R, S),
           NEW seq \in [1..Cardinality(S) -> S], InOrder(R, seq, Cardinality(S))
    PROVE  Lists(seq, S, Cardinality(S))
<1> DEFINE n == Cardinality(S)
<1>1. n \in Nat
  BY FS_CardinalityType
<1>2. ASSUME NEW i \in 1..n, NEW j \in 1..n, i < j PROVE seq[i] # seq[j]
  <2>1. <<seq[i], seq[j]>> \in R /\ seq[i] \in S
    BY <1>2 DEF InOrder
  <2> QED
    BY <2>1 DEF Orders
<1>3. ASSUME NEW i \in 1..n, NEW j \in 1..n, seq[i] = seq[j] PROVE i = j
  <2>1. i \in Int /\ j \in Int
    OBVIOUS
  <2> QED
    BY <1>2, <1>3, <2>1
<1>4. seq \in Injection(1..n, S)
  BY <1>3, Fun_IsInj
<1>5. Cardinality(1..n) = n
  BY <1>1, FS_Interval
<1>6. seq \in Surjection(1..n, S)
  BY <1>4, <1>5, FS_Injection
<1>7. \A x \in S : \E i \in 1..n : seq[i] = x
  BY <1>6 DEF Surjection
<1> QED
  BY <1>3, <1>7 DEF Lists

--------------------------------------------------------------------------------
(* Sequences without repetition *)

Once(seq) == \A i, j \in 1..Len(seq) : seq[i] = seq[j] => i = j

LEMMA SetOfSeq ==
    ASSUME NEW E, NEW seq \in Seq(E)
    PROVE  /\ Len(seq) \in Nat /\ DOMAIN seq = 1..Len(seq)
           /\ ToSet(seq) = {seq[i] : i \in 1..Len(seq)} /\ ToSet(seq) \in SUBSET E
  BY DEF ToSet

\* As many elements as places.
LEMMA OnceCounts ==
    ASSUME NEW E, NEW seq \in Seq(E), Once(seq)
    PROVE  IsFiniteSet(ToSet(seq)) /\ Cardinality(ToSet(seq)) = Len(seq)
<1> DEFINE n == Len(seq)
           S == ToSet(seq)
<1>1. n \in Nat /\ seq \in [1..n -> S] /\ \A x \in S : \E i \in 1..n : seq[i] = x
  BY SetOfSeq
<1>2. seq \in Bijection(1..n, S)
  BY <1>1, Fun_IsBij DEF Once
<1>3. ExistsBijection(1..n, S)
  BY <1>2 DEF ExistsBijection
<1>4. IsFiniteSet(S)
  BY <1>1, <1>3, FS_NatBijection
<1> QED
  BY <1>1, <1>3, <1>4, FS_CountingElements

LEMMA AtPlaces ==
    ASSUME NEW E, NEW seq \in Seq(E), NEW places \in SUBSET (1..Len(seq))
    PROVE  /\ atPlaces(seq, places) \in Seq(E)
           /\ ToSet(atPlaces(seq, places)) = {seq[i] : i \in places}
           /\ Once(seq) => Once(atPlaces(seq, places))
           /\ places = {} => atPlaces(seq, places) = <<>>
<1> DEFINE n == Cardinality(places)
           R == {p \in places \X places : p[1] < p[2]}
           goes(p) == \A i, j \in DOMAIN p : i < j => p[i] < p[j]
           order == CHOOSE p \in [1..n -> places] : goes(p)
           q == [i \in 1..n |-> seq[order[i]]]
<1>1. Len(seq) \in Nat
  OBVIOUS
<1>2. IsFiniteSet(places) /\ n \in Nat
  <2>1. IsFiniteSet(1..Len(seq))
    BY <1>1, FS_Interval
  <2>2. IsFiniteSet(places)
    BY <2>1, FS_Subset
  <2> QED
    BY <2>2, FS_CardinalityType
<1>3. \A a, b \in places : <<a, b>> \in R <=> a < b
  OBVIOUS
<1>4. \A a \in places : a \in Nat
  BY <1>1
<1> HIDE DEF R
<1>5. Orders(R, places)
  BY <1>3, <1>4 DEF Orders
<1>6. ASSUME NEW p \in [1..n -> places] PROVE goes(p) <=> InOrder(R, p, n)
  <2>1. \A i \in 1..n : p[i] \in places
    OBVIOUS
  <2> QED
    BY <1>3, <2>1 DEF InOrder
<1>7. \E p \in [1..n -> places] : goes(p)
  BY <1>2, <1>5, <1>6, OrderExists
<1>8. order \in [1..n -> places] /\ goes(order)
  BY <1>7
<1>9. InOrder(R, order, n)
  BY <1>6, <1>8
<1>10. atPlaces(seq, places) = q
  BY DEF atPlaces
<1> HIDE DEF order
<1>11. /\ \A x \in places : \E i \in 1..n : order[i] = x
       /\ \A i, j \in 1..n : order[i] = order[j] => i = j
  <2>1. Lists(order, places, n)
    BY <1>2, <1>5, <1>8, <1>9, OrderHasAll
  <2> QED
    BY <2>1 DEF Lists
<1>12. \A i \in 1..n : order[i] \in places /\ order[i] \in 1..Len(seq) /\ q[i] = seq[order[i]]
  BY <1>8
<1>13. q \in Seq(E) /\ Len(q) = n
  <2>1. \A i \in 1..n : q[i] \in E
    BY <1>12
  <2> QED
    BY <1>2, <2>1
<1> HIDE DEF q, n
<1>14. ToSet(q) = {seq[i] : i \in places}
  <2>1. ToSet(q) = {q[i] : i \in 1..n}
    BY <1>13, SetOfSeq
  <2>2. ASSUME NEW x \in {q[i] : i \in 1..n} PROVE x \in {seq[i] : i \in places}
    BY <1>12
  <2>3. ASSUME NEW i \in places PROVE seq[i] \in {q[j] : j \in 1..n}
    <3>1. PICK j \in 1..n : order[j] = i
      BY <1>11
    <3> QED
      BY <1>12, <3>1
  <2> QED
    BY <2>1, <2>2, <2>3
<1>15. ASSUME Once(seq) PROVE Once(q)
  <2>1. ASSUME NEW i \in 1..n, NEW j \in 1..n, q[i] = q[j] PROVE i = j
    <3>1. seq[order[i]] = seq[order[j]] /\ order[i] \in 1..Len(seq) /\ order[j] \in 1..Len(seq)
      BY <1>12, <2>1
    <3>2. order[i] = order[j]
      BY <1>15, <3>1 DEF Once
    <3> QED
      BY <1>11, <3>2
  <2> QED
    BY <1>13, <2>1 DEF Once
<1>16. places = {} => q = <<>>
  BY <1>2, <1>13, FS_EmptySet DEF n
<1> QED
  BY <1>10, <1>13, <1>14, <1>15, <1>16

--------------------------------------------------------------------------------
(* Sorting *)

Entry == [row : Rows, keys : [Columns -> Nat], pos : Nat]

SortBy == Seq(Columns \X Order)

\* What before decides: the first column of the list in which they differ, or the position.
Decides(list_, a, b, i) ==
    /\ i \in 1..Len(list_) /\ a.keys[list_[i][1]] # b.keys[list_[i][1]]
    /\ \A j \in 1..Len(list_) : j < i => a.keys[list_[j][1]] = b.keys[list_[j][1]]

Precedes(list_, a, b, i) ==
    IF list_[i][2] = ascending THEN a.keys[list_[i][1]] < b.keys[list_[i][1]]
    ELSE b.keys[list_[i][1]] < a.keys[list_[i][1]]

Alike(list_, a, b) == \A j \in 1..Len(list_) : a.keys[list_[j][1]] = b.keys[list_[j][1]]

LEMMA DecidesOne ==
    ASSUME NEW list_ \in SortBy, NEW a \in Entry, NEW b \in Entry
    PROVE  /\ Alike(list_, a, b) => (before(list_, a, b) <=> a.pos < b.pos)
           /\ \A i : Decides(list_, a, b, i) => (before(list_, a, b) <=> Precedes(list_, a, b, i))
           /\ Alike(list_, a, b) \/ \E i \in 1..Len(list_) : Decides(list_, a, b, i)
<1> DEFINE differ == {i \in 1..Len(list_) : a.keys[list_[i][1]] # b.keys[list_[i][1]]}
           k == CHOOSE i \in differ : \A j \in differ : i <= j
<1>1. DOMAIN list_ = 1..Len(list_) /\ Len(list_) \in Nat
  BY DEF SortBy
<1>2. before(list_, a, b) <=>
          IF differ = {} THEN a.pos < b.pos
          ELSE IF list_[k][2] = ascending THEN a.keys[list_[k][1]] < b.keys[list_[k][1]]
          ELSE b.keys[list_[k][1]] < a.keys[list_[k][1]]
  BY <1>1 DEF before
<1>3. Alike(list_, a, b) <=> differ = {}
  BY DEF Alike
<1>4. ASSUME differ # {} PROVE k \in differ /\ \A j \in differ : k <= j
  <2>1. differ \in SUBSET Nat
    BY <1>1
  <2>2. \E i \in differ : \A j \in differ : i <= j
    BY <1>4, <2>1, HasFirst
  <2> QED
    BY <2>2
<1>5. \A i : i \in differ <=> i \in 1..Len(list_) /\ a.keys[list_[i][1]] # b.keys[list_[i][1]]
  OBVIOUS
<1>6. differ \in SUBSET Int
  BY <1>1
<1> HIDE DEF differ, k
<1>7. ASSUME differ # {} PROVE Decides(list_, a, b, k)
  <2>1. k \in 1..Len(list_) /\ a.keys[list_[k][1]] # b.keys[list_[k][1]]
    BY <1>4, <1>7, <1>5
  <2>2. ASSUME NEW j \in 1..Len(list_), j < k PROVE j \notin differ
    <3>1. k \in Int
      BY <1>4, <1>7, <1>6
    <3>2. j \in Int
      OBVIOUS
    <3> QED
      BY <1>4, <1>7, <2>2, <3>1, <3>2
  <2> QED
    BY <1>5, <2>1, <2>2 DEF Decides
<1>8. ASSUME NEW i, Decides(list_, a, b, i) PROVE differ # {} /\ k = i
  <2>1. i \in differ /\ i \in Int
    BY <1>5, <1>6, <1>8 DEF Decides
  <2>2. k \in differ /\ k <= i /\ k \in Int
    BY <1>6, <1>4, <2>1
  <2>3. ~(k < i)
    BY <1>5, <1>8, <2>2 DEF Decides
  <2> QED
    BY <2>1, <2>2, <2>3
<1>9. Alike(list_, a, b) => (before(list_, a, b) <=> a.pos < b.pos)
  BY <1>2, <1>3
<1>10. ASSUME NEW i, Decides(list_, a, b, i) PROVE before(list_, a, b) <=> Precedes(list_, a, b, i)
  BY <1>2, <1>8, <1>10 DEF Precedes
<1>11. Alike(list_, a, b) \/ \E i \in 1..Len(list_) : Decides(list_, a, b, i)
  BY <1>3, <1>4, <1>7, <1>5
<1> QED
  BY <1>9, <1>10, <1>11

LEMMA KeysAreNumbers ==
    ASSUME NEW list_ \in SortBy, NEW a \in Entry, NEW i \in 1..Len(list_)
    PROVE  a.keys[list_[i][1]] \in Nat /\ i \in Int
<1>1. list_[i] \in Columns \X Order
  BY DEF SortBy
<1>2. list_[i][1] \in Columns
  BY <1>1
<1>3. a.keys \in [Columns -> Nat]
  BY DEF Entry
<1> QED
  BY <1>2, <1>3 DEF SortBy

LEMMA BeforeTransitive ==
    ASSUME NEW list_ \in SortBy, NEW a \in Entry, NEW b \in Entry, NEW c \in Entry,
           before(list_, a, b), before(list_, b, c)
    PROVE  before(list_, a, c)
<1>1. a.pos \in Nat /\ b.pos \in Nat /\ c.pos \in Nat
  BY DEF Entry
<1>2. CASE Alike(list_, a, b) /\ Alike(list_, b, c)
  <2>1. Alike(list_, a, c)
    BY <1>2 DEF Alike
  <2>2. a.pos < b.pos /\ b.pos < c.pos
    BY <1>2, DecidesOne
  <2>3. a.pos < c.pos
    BY <1>1, <2>2
  <2> QED
    BY <2>1, <2>3, DecidesOne
<1>3. ASSUME NEW i \in 1..Len(list_), Decides(list_, a, b, i), Alike(list_, b, c)
      PROVE  before(list_, a, c)
  <2>1. Decides(list_, a, c, i)
    BY <1>3 DEF Decides, Alike
  <2>2. Precedes(list_, a, b, i)
    BY <1>3, DecidesOne
  <2>3. Precedes(list_, a, c, i)
    BY <1>3, <2>2 DEF Precedes, Alike
  <2> QED
    BY <2>1, <2>3, DecidesOne
<1>4. ASSUME NEW i \in 1..Len(list_), Decides(list_, b, c, i), Alike(list_, a, b)
      PROVE  before(list_, a, c)
  <2>1. Decides(list_, a, c, i)
    BY <1>4 DEF Decides, Alike
  <2>2. Precedes(list_, b, c, i)
    BY <1>4, DecidesOne
  <2>3. Precedes(list_, a, c, i)
    BY <1>4, <2>2 DEF Precedes, Alike
  <2> QED
    BY <2>1, <2>3, DecidesOne
<1>5. ASSUME NEW i \in 1..Len(list_), Decides(list_, a, b, i),
             NEW j \in 1..Len(list_), Decides(list_, b, c, j)
      PROVE  before(list_, a, c)
  <2>1. Precedes(list_, a, b, i) /\ Precedes(list_, b, c, j)
    BY <1>5, DecidesOne
  <2>2. i \in Int /\ j \in Int /\ \A k \in 1..Len(list_) : k \in Int
    BY KeysAreNumbers
  <2>3. CASE i < j
    <3>1. b.keys[list_[i][1]] = c.keys[list_[i][1]]
      BY <1>5, <2>3 DEF Decides
    <3>2. Decides(list_, a, c, i)
      <4>1. ASSUME NEW k \in 1..Len(list_), k < i
            PROVE  a.keys[list_[k][1]] = c.keys[list_[k][1]]
        <5>1. k < j
          BY <2>2, <2>3, <4>1
        <5> QED
          BY <1>5, <4>1, <5>1 DEF Decides
      <4> QED
        BY <1>5, <3>1, <4>1 DEF Decides
    <3>3. Precedes(list_, a, c, i)
      BY <2>1, <3>1 DEF Precedes
    <3> QED
      BY <3>2, <3>3, DecidesOne
  <2>4. CASE j < i
    <3>1. a.keys[list_[j][1]] = b.keys[list_[j][1]]
      BY <1>5, <2>4 DEF Decides
    <3>2. Decides(list_, a, c, j)
      <4>1. ASSUME NEW k \in 1..Len(list_), k < j
            PROVE  a.keys[list_[k][1]] = c.keys[list_[k][1]]
        <5>1. k < i
          BY <2>2, <2>4, <4>1
        <5> QED
          BY <1>5, <4>1, <5>1 DEF Decides
      <4> QED
        BY <1>5, <3>1, <4>1 DEF Decides
    <3>3. Precedes(list_, a, c, j)
      BY <2>1, <3>1 DEF Precedes
    <3> QED
      BY <3>2, <3>3, DecidesOne
  <2>5. CASE i = j
    <3> DEFINE x == a.keys[list_[i][1]]
               y == b.keys[list_[i][1]]
               z == c.keys[list_[i][1]]
    <3>1. x \in Nat /\ y \in Nat /\ z \in Nat
      BY KeysAreNumbers
    <3>2. IF list_[i][2] = ascending THEN x < y /\ y < z ELSE y < x /\ z < y
      BY <2>1, <2>5 DEF Precedes
    <3> HIDE DEF x, y, z
    <3>3. x # z /\ IF list_[i][2] = ascending THEN x < z ELSE z < x
      BY <3>1, <3>2
    <3>4. Precedes(list_, a, c, i)
      BY <3>3 DEF Precedes, x, z
    <3>5. Decides(list_, a, c, i)
      BY <1>5, <2>5, <3>3 DEF Decides, x, z
    <3> QED
      BY <3>4, <3>5, DecidesOne
  <2> QED
    BY <2>2, <2>3, <2>4, <2>5
<1> QED
  BY <1>2, <1>3, <1>4, <1>5, DecidesOne

LEMMA BeforeTotal ==
    ASSUME NEW list_ \in SortBy, NEW a \in Entry, NEW b \in Entry, a.pos # b.pos
    PROVE  before(list_, a, b) \/ before(list_, b, a)
<1>1. CASE Alike(list_, a, b)
  <2>1. Alike(list_, b, a)
    BY <1>1 DEF Alike
  <2>2. a.pos < b.pos \/ b.pos < a.pos
    BY DEF Entry
  <2> QED
    BY <1>1, <2>1, <2>2, DecidesOne
<1>2. ASSUME NEW i \in 1..Len(list_), Decides(list_, a, b, i)
      PROVE  before(list_, a, b) \/ before(list_, b, a)
  <2>1. Decides(list_, b, a, i)
    BY <1>2 DEF Decides
  <2> DEFINE x == a.keys[list_[i][1]]
             y == b.keys[list_[i][1]]
  <2>2. x \in Nat /\ y \in Nat /\ x # y
    BY <1>2, KeysAreNumbers DEF Decides
  <2> HIDE DEF x, y
  <2>3. x < y \/ y < x
    BY <2>2
  <2>4. Precedes(list_, a, b, i) \/ Precedes(list_, b, a, i)
    BY <2>3 DEF Precedes, x, y
  <2> QED
    BY <1>2, <2>1, <2>4, DecidesOne
<1> QED
  BY <1>1, <1>2, DecidesOne

LEMMA NeverBeforeItself ==
    ASSUME NEW list_ \in SortBy, NEW a \in Entry PROVE ~before(list_, a, a)
<1>1. Alike(list_, a, a) /\ ~(a.pos < a.pos)
  BY DEF Alike, Entry
<1> QED
  BY <1>1, DecidesOne

\* Each row is cached once, at a position of its own.
Rooted(rows) ==
    /\ rows \in Seq(Entry)
    /\ \A i, j \in 1..Len(rows) : rows[i].row = rows[j].row \/ rows[i].pos = rows[j].pos => i = j

LEMMA Multisort ==
    ASSUME NEW list_ \in SortBy, NEW rows, Rooted(rows)
    PROVE  /\ Rooted(multisort(list_, rows)) /\ Len(multisort(list_, rows)) = Len(rows)
           /\ ToSet(multisort(list_, rows)) = ToSet(rows)
           /\ sortedBy(list_, multisort(list_, rows))
<1> DEFINE S == ToSet(rows)
           n == Len(rows)
           R == {p \in S \X S : before(list_, p[1], p[2])}
           q == multisort(list_, rows)
<1>1. /\ rows \in Seq(Entry) /\ n \in Nat /\ DOMAIN rows = 1..n /\ S \in SUBSET Entry
      /\ S = {rows[i] : i \in 1..n}
  BY SetOfSeq DEF Rooted
<1>2. IsFiniteSet(S) /\ Cardinality(S) = n
  BY <1>1, OnceCounts DEF Rooted, Once
<1>3. ASSUME NEW a \in S, NEW b \in S, a.row = b.row \/ a.pos = b.pos PROVE a = b
  <2>1. PICK i \in 1..n : rows[i] = a
    BY <1>1
  <2>2. PICK j \in 1..n : rows[j] = b
    BY <1>1
  <2> QED
    BY <1>3, <2>1, <2>2 DEF Rooted
<1>4. \A a, b \in S : <<a, b>> \in R <=> before(list_, a, b)
  OBVIOUS
<1> HIDE DEF R, S, n
<1>5. Orders(R, S)
  <2>1. \A a \in S : <<a, a>> \notin R
    BY <1>1, <1>4, NeverBeforeItself
  <2>2. \A a, b \in S : a # b => <<a, b>> \in R \/ <<b, a>> \in R
    BY <1>1, <1>3, <1>4, BeforeTotal
  <2>3. \A a, b, c \in S : <<a, b>> \in R /\ <<b, c>> \in R => <<a, c>> \in R
    BY <1>1, <1>4, BeforeTransitive
  <2> QED
    BY <2>1, <2>2, <2>3 DEF Orders
<1>6. ASSUME NEW seq \in [1..n -> S] PROVE sortedBy(list_, seq) <=> InOrder(R, seq, n)
  <2>1. \A i \in 1..n : seq[i] \in S
    OBVIOUS
  <2> QED
    BY <1>4, <2>1 DEF sortedBy, InOrder
<1>7. \E seq \in [1..n -> S] : sortedBy(list_, seq)
  BY <1>2, <1>5, <1>6, OrderExists
<1>8. q \in [1..n -> S] /\ sortedBy(list_, q)
  <2>1. q = CHOOSE seq \in [1..n -> S] : sortedBy(list_, seq)
    BY <1>1 DEF multisort, S
  <2> QED
    BY <1>7, <2>1
<1>9. InOrder(R, q, n)
  BY <1>6, <1>8
<1> HIDE DEF q
<1>10. /\ \A x \in S : \E i \in 1..n : q[i] = x
       /\ \A i, j \in 1..n : q[i] = q[j] => i = j
  <2>1. q \in [1..Cardinality(S) -> S] /\ InOrder(R, q, Cardinality(S))
    BY <1>2, <1>8, <1>9
  <2>2. Lists(q, S, Cardinality(S))
    BY <1>2, <1>5, <2>1, OrderHasAll
  <2>3. Lists(q, S, n)
    BY <1>2, <2>2
  <2> QED
    BY <2>3 DEF Lists
<1>11. q \in Seq(Entry) /\ Len(q) = n
  BY <1>1, <1>8
<1>12. Rooted(q)
  BY <1>3, <1>8, <1>10, <1>11 DEF Rooted
<1>13. ToSet(q) = S
  <2>1. ToSet(q) = {q[i] : i \in 1..n}
    BY <1>11, SetOfSeq
  <2> QED
    BY <1>8, <1>10, <2>1
<1> QED
  BY <1>8, <1>11, <1>12, <1>13 DEF q, n, S

RowsOf(entries) == {entries[i].row : i \in 1..Len(entries)}

LEMMA Appended ==
    ASSUME NEW shown \in Seq(Rows), Once(shown), NEW entries, Rooted(entries)
    PROVE  /\ appended(shown, entries) \in Seq(Rows) /\ Once(appended(shown, entries))
           /\ ToSet(appended(shown, entries)) = ToSet(shown) \union RowsOf(entries)
           /\ ToSet(shown) \subseteq RowsOf(entries) =>
                  /\ Len(appended(shown, entries)) = Len(entries)
                  /\ \A i \in 1..Len(entries) : appended(shown, entries)[i] = entries[i].row
<1> DEFINE n == Len(entries)
           rows == [i \in DOMAIN entries |-> entries[i].row]
           places == {i \in 1..Len(shown) : shown[i] \notin ToSet(rows)}
           first == atPlaces(shown, places)
           m == Len(first)
           q == appended(shown, entries)
<1>1. entries \in Seq(Entry) /\ n \in Nat /\ DOMAIN entries = 1..n
  BY DEF Rooted
<1>2. /\ rows \in Seq(Rows) /\ Len(rows) = n
      /\ \A i \in 1..n : rows[i] = entries[i].row
  <2>1. \A i \in 1..n : entries[i] \in Entry
    BY <1>1
  <2>2. \A i \in 1..n : entries[i].row \in Rows
    BY <2>1 DEF Entry
  <2> QED
    BY <1>1, <2>2
<1>3. ToSet(rows) = RowsOf(entries)
  <2>1. ToSet(rows) = {rows[i] : i \in 1..n}
    BY <1>2, SetOfSeq
  <2> QED
    BY <1>2, <2>1 DEF RowsOf
<1>4. q = first \o rows
  BY SetOfSeq DEF appended
<1> HIDE DEF rows
<1>5. /\ first \in Seq(Rows) /\ ToSet(first) = {shown[i] : i \in places}
      /\ Once(first) /\ (places = {} => first = <<>>)
  BY AtPlaces
<1>6. ToSet(shown) = {shown[i] : i \in 1..Len(shown)}
  BY SetOfSeq
<1>7. ToSet(first) = ToSet(shown) \ RowsOf(entries)
  BY <1>3, <1>5, <1>6
<1> HIDE DEF first, places, q
<1>8. ToSet(first) = {first[i] : i \in 1..m} /\ m \in Nat
  BY <1>5, SetOfSeq
<1>9. /\ q \in Seq(Rows) /\ Len(q) = m + n
      /\ \A i \in 1..m : q[i] = first[i] /\ i \in 1..m + n
      /\ \A i \in 1..n : q[m + i] = rows[i] /\ m + i \in 1..m + n
      /\ \A k \in 1..m + n : k \in 1..m \/ k - m \in 1..n
  <2>1. q \in Seq(Rows) /\ Len(q) = m + n
    <3>1. first \in Seq(Rows) /\ rows \in Seq(Rows)
      BY <1>2, <1>5
    <3>2. first \o rows \in Seq(Rows) /\ Len(first \o rows) = Len(first) + Len(rows)
      BY <3>1, ConcatProperties
    <3> QED
      BY <1>2, <1>4, <3>2
  <2>2. \A i \in 1..m : q[i] = first[i]
    BY <1>2, <1>4, <1>5
  <2>3. \A i \in 1..n : q[m + i] = rows[i]
    BY <1>2, <1>4, <1>5
  <2> HIDE DEF m, n
  <2>4. /\ \A i \in 1..m : i \in 1..m + n
        /\ \A i \in 1..n : m + i \in 1..m + n
        /\ \A k \in 1..m + n : k \in 1..m \/ k - m \in 1..n
    BY <1>1, <1>8
  <2> QED
    BY <2>1, <2>2, <2>3, <2>4
<1> HIDE DEF m, n
<1>10. \A k \in 1..m + n :
          \/ k \in 1..m /\ q[k] = first[k] /\ q[k] \notin RowsOf(entries)
          \/ k - m \in 1..n /\ q[k] = entries[k - m].row /\ q[k] \in RowsOf(entries)
  <2> SUFFICES ASSUME NEW k \in 1..m + n
               PROVE  \/ k \in 1..m /\ q[k] = first[k] /\ q[k] \notin RowsOf(entries)
                      \/ k - m \in 1..n /\ q[k] = entries[k - m].row /\ q[k] \in RowsOf(entries)
    OBVIOUS
  <2>1. CASE k \in 1..m
    BY <1>7, <1>8, <1>9, <2>1
  <2>2. CASE k - m \in 1..n
    <3>1. m + (k - m) = k
      BY <1>8
    <3>2. q[k] = rows[k - m]
      BY <1>9, <2>2, <3>1
    <3>3. entries[k - m].row \in RowsOf(entries)
      BY <2>2 DEF RowsOf, n
    <3> QED
      BY <1>2, <2>2, <3>2, <3>3
  <2> QED
    BY <1>9, <2>1, <2>2
<1>11. Once(q)
  <2> SUFFICES ASSUME NEW k \in 1..m + n, NEW l \in 1..m + n, q[k] = q[l] PROVE k = l
    BY <1>9 DEF Once
  <2>1. CASE q[k] \notin RowsOf(entries)
    BY <1>5, <1>10, <2>1 DEF Once, m
  <2>2. CASE q[k] \in RowsOf(entries)
    <3>1. k - m \in 1..n /\ l - m \in 1..n /\ entries[k - m].row = entries[l - m].row
      BY <1>10, <2>2
    <3>2. k - m = l - m
      BY <3>1 DEF Rooted, n
    <3> QED
      BY <1>8, <3>2
  <2> QED
    BY <2>1, <2>2
<1>12. ToSet(q) = ToSet(shown) \union RowsOf(entries)
  <2>1. ToSet(q) = {q[k] : k \in 1..m + n}
    BY <1>9, SetOfSeq
  <2>2. ASSUME NEW x \in ToSet(first) PROVE x \in {q[k] : k \in 1..m + n}
    BY <1>8, <1>9
  <2>3. ASSUME NEW x \in RowsOf(entries) PROVE x \in {q[k] : k \in 1..m + n}
    <3>1. PICK i \in 1..n : x = entries[i].row
      BY DEF RowsOf, n
    <3> QED
      BY <1>2, <1>9, <3>1
  <2>4. ASSUME NEW k \in 1..m + n PROVE q[k] \in ToSet(first) \union RowsOf(entries)
    BY <1>8, <1>10
  <2>5. {q[k] : k \in 1..m + n} = ToSet(first) \union RowsOf(entries)
    BY <2>2, <2>3, <2>4
  <2> QED
    BY <1>7, <2>1, <2>5
<1>13. ASSUME ToSet(shown) \subseteq RowsOf(entries)
       PROVE  Len(q) = n /\ \A i \in 1..n : q[i] = entries[i].row
  <2>1. places = {}
    BY <1>3, <1>6, <1>13 DEF places
  <2>2. m = 0
    BY <1>5, <2>1 DEF m
  <2>3. Len(q) = n /\ \A i \in 1..n : q[m + i] = rows[i] /\ m + i = i
    BY <1>1, <1>9, <2>2 DEF n
  <2> QED
    BY <1>2, <2>3
<1> QED
  BY <1>9, <1>11, <1>12, <1>13 DEF n, q

--------------------------------------------------------------------------------
(* The invariant *)

Timers == {"sort", "update"} \X Tables

TableTypes ==
    /\ content \in [Tables -> [Rows -> [Columns -> Cell]]]
    /\ dom \in [Tables -> Seq(Rows)]
    /\ parsers \in [Tables -> [Columns -> {"digit", "text"}]]
    /\ cache \in [Tables -> Seq(Entry)]
    /\ counts \in [Tables -> [Columns -> Order]]
    /\ sortList \in [Tables -> SortBy] /\ marks \in [Tables -> SortBy]
    /\ shared \in [list : SortBy, by : SUBSET Tables]
    /\ timers \in Seq(Timers) /\ changes \in 0..MaxChanges
    /\ history \in [Tables -> History]

\* A sort of the table waits.
unsorted(t) == <<"sort", t>> \in ToSet(timers)

\* The entries stand for the rows, one for one.
Follows(t) ==
    /\ Len(cache[t]) = Len(dom[t])
    /\ \A i \in 1..Len(dom[t]) :
          /\ cache[t][i].row = dom[t][i]
          /\ cache[t][i].keys =
                [c \in Columns |-> format(parsers[t][c], content[t][dom[t][i]][c])]

\* Between a change and the update the page has told of it the cache may be behind; a row
\* it has and the page removed comes back with a sort, which is a race.
TableInv(t) ==
    /\ Once(dom[t]) /\ Rooted(cache[t])
    /\ \A i \in 1..Len(cache[t]) : cache[t][i].pos \in 1..Len(cache[t])
    /\ untold(t) \/ Follows(t)
    /\ untold(t) => history[t].changed
    /\ ToSet(dom[t]) \intersect history[t].gone # {} => history[t].raced
    /\ RowsOf(cache[t]) \intersect history[t].gone # {} => history[t].raced \/ untold(t)
    /\ history[t].changed \/ sortedBy(marks[t], cache[t])
    /\ unsorted(t) \/ t \in shared.by \/ marks[t] = sortList[t]

TablesInv == TableTypes /\ \A t \in Tables : TableInv(t)

\* What a step leaves alone.
SameRows(t) ==
    /\ dom'[t] = dom[t] /\ cache'[t] = cache[t] /\ content'[t] = content[t]
    /\ parsers'[t] = parsers[t] /\ history'[t] = history[t] /\ marks'[t] = marks[t]
    /\ (untold(t)' <=> untold(t))

SameTable(t) ==
    /\ SameRows(t) /\ sortList'[t] = sortList[t] /\ (t \in shared'.by <=> t \in shared.by)
    /\ (unsorted(t)' <=> unsorted(t))

LEMMA SameRowsInv ==
    ASSUME NEW t, TableInv(t), SameRows(t),
           unsorted(t)' \/ t \in shared'.by \/ marks'[t] = sortList'[t]
    PROVE  TableInv(t)'
<1>1. Follows(t)' <=> Follows(t)
  BY DEF SameRows, Follows
<1>2. sortedBy(marks[t], cache[t])' <=> sortedBy(marks[t], cache[t])
  BY DEF SameRows
<1> QED
  BY <1>1, <1>2 DEF SameRows, TableInv

LEMMA SameTableInv == ASSUME NEW t, TableInv(t), SameTable(t) PROVE TableInv(t)'
<1>1. unsorted(t)' \/ t \in shared'.by \/ marks'[t] = sortList'[t]
  BY DEF SameTable, SameRows, TableInv
<1> QED
  BY <1>1, SameRowsInv DEF SameTable

LEMMA AppendedTimer ==
    ASSUME NEW s \in Seq(Timers), NEW what \in {"sort", "update"}, NEW t \in Tables
    PROVE  /\ Append(s, <<what, t>>) \in Seq(Timers)
           /\ ToSet(Append(s, <<what, t>>)) = ToSet(s) \union {<<what, t>>}
<1> DEFINE e == <<what, t>>
           a == Append(s, e)
<1>1. e \in Timers
  BY DEF Timers
<1> HIDE DEF e
<1>2. /\ a \in Seq(Timers) /\ Len(a) = Len(s) + 1 /\ Len(s) \in Nat
      /\ \A i \in 1..Len(s) : a[i] = s[i]
      /\ a[Len(s) + 1] = e
  BY <1>1
<1>3. ToSet(a) = {a[i] : i \in 1..Len(s) + 1} /\ ToSet(s) = {s[i] : i \in 1..Len(s)}
  BY <1>2, SetOfSeq
<1> HIDE DEF a
<1>4. ToSet(a) = ToSet(s) \union {e}
  <2>1. \A i \in 1..Len(s) + 1 : i \in 1..Len(s) \/ i = Len(s) + 1
    BY <1>2
  <2>2. \A i \in 1..Len(s) : i \in 1..Len(s) + 1
    BY <1>2
  <2>3. Len(s) + 1 \in 1..Len(s) + 1
    BY <1>2
  <2>4. ASSUME NEW x \in ToSet(a) PROVE x \in ToSet(s) \union {e}
    BY <1>2, <1>3, <2>1
  <2>5. ASSUME NEW x \in ToSet(s) \union {e} PROVE x \in ToSet(a)
    BY <1>2, <1>3, <2>2, <2>3
  <2> QED
    BY <2>4, <2>5
<1> QED
  BY <1>2, <1>4 DEF a, e

LEMMA PoppedTimer ==
    ASSUME NEW s \in Seq(Timers), s # <<>>
    PROVE  /\ Tail(s) \in Seq(Timers) /\ Head(s) \in Timers
           /\ ToSet(s) = ToSet(Tail(s)) \union {Head(s)}
<1> DEFINE b == Tail(s)
           n == Len(s)
<1>1. /\ b \in Seq(Timers) /\ Len(b) = n - 1 /\ n \in Nat /\ n >= 1 /\ Head(s) = s[1]
      /\ s[1] \in Timers
      /\ \A i \in 1..n - 1 : b[i] = s[i + 1]
  OBVIOUS
<1>2. ToSet(b) = {b[i] : i \in 1..n - 1} /\ ToSet(s) = {s[i] : i \in 1..n}
  BY <1>1, SetOfSeq
<1> HIDE DEF b, n
<1>3. /\ \A i \in 1..n : i = 1 \/ (i - 1 \in 1..n - 1 /\ (i - 1) + 1 = i)
      /\ \A i \in 1..n - 1 : i + 1 \in 1..n
      /\ 1 \in 1..n
  BY <1>1
<1>4. ASSUME NEW x \in ToSet(s) PROVE x \in ToSet(b) \union {s[1]}
  <2>1. PICK i \in 1..n : x = s[i]
    BY <1>2
  <2>2. i = 1 \/ s[i] = b[i - 1]
    BY <1>1, <1>3
  <2> QED
    BY <1>2, <1>3, <2>1, <2>2
<1>5. ASSUME NEW x \in ToSet(b) \union {s[1]} PROVE x \in ToSet(s)
  BY <1>1, <1>2, <1>3
<1>6. ToSet(s) = ToSet(b) \union {s[1]}
  BY <1>4, <1>5
<1> QED
  BY <1>1, <1>6 DEF b

--------------------------------------------------------------------------------
(* Caching and sorting keep it *)

LEMMA KeysAreNats == ASSUME NEW parser, NEW text \in Cell PROVE format(parser, text) \in Nat
<1>1. CASE parser = "text"
  <2>1. DOMAIN Texts \subseteq Nat
    <3>1. DOMAIN Texts = 1..4
      BY DEF Texts
    <3> QED
      BY <3>1
  <2>2. \E i \in DOMAIN Texts : Texts[i] = text
    BY DEF Cell, ToSet
  <2>3. (CHOOSE i \in DOMAIN Texts : Texts[i] = text) \in DOMAIN Texts
    BY <2>2
  <2>4. (CHOOSE i \in DOMAIN Texts : Texts[i] = text) \in Nat
    BY <2>1, <2>3, Zenon
  <2> QED
    BY <1>1, <2>4 DEF format
<1>2. CASE parser # "text"
  BY <1>2 DEF format
<1> QED
  BY <1>1, <1>2

\* A row of the page and its entry.
Stands(entry, t, i, types) ==
    /\ entry.row = dom[t][i] /\ entry.pos = i
    /\ entry.keys = [c \in Columns |-> format(types[c], content[t][dom[t][i]][c])]

LEMMA BuiltCache ==
    ASSUME NEW t \in Tables, content[t] \in [Rows -> [Columns -> Cell]],
           dom[t] \in Seq(Rows), Once(dom[t]), NEW types
    PROVE  /\ Rooted(buildCache(t, types)) /\ Len(buildCache(t, types)) = Len(dom[t])
           /\ \A i \in 1..Len(dom[t]) : Stands(buildCache(t, types)[i], t, i, types)
<1> DEFINE n == Len(dom[t])
           keys(i) == [c \in Columns |-> format(types[c], content[t][dom[t][i]][c])]
           entry(i) == [row |-> dom[t][i], pos |-> i, keys |-> keys(i)]
           q == buildCache(t, types)
<1>1. n \in Nat /\ DOMAIN dom[t] = 1..n
  OBVIOUS
<1>2. q = [i \in 1..n |-> entry(i)]
  BY <1>1 DEF buildCache
<1>3. ASSUME NEW i \in 1..n PROVE entry(i) \in Entry /\ Stands(entry(i), t, i, types)
  <2>1. dom[t][i] \in Rows /\ i \in Nat
    BY <1>1
  <2>2. content[t][dom[t][i]] \in [Columns -> Cell]
    BY <2>1
  <2>3. \A c \in Columns : format(types[c], content[t][dom[t][i]][c]) \in Nat
    BY <2>2, KeysAreNats
  <2>4. keys(i) \in [Columns -> Nat]
    BY <2>3, Zenon
  <2> HIDE DEF keys
  <2>5. entry(i) \in Entry
    BY <2>1, <2>4 DEF Entry
  <2>6. entry(i).row = dom[t][i] /\ entry(i).pos = i /\ entry(i).keys = keys(i)
    OBVIOUS
  <2> HIDE DEF entry
  <2> QED
    BY <2>5, <2>6 DEF Stands, keys
<1> HIDE DEF entry, q, n
<1>4. q \in Seq(Entry) /\ Len(q) = n /\ \A i \in 1..n : q[i] = entry(i)
  BY <1>1, <1>2, <1>3
<1>5. \A i \in 1..n : Stands(q[i], t, i, types)
  BY <1>3, <1>4
<1>6. ASSUME NEW i \in 1..n, NEW j \in 1..n, q[i].row = q[j].row \/ q[i].pos = q[j].pos
      PROVE  i = j
  <2>1. dom[t][i] = dom[t][j] \/ i = j
    BY <1>5, <1>6 DEF Stands
  <2> QED
    BY <2>1 DEF Once, n
<1>7. Rooted(q)
  BY <1>4, <1>6 DEF Rooted
<1> QED
  BY <1>4, <1>5, <1>7 DEF q, n

\* Rows and entries that stand for each other are the same rows.
LEMMA FollowedRows ==
    ASSUME NEW t, dom[t] \in Seq(Rows), cache[t] \in Seq(Entry), Follows(t)
    PROVE  RowsOf(cache[t]) = ToSet(dom[t])
<1>1. ToSet(dom[t]) = {dom[t][i] : i \in 1..Len(dom[t])}
  BY SetOfSeq
<1>2. Len(cache[t]) = Len(dom[t]) /\ \A i \in 1..Len(dom[t]) : cache[t][i].row = dom[t][i]
  BY DEF Follows
<1>3. {cache[t][i].row : i \in 1..Len(dom[t])} = {dom[t][i] : i \in 1..Len(dom[t])}
  BY <1>2
<1> QED
  BY <1>1, <1>2, <1>3 DEF RowsOf

LEMMA SortTableInv ==
    ASSUME TablesInv, NEW t \in Tables, NEW list_ \in SortBy, sortTable(t, list_),
           untold(t)' <=> untold(t),
           unsorted(t)' \/ t \in shared'.by \/ sortList'[t] = list_
    PROVE  /\ TableInv(t)' /\ dom' \in [Tables -> Seq(Rows)] /\ cache' \in [Tables -> Seq(Entry)]
           /\ marks' \in [Tables -> SortBy] /\ history' \in [Tables -> History]
           /\ \A u \in Tables \ {t} : /\ dom'[u] = dom[u] /\ cache'[u] = cache[u]
                                      /\ marks'[u] = marks[u] /\ history'[u] = history[u]
           /\ content' = content /\ parsers' = parsers
<1> DEFINE c == cache[t]
           n == Len(c)
           s == multisort(list_, c)
           q == appended(dom[t], s)
<1>1. /\ dom \in [Tables -> Seq(Rows)] /\ cache \in [Tables -> Seq(Entry)]
      /\ marks \in [Tables -> SortBy] /\ history \in [Tables -> History]
      /\ TableInv(t)
  BY DEF TablesInv, TableTypes
<1>2. /\ dom[t] \in Seq(Rows) /\ Once(dom[t]) /\ c \in Seq(Entry) /\ Rooted(c) /\ n \in Nat
  BY <1>1 DEF TableInv
<1> HIDE DEF c
<1>3. Rooted(s) /\ Len(s) = n /\ ToSet(s) = ToSet(c) /\ sortedBy(list_, s)
  BY <1>2, Multisort
<1>4. s \in Seq(Entry)
  BY <1>3 DEF Rooted
<1> HIDE DEF s
<1>5. /\ q \in Seq(Rows) /\ Once(q) /\ ToSet(q) = ToSet(dom[t]) \union RowsOf(s)
      /\ ToSet(dom[t]) \subseteq RowsOf(s) =>
             Len(q) = Len(s) /\ \A i \in 1..Len(s) : q[i] = s[i].row
  BY <1>2, <1>3, Appended
<1> HIDE DEF q
<1>6. /\ cache' = [cache EXCEPT ![t] = s] /\ dom' = [dom EXCEPT ![t] = q]
      /\ marks' = [marks EXCEPT ![t] = list_] /\ content' = content /\ parsers' = parsers
      /\ history' = [history EXCEPT ![t].changed = @ /\ untold(t), ![t].raced = @ \/ untold(t)]
  <2>1. cache' = [cache EXCEPT ![t] = s]
    BY DEF sortTable, s, c
  <2>2. cache'[t] = s
    BY <1>1, <2>1
  <2> QED
    BY <2>1, <2>2 DEF sortTable, setHeadersCss, appendToTable, q
<1>7. /\ cache'[t] = s /\ dom'[t] = q /\ marks'[t] = list_
      /\ dom' \in [Tables -> Seq(Rows)] /\ cache' \in [Tables -> Seq(Entry)]
      /\ marks' \in [Tables -> SortBy]
      /\ \A u \in Tables \ {t} : dom'[u] = dom[u] /\ cache'[u] = cache[u] /\ marks'[u] = marks[u]
  BY <1>1, <1>4, <1>5, <1>6
<1>8. /\ history' \in [Tables -> History] /\ history'[t].gone = history[t].gone
      /\ history'[t].changed <=> history[t].changed /\ untold(t)
      /\ history'[t].raced <=> history[t].raced \/ untold(t)
      /\ \A u \in Tables \ {t} : history'[u] = history[u]
  <2>1. history[t] \in History
    BY <1>1
  <2> DEFINE h == [history[t] EXCEPT !.changed = @ /\ untold(t), !.raced = @ \/ untold(t)]
  <2>2. history' = [history EXCEPT ![t] = h]
    BY <1>1, <1>6
  <2>3. /\ h \in History /\ h.gone = history[t].gone
        /\ h.changed <=> history[t].changed /\ untold(t)
        /\ h.raced <=> history[t].raced \/ untold(t)
    BY <2>1 DEF History
  <2> HIDE DEF h
  <2>4. history'[t] = h
    BY <1>1, <2>2
  <2> QED
    BY <1>1, <2>2, <2>3, <2>4
<1>9. ASSUME NEW i \in 1..n PROVE \E k \in 1..n : s[i] = c[k]
  <2>1. ToSet(s) = {s[k] : k \in 1..n} /\ ToSet(c) = {c[k] : k \in 1..n}
    BY <1>2, <1>3, <1>4, SetOfSeq
  <2> QED
    BY <1>3, <2>1
<1>10. ASSUME NEW k \in 1..n PROVE \E i \in 1..n : s[i] = c[k]
  <2>1. ToSet(s) = {s[i] : i \in 1..n} /\ ToSet(c) = {c[i] : i \in 1..n}
    BY <1>2, <1>3, <1>4, SetOfSeq
  <2> QED
    BY <1>3, <2>1
<1>11. RowsOf(s) = RowsOf(c)
  <2>1. ASSUME NEW x \in {s[i].row : i \in 1..n} PROVE x \in {c[i].row : i \in 1..n}
    BY <1>9
  <2>2. ASSUME NEW x \in {c[i].row : i \in 1..n} PROVE x \in {s[i].row : i \in 1..n}
    BY <1>10
  <2>3. {s[i].row : i \in 1..n} = {c[i].row : i \in 1..n}
    BY <2>1, <2>2
  <2> QED
    BY <1>3, <2>3 DEF RowsOf
<1>12. \A i \in 1..n : s[i].pos \in 1..n
  <2>1. \A k \in 1..n : c[k].pos \in 1..n
    BY <1>1 DEF TableInv, c
  <2> QED
    BY <1>9, <2>1
<1>13. ASSUME ~untold(t) PROVE Follows(t)'
  <2>1. Follows(t) /\ RowsOf(c) = ToSet(dom[t])
    BY <1>1, <1>2, <1>13, FollowedRows DEF TableInv, c
  <2>2. Len(q) = n /\ \A i \in 1..n : q[i] = s[i].row
    BY <1>3, <1>5, <1>11, <2>1
  <2>3. ASSUME NEW i \in 1..n
        PROVE  s[i].keys = [x \in Columns |-> format(parsers[t][x], content[t][q[i]][x])]
    <3>1. PICK k \in 1..n : s[i] = c[k]
      BY <1>9
    <3>2. /\ c[k].row = dom[t][k]
          /\ c[k].keys = [x \in Columns |-> format(parsers[t][x], content[t][dom[t][k]][x])]
      BY <2>1 DEF Follows, c
    <3>3. q[i] = dom[t][k]
      BY <2>2, <3>1, <3>2
    <3> QED
      BY <3>1, <3>2, <3>3
  <2>4. Len(cache'[t]) = Len(dom'[t])
    BY <1>3, <1>7, <2>2
  <2>5. ASSUME NEW i \in 1..Len(dom'[t])
        PROVE  /\ cache'[t][i].row = dom'[t][i]
               /\ cache'[t][i].keys =
                    [x \in Columns |-> format(parsers'[t][x], content'[t][dom'[t][i]][x])]
    <3>1. i \in 1..n
      BY <1>7, <2>2, <2>5
    <3>2. parsers' = parsers /\ content' = content
      BY <1>6
    <3> QED
      BY <1>7, <2>2, <2>3, <3>1, <3>2
  <2> QED
    BY <2>4, <2>5 DEF Follows
<1>14. TableInv(t)'
  <2>1. Once(dom[t])' /\ Rooted(cache[t])'
    BY <1>3, <1>5, <1>7
  <2>2. (\A i \in 1..Len(cache[t]) : cache[t][i].pos \in 1..Len(cache[t]))'
    BY <1>3, <1>7, <1>12
  <2>3. (untold(t) \/ Follows(t))' /\ (untold(t) => history[t].changed)'
    BY <1>1, <1>8, <1>13 DEF TableInv
  <2>4. (ToSet(dom[t]) \intersect history[t].gone # {} => history[t].raced)'
    BY <1>1, <1>5, <1>7, <1>8, <1>11 DEF TableInv, c
  <2>5. (RowsOf(cache[t]) \intersect history[t].gone # {} => history[t].raced \/ untold(t))'
    BY <1>1, <1>7, <1>8, <1>11 DEF TableInv, c
  <2>6. (history[t].changed \/ sortedBy(marks[t], cache[t]))'
    BY <1>3, <1>7
  <2>7. (unsorted(t) \/ t \in shared.by \/ marks[t] = sortList[t])'
    BY <1>7
  <2> QED
    BY <2>1, <2>2, <2>3, <2>4, <2>5, <2>6, <2>7 DEF TableInv
<1> QED
  BY <1>6, <1>7, <1>8, <1>14

--------------------------------------------------------------------------------
(* Initial states and steps *)

LEMMA ParserTypes == ASSUME NEW t PROVE buildParserCache(t) \in [Columns -> {"digit", "text"}]
<1>1. \A c : detectParserForColumn(t, c) \in {"digit", "text"}
  BY DEF detectParserForColumn
<1> QED
  BY <1>1 DEF buildParserCache

LEMMA NothingWaits == ToSet(<<>>) = {} /\ <<>> \in Seq(Timers) /\ <<>> \in SortBy
  BY DEF ToSet, SortBy

LEMMA CellTypes == Cell = {"", "10", "9", "a"}
<1>1. DOMAIN Texts = 1..4 /\ Texts[1] = "" /\ Texts[2] = "10" /\ Texts[3] = "9" /\ Texts[4] = "a"
  BY DEF Texts
<1>2. 1..4 = {1, 2, 3, 4}
  OBVIOUS
<1> QED
  BY <1>1, <1>2 DEF Cell, ToSet

LEMMA BoundTypes == MaxChanges \in Nat
  BY TablesAssumption

LEMMA TablesInvInit == TablesInit => TablesInv
<1> SUFFICES ASSUME TablesInit PROVE TablesInv
  OBVIOUS
<1>1. content \in [Tables -> [Rows -> [Columns -> Cell]]]
  BY TablesAssumption, CellTypes DEF TablesInit
<1>2. \A t \in Tables : dom[t] = FirstRows /\ FirstRows \in Seq(Rows) /\ Once(FirstRows)
  <2>1. FirstRows \in Seq(Rows) /\ \A i, j \in DOMAIN FirstRows : FirstRows[i] = FirstRows[j] => i = j
    BY TablesAssumption
  <2>2. DOMAIN FirstRows = 1..Len(FirstRows)
    BY <2>1
  <2>3. Once(FirstRows)
    BY <2>1, <2>2 DEF Once
  <2> QED
    BY <2>1, <2>3 DEF TablesInit
<1>3. ASSUME NEW t \in Tables
      PROVE  /\ Rooted(cache[t]) /\ Len(cache[t]) = Len(dom[t])
             /\ \A i \in 1..Len(dom[t]) : Stands(cache[t][i], t, i, parsers[t])
  <2>1. cache[t] = buildCache(t, parsers[t])
    BY DEF TablesInit
  <2> QED
    BY <1>1, <1>2, <2>1, BuiltCache
<1>4. TableTypes
  <2>1. parsers \in [Tables -> [Columns -> {"digit", "text"}]]
    BY ParserTypes DEF TablesInit
  <2>2. cache \in [Tables -> Seq(Entry)]
    <3>1. \A t \in Tables : cache[t] \in Seq(Entry)
      BY <1>3 DEF Rooted
    <3>2. cache = [t \in Tables |-> cache[t]]
      BY DEF TablesInit
    <3> QED
      BY <3>1, <3>2
  <2>3. /\ counts \in [Tables -> [Columns -> Order]] /\ sortList \in [Tables -> SortBy]
        /\ marks \in [Tables -> SortBy] /\ shared \in [list : SortBy, by : SUBSET Tables]
        /\ timers \in Seq(Timers) /\ changes \in 0..MaxChanges
        /\ history \in [Tables -> History]
    <3>1. counts \in [Tables -> [Columns -> Order]]
      BY DEF TablesInit, Order
    <3>2. /\ sortList \in [Tables -> SortBy] /\ marks \in [Tables -> SortBy]
          /\ shared \in [list : SortBy, by : SUBSET Tables] /\ timers \in Seq(Timers)
      BY NothingWaits DEF TablesInit
    <3>3. changes \in 0..MaxChanges
      BY BoundTypes DEF TablesInit
    <3>4. [gone |-> {}, raced |-> FALSE, changed |-> FALSE] \in History
      BY DEF History
    <3>5. history \in [Tables -> History]
      BY <3>4 DEF TablesInit
    <3> QED
      BY <3>1, <3>2, <3>3, <3>5
  <2>4. dom \in [Tables -> Seq(Rows)]
    BY <1>2 DEF TablesInit
  <2> QED
    BY <1>1, <2>1, <2>2, <2>3, <2>4 DEF TableTypes
<1>5. ASSUME NEW t \in Tables PROVE TableInv(t)
  <2> DEFINE n == Len(dom[t])
  <2>1. n \in Nat
    BY <1>2
  <2> HIDE DEF n
  <2>2. /\ Len(cache[t]) = n /\ \A i \in 1..n : Stands(cache[t][i], t, i, parsers[t])
        /\ cache[t] \in Seq(Entry) /\ DOMAIN cache[t] = 1..n
    BY <1>3 DEF n, Rooted
  <2>3. ~untold(t) /\ ~unsorted(t)
    BY NothingWaits DEF TablesInit, untold, unsorted
  <2>4. history[t].gone = {} /\ t \in shared.by /\ marks[t] = <<>>
    BY DEF TablesInit
  <2>5. Follows(t)
    BY <2>2 DEF Follows, Stands, n
  <2>6. sortedBy(<<>>, cache[t])
    <3>1. ASSUME NEW i \in 1..n, NEW j \in 1..n, i < j PROVE before(<<>>, cache[t][i], cache[t][j])
      <4>1. cache[t][i] \in Entry /\ cache[t][j] \in Entry
        BY <2>2
      <4>2. cache[t][i].pos < cache[t][j].pos
        BY <2>2, <3>1 DEF Stands
      <4>3. Alike(<<>>, cache[t][i], cache[t][j])
        BY DEF Alike
      <4> QED
        BY <4>1, <4>2, <4>3, DecidesOne, NothingWaits
    <3> QED
      BY <2>2, <3>1 DEF sortedBy
  <2>7. \A i \in 1..Len(cache[t]) : cache[t][i].pos \in 1..Len(cache[t])
    BY <2>2 DEF Stands
  <2> QED
    BY <1>2, <1>3, <2>3, <2>4, <2>5, <2>6, <2>7 DEF TableInv
<1> QED
  BY <1>4, <1>5 DEF TablesInv

LEMMA CountTypes ==
    ASSUME NEW f \in [Tables -> [Columns -> Order]], NEW h, NEW c \in Columns, NEW v \in Order
    PROVE  [f EXCEPT ![h][c] = v] \in [Tables -> [Columns -> Order]]
  OBVIOUS

LEMMA Orders01 == \A v \in Order : 1 - v \in Order
  BY DEF Order

\* A timer for one table is none for another.
LEMMA TimerSet ==
    ASSUME TableTypes, NEW t \in Tables, NEW what \in {"sort", "update"}, later(what, t)
    PROVE  /\ timers' \in Seq(Timers)
           /\ \A u \in Tables \ {t} : (untold(u)' <=> untold(u)) /\ (unsorted(u)' <=> unsorted(u))
           /\ what = "sort" => unsorted(t)' /\ (untold(t)' <=> untold(t))
           /\ what = "update" => untold(t)' /\ (unsorted(t)' <=> unsorted(t))
<1>1. /\ timers' \in Seq(Timers) /\ ToSet(timers') = ToSet(timers) \union {<<what, t>>}
  BY AppendedTimer DEF later, TableTypes
<1> QED
  BY <1>1 DEF untold, unsorted

LEMMA ClickHeaderInv ==
    ASSUME TablesInv, NEW t \in Tables, NEW c \in Columns, ClickHeader(t, c) PROVE TablesInv'
<1>1. TableTypes /\ later("sort", t)
  BY DEF TablesInv, ClickHeader
<1>2. <<<<c, counts[t][c]>>>> \in SortBy
  <2>1. <<c, counts[t][c]>> \in Columns \X Order
    BY <1>1 DEF TableTypes
  <2> QED
    BY <2>1 DEF SortBy
<1>3. TableTypes'
  <2>1. counts' \in [Tables -> [Columns -> Order]]
    <3>1. 1 - counts[t][c] \in Order
      BY <1>1, Orders01 DEF TableTypes
    <3>2. counts' = [counts EXCEPT ![t][c] = 1 - counts[t][c]]
      BY <1>1 DEF ClickHeader, TableTypes
    <3> QED
      BY <1>1, <3>1, <3>2, CountTypes DEF TableTypes
  <2>2. sortList' \in [Tables -> SortBy] /\ shared' \in [list : SortBy, by : SUBSET Tables]
    BY <1>1, <1>2 DEF ClickHeader, TableTypes
  <2>3. timers' \in Seq(Timers)
    BY <1>1, TimerSet
  <2> QED
    BY <1>1, <2>1, <2>2, <2>3 DEF ClickHeader, TableTypes
<1>4. /\ dom' = dom /\ cache' = cache /\ content' = content /\ parsers' = parsers
      /\ history' = history /\ marks' = marks
      /\ \A u \in Tables \ {t} : sortList'[u] = sortList[u] /\ (u \in shared'.by <=> u \in shared.by)
  BY <1>1 DEF ClickHeader, TableTypes
<1>5. ASSUME NEW u \in Tables \ {t} PROVE TableInv(u)'
  <2>1. SameTable(u)
    BY <1>1, <1>4, TimerSet DEF SameTable, SameRows
  <2> QED
    BY <2>1, SameTableInv DEF TablesInv
<1>6. TableInv(t)'
  <2>1. SameRows(t) /\ unsorted(t)'
    BY <1>1, <1>4, TimerSet DEF SameRows
  <2> QED
    BY <2>1, SameRowsInv DEF TablesInv
<1> QED
  BY <1>3, <1>5, <1>6 DEF TablesInv

LEMMA ListTypes ==
    ASSUME NEW list_ \in SortBy, NEW c \in Columns, NEW v \in Order
    PROVE  /\ Append(list_, <<c, v>>) \in SortBy
           /\ \A places : [i \in DOMAIN list_ |-> IF i \in places THEN <<c, 1 - list_[i][2]>>
                                                  ELSE list_[i]] \in SortBy
           /\ \A i \in DOMAIN list_ : 1 - list_[i][2] \in Order
<1>1. <<c, v>> \in Columns \X Order
  OBVIOUS
<1>2. Append(list_, <<c, v>>) \in SortBy
  BY <1>1 DEF SortBy
<1>3. DOMAIN list_ = 1..Len(list_) /\ Len(list_) \in Nat
  BY DEF SortBy
<1>4. ASSUME NEW i \in DOMAIN list_
      PROVE  list_[i] \in Columns \X Order /\ 1 - list_[i][2] \in Order
  <2>1. list_[i] \in Columns \X Order
    BY <1>3 DEF SortBy
  <2>2. list_[i][2] \in Order
    BY <2>1
  <2> QED
    BY <2>1, <2>2, Orders01
<1>5. ASSUME NEW places
      PROVE  [i \in DOMAIN list_ |-> IF i \in places THEN <<c, 1 - list_[i][2]>>
                                     ELSE list_[i]] \in SortBy
  <2>1. \A i \in 1..Len(list_) :
           (IF i \in places THEN <<c, 1 - list_[i][2]>> ELSE list_[i]) \in Columns \X Order
    BY <1>3, <1>4
  <2> QED
    BY <1>3, <2>1 DEF SortBy
<1> QED
  BY <1>2, <1>4, <1>5

LEMMA SetListTypes ==
    ASSUME TableTypes, NEW t \in Tables, NEW list_ \in SortBy, setList(t, list_)
    PROVE  /\ sortList' \in [Tables -> SortBy]
           /\ shared' \in [list : SortBy, by : SUBSET Tables] /\ shared'.by = shared.by
           /\ \A u \in Tables \ {t} : sortList'[u] = sortList[u]
<1>1. CASE t \in shared.by
  BY <1>1 DEF setList, TableTypes
<1>2. CASE t \notin shared.by
  BY <1>2 DEF setList, TableTypes
<1> QED
  BY <1>1, <1>2

LEMMA ShiftClickHeaderInv ==
    ASSUME TablesInv, NEW t \in Tables, NEW c \in Columns, ShiftClickHeader(t, c)
    PROVE  TablesInv'
<1> DEFINE list_ == listOf(t)
           at == {i \in DOMAIN list_ : list_[i][1] = c}
           turned == [i \in DOMAIN list_ |-> IF i \in at THEN <<c, 1 - list_[i][2]>> ELSE list_[i]]
           counted == [counts EXCEPT ![t][c] = 1 - counts[t][c]]
           other == 1 - list_[CHOOSE i \in at : TRUE][2]
<1>1. TableTypes /\ later("sort", t)
  BY DEF TablesInv, ShiftClickHeader
<1>2. list_ \in SortBy /\ counts[t][c] \in Order
  BY <1>1 DEF TableTypes, listOf
<1>3. /\ Append(list_, <<c, counts[t][c]>>) \in SortBy /\ turned \in SortBy
      /\ at # {} => other \in Order
  <2>1. at # {} => (CHOOSE i \in at : TRUE) \in DOMAIN list_
    OBVIOUS
  <2> HIDE DEF list_, at
  <2> QED
    BY <1>2, <2>1, ListTypes
<1>4. counted \in [Tables -> [Columns -> Order]]
  BY <1>1, <1>2, Orders01, CountTypes DEF TableTypes
<1>5. /\ at = {} => setList(t, Append(list_, <<c, counts[t][c]>>)) /\ counts' = counted
      /\ at # {} => setList(t, turned) /\ counts' = [counted EXCEPT ![headersOf][c] = other]
  <2>1. counted = [counts EXCEPT ![t][c] = 1 - @]
    BY <1>1 DEF TableTypes
  <2> QED
    BY <2>1 DEF ShiftClickHeader
<1> HIDE DEF list_, at, turned, counted, other
<1>6. /\ sortList' \in [Tables -> SortBy]
      /\ shared' \in [list : SortBy, by : SUBSET Tables] /\ shared'.by = shared.by
      /\ \A u \in Tables \ {t} : sortList'[u] = sortList[u]
  BY <1>1, <1>3, <1>5, SetListTypes
<1>7. counts' \in [Tables -> [Columns -> Order]]
  <2>1. at # {} => [counted EXCEPT ![headersOf][c] = other] \in [Tables -> [Columns -> Order]]
    <3> HIDE DEF headersOf
    <3> QED
      BY <1>3, <1>4, CountTypes
  <2> QED
    BY <1>4, <1>5, <2>1
<1>8. /\ dom' = dom /\ cache' = cache /\ content' = content /\ parsers' = parsers
      /\ history' = history /\ marks' = marks /\ changes' = changes
  BY DEF ShiftClickHeader
<1>9. TableTypes'
  BY <1>1, <1>6, <1>7, <1>8, TimerSet DEF TableTypes
<1>10. ASSUME NEW u \in Tables \ {t} PROVE TableInv(u)'
  <2>1. SameTable(u)
    BY <1>1, <1>6, <1>8, TimerSet DEF SameTable, SameRows
  <2> QED
    BY <2>1, SameTableInv DEF TablesInv
<1>11. TableInv(t)'
  <2>1. SameRows(t) /\ unsorted(t)'
    BY <1>1, <1>8, TimerSet DEF SameRows
  <2> QED
    BY <2>1, SameRowsInv DEF TablesInv
<1> QED
  BY <1>9, <1>10, <1>11 DEF TablesInv

LEMMA SortOnInv ==
    ASSUME TablesInv, NEW t \in Tables, NEW c \in Columns, NEW order \in Order,
           SortOn(t, c, order)
    PROVE  TablesInv'
<1> DEFINE list_ == <<<<c, order>>>>
<1>1. TableTypes
  BY DEF TablesInv
<1>2. list_ \in SortBy
  BY DEF SortBy
<1>3. /\ sortList' \in [Tables -> SortBy] /\ sortList'[t] = list_
      /\ shared' \in [list : SortBy, by : SUBSET Tables] /\ timers' = timers
      /\ \A u \in Tables \ {t} : sortList'[u] = sortList[u] /\ (u \in shared'.by <=> u \in shared.by)
  BY <1>1, <1>2 DEF SortOn, TableTypes
<1>4. counts' \in [Tables -> [Columns -> Order]]
  BY <1>1, Orders01, CountTypes DEF SortOn, updateHeaderSortCount, TableTypes
<1>5. changes' \in 0..MaxChanges
  BY <1>1, BoundTypes DEF SortOn, TableTypes
<1>6. sortTable(t, list_)
  BY DEF SortOn
<1> HIDE DEF list_
<1>7. \A u \in Tables : (untold(u)' <=> untold(u)) /\ (unsorted(u)' <=> unsorted(u))
  BY <1>3 DEF untold, unsorted
<1>8. /\ TableInv(t)' /\ dom' \in [Tables -> Seq(Rows)] /\ cache' \in [Tables -> Seq(Entry)]
      /\ marks' \in [Tables -> SortBy] /\ history' \in [Tables -> History]
      /\ \A u \in Tables \ {t} : /\ dom'[u] = dom[u] /\ cache'[u] = cache[u]
                                 /\ marks'[u] = marks[u] /\ history'[u] = history[u]
      /\ content' = content /\ parsers' = parsers
  BY <1>2, <1>3, <1>6, <1>7, SortTableInv
<1>9. TableTypes'
  BY <1>1, <1>3, <1>4, <1>5, <1>8 DEF TableTypes
<1>10. ASSUME NEW u \in Tables \ {t} PROVE TableInv(u)'
  <2>1. SameTable(u)
    BY <1>3, <1>7, <1>8 DEF SameTable, SameRows
  <2> QED
    BY <2>1, SameTableInv DEF TablesInv
<1> QED
  BY <1>8, <1>9, <1>10 DEF TablesInv

\* The page changes the rows: what it removed is in no place any more, but in the cache.
LEMMA ChangeRowsInv ==
    ASSUME TablesInv, NEW t \in Tables, NEW rows \in Seq(Rows), Once(rows), ChangeRows(t, rows)
    PROVE  TablesInv'
<1>1. /\ TableTypes /\ TableInv(t) /\ later("update", t)
      /\ history \in [Tables -> History] /\ dom \in [Tables -> Seq(Rows)]
  BY DEF TablesInv, ChangeRows, TableTypes
<1> DEFINE gone == (history[t].gone \union ToSet(dom[t])) \ ToSet(rows)
           h == [history[t] EXCEPT !.gone = gone, !.changed = TRUE]
<1>2. gone \in SUBSET Rows
  <2>1. history[t].gone \in SUBSET Rows
    BY <1>1 DEF History
  <2>2. ToSet(dom[t]) \in SUBSET Rows
    BY <1>1, SetOfSeq
  <2> QED
    BY <2>1, <2>2
<1>3. history' = [history EXCEPT ![t] = h]
  BY <1>1 DEF ChangeRows
<1>4. gone \intersect ToSet(rows) = {}
  OBVIOUS
<1> HIDE DEF gone
<1>5. h \in History /\ h.gone = gone /\ h.changed
  BY <1>1, <1>2 DEF History
<1> HIDE DEF h
<1>6. /\ history' \in [Tables -> History] /\ history'[t] = h
      /\ \A u \in Tables \ {t} : history'[u] = history[u]
  BY <1>1, <1>3, <1>5
<1>7. /\ dom' \in [Tables -> Seq(Rows)] /\ dom'[t] = rows
      /\ \A u \in Tables \ {t} : dom'[u] = dom[u]
  BY <1>1 DEF ChangeRows
<1>8. changes' \in 0..MaxChanges
  BY <1>1, BoundTypes DEF ChangeRows, TableTypes
<1>9. /\ cache' = cache /\ content' = content /\ parsers' = parsers /\ marks' = marks
      /\ counts' = counts /\ sortList' = sortList /\ shared' = shared
  BY DEF ChangeRows, headerVars
<1>10. TableTypes'
  BY <1>1, <1>6, <1>7, <1>8, <1>9, TimerSet DEF TableTypes
<1>11. ASSUME NEW u \in Tables \ {t} PROVE TableInv(u)'
  <2>1. SameTable(u)
    BY <1>1, <1>6, <1>7, <1>9, TimerSet DEF SameTable, SameRows
  <2> QED
    BY <2>1, SameTableInv DEF TablesInv
<1>12. TableInv(t)'
  <2>1. untold(t)' /\ (unsorted(t)' <=> unsorted(t))
    BY <1>1, TimerSet
  <2>2. Once(dom[t])' /\ Rooted(cache[t])'
    BY <1>1, <1>7, <1>9 DEF TableInv
  <2>3. (\A i \in 1..Len(cache[t]) : cache[t][i].pos \in 1..Len(cache[t]))'
    BY <1>1, <1>9 DEF TableInv
  <2>4. history'[t].changed /\ history'[t].gone = gone
    BY <1>5, <1>6
  <2>5. (ToSet(dom[t]) \intersect history[t].gone # {} => history[t].raced)'
    BY <1>4, <1>7, <2>4
  <2>6. (unsorted(t) \/ t \in shared.by \/ marks[t] = sortList[t])'
    BY <1>1, <1>9, <2>1 DEF TableInv
  <2> QED
    BY <2>1, <2>2, <2>3, <2>4, <2>5, <2>6 DEF TableInv
<1> QED
  BY <1>10, <1>11, <1>12 DEF TablesInv

LEMMA WithoutOne ==
    ASSUME NEW seq \in Seq(Rows), Once(seq), NEW i \in 1..Len(seq)
    PROVE  RemoveAt(seq, i) \in Seq(Rows) /\ Once(RemoveAt(seq, i))
<1> DEFINE n == Len(seq)
           a == SubSeq(seq, 1, i - 1)
           b == SubSeq(seq, i + 1, n)
           q == RemoveAt(seq, i)
           place(k) == IF k < i THEN k ELSE k + 1
<1>1. n \in Nat /\ i \in 1..n
  OBVIOUS
<1>2. /\ a \in Seq(Rows) /\ Len(a) = i - 1 /\ \A k \in 1..i - 1 : a[k] = seq[k]
      /\ b \in Seq(Rows) /\ Len(b) = n - i /\ \A k \in 1..n - i : b[k] = seq[k + i]
  <2>1. a \in Seq(Rows) /\ Len(a) = i - 1 /\ \A k \in 1..i - 1 : a[k] = seq[k]
    BY <1>1
  <2>2. b \in Seq(Rows) /\ Len(b) = n - i
    BY <1>1
  <2>3. ASSUME NEW k \in 1..n - i PROVE b[k] = seq[k + i]
    BY <1>1
  <2> QED
    BY <2>1, <2>2, <2>3
<1>3. q = a \o b
  BY DEF RemoveAt
<1> HIDE DEF n, a, b, q
<1>4. /\ q \in Seq(Rows) /\ Len(q) = n - 1
      /\ \A k \in 1..n - 1 : k <= i - 1 => q[k] = a[k]
      /\ \A k \in 1..n - 1 : k > i - 1 => q[k] = b[k - (i - 1)]
  <2>1. q \in Seq(Rows) /\ Len(q) = n - 1
    <3>1. a \in Seq(Rows) /\ b \in Seq(Rows)
      BY <1>2
    <3>2. (a \o b) \in Seq(Rows) /\ Len(a \o b) = Len(a) + Len(b)
      BY <3>1, ConcatProperties
    <3> QED
      BY <1>1, <1>2, <1>3, <3>2
  <2>2. ASSUME NEW k \in 1..n - 1
        PROVE  q[k] = IF k <= i - 1 THEN a[k] ELSE b[k - (i - 1)]
    <3>1. a \in Seq(Rows) /\ b \in Seq(Rows)
      BY <1>2
    <3>2. \A x \in 1..Len(a) + Len(b) : (a \o b)[x] = IF x <= Len(a) THEN a[x] ELSE b[x - Len(a)]
      BY <3>1, ConcatProperties
    <3>3. k \in 1..Len(a) + Len(b) /\ Len(a) = i - 1
      BY <1>1, <1>2
    <3> QED
      BY <1>3, <3>2, <3>3
  <2> QED
    BY <2>1, <2>2
<1>5. ASSUME NEW k \in 1..n - 1 PROVE q[k] = seq[place(k)] /\ place(k) \in 1..n
  <2>1. CASE k <= i - 1
    BY <1>1, <1>2, <1>4, <2>1
  <2>2. CASE k > i - 1
    <3>1. k - (i - 1) \in 1..n - i /\ (k - (i - 1)) + i = k + 1 /\ k \in Int /\ i \in Int
      BY <1>1, <2>2
    <3> QED
      BY <1>1, <1>2, <1>4, <2>2, <3>1
  <2> QED
    BY <1>1, <2>1, <2>2
<1>6. ASSUME NEW k \in 1..n - 1, NEW l \in 1..n - 1, place(k) = place(l) PROVE k = l
  BY <1>1, <1>6
<1> HIDE DEF place
<1>7. ASSUME NEW k \in 1..n - 1, NEW l \in 1..n - 1, q[k] = q[l] PROVE k = l
  <2>1. place(k) = place(l)
    BY <1>5, <1>7 DEF Once, n
  <2> QED
    BY <1>6, <2>1
<1>8. Once(q)
  BY <1>4, <1>7 DEF Once
<1> QED
  BY <1>4, <1>8 DEF q

LEMMA WithOneMore ==
    ASSUME NEW seq \in Seq(Rows), Once(seq), NEW r \in Rows \ ToSet(seq)
    PROVE  Append(seq, r) \in Seq(Rows) /\ Once(Append(seq, r))
<1> DEFINE n == Len(seq)
           q == Append(seq, r)
<1>1. /\ q \in Seq(Rows) /\ Len(q) = n + 1 /\ n \in Nat
      /\ \A i \in 1..n : q[i] = seq[i] /\ seq[i] # r
      /\ q[n + 1] = r
  BY SetOfSeq
<1> HIDE DEF q
<1>2. ASSUME NEW i \in 1..n + 1, NEW j \in 1..n + 1, q[i] = q[j] PROVE i = j
  <2>1. CASE i \in 1..n /\ j \in 1..n
    BY <1>1, <1>2, <2>1 DEF Once
  <2>2. CASE ~(i \in 1..n /\ j \in 1..n)
    BY <1>1, <1>2, <2>2
  <2> QED
    BY <2>1, <2>2
<1> QED
  BY <1>1, <1>2 DEF Once, q

\* A cell and its key change together; the other rows have other entries.
LEMMA UpdateCellInv ==
    ASSUME TablesInv, NEW t \in Tables, NEW i \in DOMAIN dom[t], NEW c \in Columns,
           NEW text \in Cell, UpdateCell(t, i, c, text)
    PROVE  TablesInv'
<1> DEFINE r == dom[t][i]
           n == Len(cache[t])
           key == format(parsers[t][c], text)
           e == [cache[t][i] EXCEPT !.keys[c] = key]
           h == [history[t] EXCEPT !.changed = TRUE]
<1>1. /\ TableTypes /\ TableInv(t) /\ dom[t] \in Seq(Rows) /\ cache[t] \in Seq(Entry)
      /\ history \in [Tables -> History] /\ n \in Nat /\ DOMAIN cache[t] = 1..n
      /\ content \in [Tables -> [Rows -> [Columns -> Cell]]]
      /\ cache \in [Tables -> Seq(Entry)]
  BY DEF TablesInv, TableTypes
<1>2. i \in 1..Len(dom[t]) /\ r \in Rows /\ key \in Nat
  BY <1>1, KeysAreNats
<1>3. h \in History /\ h.gone = history[t].gone /\ h.raced = history[t].raced /\ h.changed
  BY <1>1 DEF History
<1>4. history' = [history EXCEPT ![t] = h]
  BY <1>1 DEF UpdateCell
<1> HIDE DEF h
<1>5. /\ history' \in [Tables -> History] /\ history'[t] = h
      /\ \A u \in Tables \ {t} : history'[u] = history[u]
  BY <1>1, <1>3, <1>4
<1>6. content' = [content EXCEPT ![t][r][c] = text]
  BY DEF UpdateCell
<1>7. /\ content' \in [Tables -> [Rows -> [Columns -> Cell]]]
      /\ \A u \in Tables \ {t} : content'[u] = content[u]
      /\ \A s \in Rows \ {r} : content'[t][s] = content[t][s]
      /\ content'[t][r] = [content[t][r] EXCEPT ![c] = text]
  <2> HIDE DEF r
  <2> QED
    BY <1>1, <1>2, <1>6
<1>8. /\ i \notin 1..n => cache' = cache
      /\ i \in 1..n => cache' = [cache EXCEPT ![t] = [cache[t] EXCEPT ![i] = e]]
  BY <1>1 DEF UpdateCell
<1>9. i \in 1..n => /\ e \in Entry /\ e.row = cache[t][i].row /\ e.pos = cache[t][i].pos
                    /\ e.keys = [cache[t][i].keys EXCEPT ![c] = key]
  <2> SUFFICES ASSUME i \in 1..n
               PROVE  /\ e \in Entry /\ e.row = cache[t][i].row /\ e.pos = cache[t][i].pos
                      /\ e.keys = [cache[t][i].keys EXCEPT ![c] = key]
    OBVIOUS
  <2> DEFINE x == cache[t][i]
  <2>1. x \in Entry
    BY <1>1
  <2> HIDE DEF x, key
  <2>2. [x EXCEPT !.keys[c] = key] =
            [row |-> x.row, keys |-> [x.keys EXCEPT ![c] = key], pos |-> x.pos]
    BY <2>1 DEF Entry
  <2>3. [x.keys EXCEPT ![c] = key] \in [Columns -> Nat]
    BY <1>2, <2>1 DEF Entry
  <2>4. x.row \in Rows /\ x.pos \in Nat
    BY <2>1 DEF Entry
  <2>5. [row |-> x.row, keys |-> [x.keys EXCEPT ![c] = key], pos |-> x.pos] \in Entry
    BY <2>3, <2>4 DEF Entry
  <2> QED
    BY <2>2, <2>5 DEF x
<1> HIDE DEF e
<1>10. /\ cache' \in [Tables -> Seq(Entry)] /\ Len(cache'[t]) = n
       /\ \A u \in Tables \ {t} : cache'[u] = cache[u]
       /\ \A k \in 1..n : k # i => cache'[t][k] = cache[t][k]
       /\ i \in 1..n => cache'[t][i] = e
  <2>1. CASE i \notin 1..n
    BY <1>1, <1>8, <2>1
  <2>2. CASE i \in 1..n
    <3> DEFINE q == [cache[t] EXCEPT ![i] = e]
    <3>1. /\ q \in Seq(Entry) /\ Len(q) = n /\ q[i] = e
          /\ \A k \in 1..n : k # i => q[k] = cache[t][k]
      BY <1>1, <1>9, <2>2
    <3> HIDE DEF q
    <3>2. cache' = [cache EXCEPT ![t] = q]
      BY <1>8, <2>2 DEF q
    <3> QED
      BY <1>1, <2>2, <3>1, <3>2
  <2> QED
    BY <2>1, <2>2
<1>11. \A k \in 1..n : cache'[t][k].row = cache[t][k].row /\ cache'[t][k].pos = cache[t][k].pos
  BY <1>9, <1>10
<1>12. /\ dom' = dom /\ parsers' = parsers /\ counts' = counts /\ sortList' = sortList
       /\ shared' = shared /\ marks' = marks /\ timers' = timers
  BY DEF UpdateCell, headerVars
<1>13. changes' \in 0..MaxChanges
  BY <1>1, BoundTypes DEF UpdateCell, TableTypes
<1>14. TableTypes'
  BY <1>1, <1>5, <1>7, <1>10, <1>12, <1>13 DEF TableTypes
<1>15. \A u : (untold(u)' <=> untold(u)) /\ (unsorted(u)' <=> unsorted(u))
  BY <1>12 DEF untold, unsorted
<1>16. ASSUME NEW u \in Tables \ {t} PROVE TableInv(u)'
  <2>1. SameTable(u)
    BY <1>5, <1>7, <1>10, <1>12, <1>15 DEF SameTable, SameRows
  <2> QED
    BY <2>1, SameTableInv DEF TablesInv
<1>17. Rooted(cache[t])'
  <2>1. /\ cache[t] \in Seq(Entry)
        /\ \A j, k \in 1..n : cache[t][j].row = cache[t][k].row \/ cache[t][j].pos = cache[t][k].pos
                                  => j = k
    BY <1>1 DEF TableInv, Rooted
  <2>2. \A j, k \in 1..n : cache'[t][j].row = cache'[t][k].row \/ cache'[t][j].pos = cache'[t][k].pos
                               => j = k
    BY <1>11, <2>1
  <2> QED
    BY <1>10, <2>2 DEF Rooted
<1>18. ASSUME ~untold(t) PROVE Follows(t)'
  <2>1. /\ n = Len(dom[t])
        /\ \A k \in 1..n : /\ cache[t][k].row = dom[t][k]
                           /\ cache[t][k].keys =
                                [x \in Columns |-> format(parsers[t][x], content[t][dom[t][k]][x])]
    BY <1>1, <1>18 DEF TableInv, Follows
  <2>2. ASSUME NEW k \in 1..n
        PROVE  cache'[t][k].keys =
                   [x \in Columns |-> format(parsers[t][x], content'[t][dom[t][k]][x])]
    <3>1. CASE k # i
      <4>1. dom[t][k] \in Rows /\ dom[t][k] # r
        BY <1>1, <1>2, <2>1, <3>1 DEF TableInv, Once
      <4>2. content'[t][dom[t][k]] = content[t][dom[t][k]]
        BY <1>7, <4>1
      <4> QED
        BY <1>10, <2>1, <3>1, <4>2
    <3>2. CASE k = i
      <4> DEFINE old(x) == format(parsers[t][x], content[t][r][x])
                 new(x) == format(parsers[t][x], content'[t][r][x])
      <4>1. cache'[t][i].keys = [[x \in Columns |-> old(x)] EXCEPT ![c] = key]
        BY <1>9, <1>10, <2>1, <3>2
      <4>2. \A x \in Columns : new(x) = IF x = c THEN key ELSE old(x)
        BY <1>1, <1>2, <1>7
      <4> HIDE DEF old, new, key
      <4>3. [[x \in Columns |-> old(x)] EXCEPT ![c] = key] = [x \in Columns |-> new(x)]
        BY <4>2
      <4> QED
        BY <3>2, <4>1, <4>3 DEF new
    <3> QED
      BY <3>1, <3>2
  <2>3. Len(cache'[t]) = Len(dom'[t])
    BY <1>10, <1>12, <2>1
  <2>4. ASSUME NEW k \in 1..Len(dom'[t])
        PROVE  /\ cache'[t][k].row = dom'[t][k]
               /\ cache'[t][k].keys =
                    [x \in Columns |-> format(parsers'[t][x], content'[t][dom'[t][k]][x])]
    BY <1>11, <1>12, <2>1, <2>2
  <2> QED
    BY <2>3, <2>4 DEF Follows
<1>19. TableInv(t)'
  <2>1. Once(dom[t])'
    BY <1>1, <1>12 DEF TableInv
  <2>2. (\A k \in 1..Len(cache[t]) : cache[t][k].pos \in 1..Len(cache[t]))'
    BY <1>1, <1>10, <1>11 DEF TableInv
  <2>3. (untold(t) \/ Follows(t))'
    BY <1>15, <1>18
  <2>4. history'[t].changed
    BY <1>3, <1>5
  <2>5. (ToSet(dom[t]) \intersect history[t].gone # {} => history[t].raced)'
    BY <1>1, <1>3, <1>5, <1>12 DEF TableInv
  <2>6. RowsOf(cache'[t]) = RowsOf(cache[t])
    BY <1>10, <1>11 DEF RowsOf
  <2>7. (RowsOf(cache[t]) \intersect history[t].gone # {} => history[t].raced \/ untold(t))'
    BY <1>1, <1>3, <1>5, <1>15, <2>6 DEF TableInv
  <2>8. (unsorted(t) \/ t \in shared.by \/ marks[t] = sortList[t])'
    BY <1>1, <1>12, <1>15 DEF TableInv
  <2> QED
    BY <1>17, <2>1, <2>2, <2>3, <2>4, <2>5, <2>7, <2>8 DEF TableInv
<1> QED
  BY <1>14, <1>16, <1>19 DEF TablesInv

LEMMA SortTimeoutInv == ASSUME TablesInv, SortTimeout PROVE TablesInv'
<1>0. /\ TableTypes /\ timers \in Seq(Timers) /\ timers # <<>> /\ timers' = Tail(timers)
      /\ Head(timers)[1] = "sort"
      /\ counts' = counts /\ sortList' = sortList /\ shared' = shared /\ changes' = changes
  BY DEF SortTimeout, TablesInv, TableTypes
<1>2. /\ Tail(timers) \in Seq(Timers) /\ Head(timers) \in Timers
      /\ ToSet(timers) = ToSet(timers') \union {Head(timers)}
  BY <1>0, PoppedTimer
<1>3. PICK t \in Tables : Head(timers) = <<"sort", t>>
  BY <1>0, <1>2 DEF Timers
<1>4. PICK list_ \in SortBy : list_ = listOf(t)
  BY <1>0, <1>3 DEF TableTypes, listOf
<1>1. sortTable(t, list_) /\ (t \in shared'.by \/ sortList'[t] = list_)
  BY <1>0, <1>3, <1>4 DEF SortTimeout, listOf
<1>5. \A u : (untold(u)' <=> untold(u)) /\ (u # t => (unsorted(u)' <=> unsorted(u)))
  BY <1>2, <1>3 DEF untold, unsorted
<1>6. /\ TableInv(t)' /\ dom' \in [Tables -> Seq(Rows)] /\ cache' \in [Tables -> Seq(Entry)]
      /\ marks' \in [Tables -> SortBy] /\ history' \in [Tables -> History]
      /\ \A u \in Tables \ {t} : /\ dom'[u] = dom[u] /\ cache'[u] = cache[u]
                                 /\ marks'[u] = marks[u] /\ history'[u] = history[u]
      /\ content' = content /\ parsers' = parsers
  BY <1>1, <1>5, SortTableInv
<1>7. TableTypes'
  BY <1>0, <1>2, <1>6 DEF TableTypes
<1>8. ASSUME NEW u \in Tables \ {t} PROVE TableInv(u)'
  <2>1. SameTable(u)
    BY <1>0, <1>5, <1>6 DEF SameTable, SameRows
  <2> QED
    BY <2>1, SameTableInv DEF TablesInv
<1> QED
  BY <1>6, <1>7, <1>8 DEF TablesInv

\* The update reads the rows anew: what they are then is what the cache holds.
LEMMA UpdateTimeoutInv == ASSUME TablesInv, UpdateTimeout PROVE TablesInv'
<1>0. /\ TableTypes /\ timers \in Seq(Timers) /\ timers # <<>> /\ timers' = Tail(timers)
      /\ Head(timers)[1] = "update" /\ content' = content /\ dom' = dom /\ marks' = marks
      /\ counts' = counts /\ sortList' = sortList /\ shared' = shared /\ changes' = changes
      /\ history' = history
  BY DEF UpdateTimeout, TablesInv, TableTypes, headerVars
<1>2. /\ Tail(timers) \in Seq(Timers) /\ Head(timers) \in Timers
      /\ ToSet(timers) = ToSet(timers') \union {Head(timers)}
  BY <1>0, PoppedTimer
<1>3. PICK t \in Tables : Head(timers) = <<"update", t>>
  BY <1>0, <1>2 DEF Timers
<1>4. PICK types \in [Columns -> {"digit", "text"}] : types = buildParserCache(t)
  BY ParserTypes
<1> DEFINE q == buildCache(t, types)
<1>1. /\ parsers' = [parsers EXCEPT ![t] = types] /\ TableInv(t)
      /\ cache' = [cache EXCEPT ![t] = buildCache(t, parsers'[t])]
  <2>1. Head(timers)[2] = t
    BY <1>3
  <2> QED
    BY <1>3, <1>4, <2>1 DEF UpdateTimeout, TablesInv
<1>5. /\ parsers' \in [Tables -> [Columns -> {"digit", "text"}]] /\ parsers'[t] = types
      /\ \A u \in Tables \ {t} : parsers'[u] = parsers[u]
  BY <1>0, <1>0, <1>1 DEF TableTypes
<1>6. content[t] \in [Rows -> [Columns -> Cell]] /\ dom[t] \in Seq(Rows) /\ Once(dom[t])
  BY <1>0, <1>1, <1>3 DEF TableTypes, TableInv
<1>7. Rooted(q) /\ Len(q) = Len(dom[t]) /\ \A i \in 1..Len(dom[t]) : Stands(q[i], t, i, types)
  BY <1>3, <1>6, BuiltCache
<1>8. q \in Seq(Entry)
  BY <1>7 DEF Rooted
<1>9. cache' = [cache EXCEPT ![t] = q]
  BY <1>0, <1>1, <1>5
<1> HIDE DEF q
<1>10. /\ cache' \in [Tables -> Seq(Entry)] /\ cache'[t] = q
       /\ \A u \in Tables \ {t} : cache'[u] = cache[u]
  BY <1>0, <1>1, <1>3, <1>8, <1>9 DEF TableTypes
<1>11. \A u : (unsorted(u)' <=> unsorted(u)) /\ (u # t => (untold(u)' <=> untold(u)))
  BY <1>2, <1>3 DEF untold, unsorted
<1>12. untold(t)
  BY <1>2, <1>3 DEF untold
<1>13. TableTypes'
  BY <1>0, <1>1, <1>2, <1>5, <1>10 DEF TableTypes
<1>14. ASSUME NEW u \in Tables \ {t} PROVE TableInv(u)'
  <2>1. SameTable(u)
    BY <1>0, <1>1, <1>5, <1>10, <1>11 DEF SameTable, SameRows
  <2> QED
    BY <2>1, SameTableInv DEF TablesInv
<1>15. Follows(t)'
  <2>1. Len(cache'[t]) = Len(dom'[t])
    BY <1>0, <1>1, <1>7, <1>10
  <2>2. ASSUME NEW i \in 1..Len(dom'[t])
        PROVE  /\ cache'[t][i].row = dom'[t][i]
               /\ cache'[t][i].keys =
                    [c \in Columns |-> format(parsers'[t][c], content'[t][dom'[t][i]][c])]
    <3>1. Stands(q[i], t, i, types)
      BY <1>0, <1>1, <1>7, <2>2
    <3> QED
      BY <1>0, <1>1, <1>5, <1>10, <3>1 DEF Stands
  <2> QED
    BY <2>1, <2>2 DEF Follows
<1>16. RowsOf(cache'[t]) = ToSet(dom[t])
  <2>1. ToSet(dom[t]) = {dom[t][i] : i \in 1..Len(dom[t])}
    BY <1>6, SetOfSeq
  <2>2. {q[i].row : i \in 1..Len(dom[t])} = {dom[t][i] : i \in 1..Len(dom[t])}
    <3>1. \A i \in 1..Len(dom[t]) : q[i].row = dom[t][i]
      BY <1>7 DEF Stands
    <3> QED
      BY <3>1
  <2> QED
    BY <1>7, <1>10, <2>1, <2>2 DEF RowsOf
<1>17. TableInv(t)'
  <2>1. Once(dom[t])' /\ Rooted(cache[t])'
    BY <1>0, <1>1, <1>6, <1>7, <1>10
  <2>2. (\A i \in 1..Len(cache[t]) : cache[t][i].pos \in 1..Len(cache[t]))'
    BY <1>7, <1>10 DEF Stands
  <2>3. history'[t].changed
    BY <1>0, <1>1, <1>3, <1>12 DEF TableInv
  <2>4. (ToSet(dom[t]) \intersect history[t].gone # {} => history[t].raced)'
    BY <1>0, <1>1, <1>3 DEF TableInv
  <2>5. (RowsOf(cache[t]) \intersect history[t].gone # {} => history[t].raced \/ untold(t))'
    BY <1>0, <1>1, <1>3, <1>16 DEF TableInv
  <2>6. (unsorted(t) \/ t \in shared.by \/ marks[t] = sortList[t])'
    BY <1>0, <1>1, <1>3, <1>11 DEF TableInv
  <2> QED
    BY <1>15, <2>1, <2>2, <2>3, <2>4, <2>5, <2>6 DEF TableInv
<1> QED
  BY <1>13, <1>14, <1>17 DEF TablesInv

\* The rows of the cache are put into the page, in their order.
LEMMA AppendCacheInv == ASSUME TablesInv, NEW t \in Tables, AppendCache(t) PROVE TablesInv'
<1> DEFINE c == cache[t]
           n == Len(c)
           q == appended(dom[t], c)
<1>1. /\ dom \in [Tables -> Seq(Rows)] /\ cache \in [Tables -> Seq(Entry)]
      /\ history \in [Tables -> History] /\ TableInv(t)
  BY DEF TablesInv, TableTypes
<1>2. /\ dom[t] \in Seq(Rows) /\ Once(dom[t]) /\ c \in Seq(Entry) /\ Rooted(c) /\ n \in Nat
  BY <1>1 DEF TableInv
<1>3. /\ dom' = [dom EXCEPT ![t] = q] /\ content' = content /\ parsers' = parsers
      /\ history' = [history EXCEPT ![t].raced = @ \/ untold(t)]
      /\ cache' = cache /\ counts' = counts /\ sortList' = sortList /\ shared' = shared
      /\ marks' = marks /\ timers' = timers /\ changes' = changes
  BY DEF AppendCache, appendToTable, headerVars
<1> HIDE DEF c
<1>4. /\ q \in Seq(Rows) /\ Once(q) /\ ToSet(q) = ToSet(dom[t]) \union RowsOf(c)
      /\ ToSet(dom[t]) \subseteq RowsOf(c) =>
             Len(q) = n /\ \A i \in 1..n : q[i] = c[i].row
  BY <1>2, Appended
<1> HIDE DEF q
<1>5. /\ dom'[t] = q /\ dom' \in [Tables -> Seq(Rows)]
      /\ \A u \in Tables \ {t} : dom'[u] = dom[u]
  BY <1>1, <1>3, <1>4
<1>6. /\ history' \in [Tables -> History] /\ history'[t].gone = history[t].gone
      /\ history'[t].changed <=> history[t].changed
      /\ history'[t].raced <=> history[t].raced \/ untold(t)
      /\ \A u \in Tables \ {t} : history'[u] = history[u]
  <2>1. history[t] \in History
    BY <1>1
  <2> DEFINE h == [history[t] EXCEPT !.raced = @ \/ untold(t)]
  <2>2. history' = [history EXCEPT ![t] = h]
    BY <1>1, <1>3
  <2>3. /\ h \in History /\ h.gone = history[t].gone
        /\ h.changed <=> history[t].changed
        /\ h.raced <=> history[t].raced \/ untold(t)
    BY <2>1 DEF History
  <2> HIDE DEF h
  <2>4. history'[t] = h
    BY <1>1, <2>2
  <2> QED
    BY <1>1, <2>2, <2>3, <2>4
<1>7. \A u \in Tables : (untold(u)' <=> untold(u)) /\ (unsorted(u)' <=> unsorted(u))
  BY <1>3 DEF untold, unsorted
<1>8. TableTypes'
  BY <1>1, <1>3, <1>5, <1>6 DEF TablesInv, TableTypes
<1>9. ASSUME NEW u \in Tables \ {t} PROVE TableInv(u)'
  <2>1. SameTable(u)
    BY <1>3, <1>5, <1>6, <1>7 DEF SameTable, SameRows
  <2> QED
    BY <2>1, SameTableInv DEF TablesInv
<1>10. ASSUME ~untold(t) PROVE Follows(t)'
  <2>1. Follows(t) /\ RowsOf(c) = ToSet(dom[t])
    BY <1>1, <1>2, <1>10, FollowedRows DEF TableInv, c
  <2>2. Len(q) = n /\ \A i \in 1..n : q[i] = c[i].row
    BY <1>4, <2>1
  <2>3. n = Len(dom[t]) /\ \A i \in 1..n : q[i] = dom[t][i]
    BY <2>1, <2>2 DEF Follows, c
  <2> QED
    BY <1>2, <1>3, <1>5, <2>1, <2>2, <2>3 DEF Follows, c
<1>11. TableInv(t)'
  <2>1. Once(dom[t])' /\ Rooted(cache[t])'
    BY <1>2, <1>3, <1>4, <1>5 DEF c
  <2>2. (\A i \in 1..Len(cache[t]) : cache[t][i].pos \in 1..Len(cache[t]))'
    BY <1>1, <1>3 DEF TableInv
  <2>3. (untold(t) \/ Follows(t))' /\ (untold(t) => history[t].changed)'
    BY <1>1, <1>6, <1>7, <1>10 DEF TableInv
  <2>4. (ToSet(dom[t]) \intersect history[t].gone # {} => history[t].raced)'
    BY <1>1, <1>4, <1>5, <1>6 DEF TableInv, c
  <2>5. (RowsOf(cache[t]) \intersect history[t].gone # {} => history[t].raced \/ untold(t))'
    BY <1>1, <1>3, <1>6, <1>7 DEF TableInv
  <2>6. (history[t].changed \/ sortedBy(marks[t], cache[t]))'
    BY <1>1, <1>3, <1>6 DEF TableInv
  <2>7. (unsorted(t) \/ t \in shared.by \/ marks[t] = sortList[t])'
    BY <1>1, <1>3, <1>7 DEF TableInv
  <2> QED
    BY <2>1, <2>2, <2>3, <2>4, <2>5, <2>6, <2>7 DEF TableInv
<1> QED
  BY <1>8, <1>9, <1>11 DEF TablesInv

LEMMA TablesStutter == ASSUME TablesInv, UNCHANGED tableVars PROVE TablesInv'
<1>1. /\ content' = content /\ dom' = dom /\ parsers' = parsers /\ cache' = cache
      /\ counts' = counts /\ sortList' = sortList /\ shared' = shared /\ marks' = marks
      /\ timers' = timers /\ changes' = changes /\ history' = history
  BY DEF tableVars
<1>2. TableTypes'
  BY <1>1 DEF TablesInv, TableTypes
<1>3. ASSUME NEW t \in Tables PROVE TableInv(t)'
  <2>1. SameTable(t)
    BY <1>1 DEF SameTable, SameRows, untold, unsorted
  <2> QED
    BY <2>1, SameTableInv DEF TablesInv
<1> QED
  BY <1>2, <1>3 DEF TablesInv

LEMMA TablesInvStep == TablesInv /\ [TablesNext]_tableVars => TablesInv'
<1> SUFFICES ASSUME TablesInv, [TablesNext]_tableVars PROVE TablesInv'
  OBVIOUS
<1>1. CASE SortTimeout
  BY <1>1, SortTimeoutInv
<1>2. CASE UpdateTimeout
  BY <1>2, UpdateTimeoutInv
<1>3. ASSUME NEW t \in Tables, Click(t) PROVE TablesInv'
  BY <1>3, ClickHeaderInv, ShiftClickHeaderInv, TablesStutter DEF Click, ClickForNothing
<1>4. ASSUME NEW t \in Tables, Change(t) PROVE TablesInv'
  <2>0. dom[t] \in Seq(Rows) /\ DOMAIN dom[t] = 1..Len(dom[t]) /\ Once(dom[t])
    BY DEF TablesInv, TableTypes, TableInv
  <2>1. ASSUME NEW c \in Columns, NEW order \in Order, SortOn(t, c, order) PROVE TablesInv'
    BY <2>1, SortOnInv
  <2>2. ASSUME NEW i \in DOMAIN dom[t], RemoveRow(t, i) PROVE TablesInv'
    <3>1. RemoveAt(dom[t], i) \in Seq(Rows) /\ Once(RemoveAt(dom[t], i))
      BY <2>0, WithoutOne
    <3> QED
      BY <2>2, <3>1, ChangeRowsInv DEF RemoveRow
  <2>3. ASSUME NEW r \in Rows, AddRow(t, r) PROVE TablesInv'
    <3>1. Append(dom[t], r) \in Seq(Rows) /\ Once(Append(dom[t], r))
      BY <2>0, <2>3, WithOneMore DEF AddRow
    <3> QED
      BY <2>3, <3>1, ChangeRowsInv DEF AddRow
  <2>4. ASSUME NEW i \in DOMAIN dom[t], NEW c \in Columns, NEW text \in Cell,
               UpdateCell(t, i, c, text)
        PROVE  TablesInv'
    BY <2>4, UpdateCellInv
  <2> QED
    BY <1>4, <2>1, <2>2, <2>3, <2>4, AppendCacheInv DEF Change
<1>5. CASE UNCHANGED tableVars
  BY <1>5, TablesStutter
<1> QED
  BY <1>1, <1>2, <1>3, <1>4, <1>5 DEF TablesNext

LEMMA TablesKeepInv == TablesSpec => []TablesInv
  BY TablesInvInit, TablesInvStep, PTL DEF TablesSpec

--------------------------------------------------------------------------------
(* What the invariant says *)

\* Every variable has its type: entries are kept at positions within the cache, the lists
\* hold columns with an order, and only sorts and updates wait.
THEOREM TablesTypes == TablesSpec => []TablesTypeOK
<1>1. TablesInv => TablesTypeOK
  <2> SUFFICES ASSUME TablesInv PROVE TablesTypeOK
    OBVIOUS
  <2>1. TableTypes
    BY DEF TablesInv
  <2>2. ASSUME NEW t \in Tables
        PROVE  /\ ToSet(dom[t]) \subseteq Rows
               /\ ToSet(cache[t]) \subseteq
                     [row : Rows, keys : [Columns -> Nat], pos : 1..Len(cache[t])]
               /\ ToSet(sortList[t]) \union ToSet(marks[t]) \subseteq Columns \X Order
    <3>1. dom[t] \in Seq(Rows) /\ cache[t] \in Seq(Entry) /\ sortList[t] \in SortBy /\ marks[t] \in SortBy
      BY <2>1 DEF TableTypes
    <3>2. ToSet(dom[t]) \subseteq Rows
      BY <3>1, SetOfSeq
    <3>3. ToSet(sortList[t]) \subseteq Columns \X Order /\ ToSet(marks[t]) \subseteq Columns \X Order
      BY <3>1, SetOfSeq DEF SortBy
    <3>4. ASSUME NEW e \in ToSet(cache[t])
          PROVE  e \in [row : Rows, keys : [Columns -> Nat], pos : 1..Len(cache[t])]
      <4>1. PICK i \in 1..Len(cache[t]) : e = cache[t][i]
        BY <3>1, SetOfSeq
      <4>2. e \in Entry /\ e.pos \in 1..Len(cache[t])
        BY <3>1, <4>1 DEF TablesInv, TableInv
      <4> QED
        BY <4>2 DEF Entry
    <3> QED
      BY <3>2, <3>3, <3>4
  <2>3. ToSet(shared.list) \subseteq Columns \X Order /\ shared.by \subseteq Tables
    <3>1. shared.list \in SortBy /\ shared.by \subseteq Tables
      BY <2>1 DEF TableTypes
    <3> QED
      BY <3>1, SetOfSeq DEF SortBy
  <2>4. ToSet(timers) \subseteq {"sort", "update"} \X Tables
    BY <2>1, SetOfSeq DEF TableTypes, Timers
  <2> QED
    BY <2>1, <2>2, <2>3, <2>4 DEF TableTypes, TablesTypeOK
<1> QED
  BY <1>1, TablesKeepInv, PTL

\* When no timer runs the cache stands for the rows of the page, one entry for each in
\* its place, with the keys of its texts, whatever sorts and updates overlapped.
THEOREM CacheKeepsUp == TablesSpec => []CacheFollowsThePage
<1>1. TablesInv => CacheFollowsThePage
  <2> SUFFICES ASSUME TablesInv, timers = <<>>, NEW t \in Tables
               PROVE  /\ Len(cache[t]) = Len(dom[t])
                      /\ \A i \in DOMAIN dom[t] :
                            /\ cache[t][i].row = dom[t][i]
                            /\ cache[t][i].keys =
                                  [c \in Columns |-> format(parsers[t][c], content[t][dom[t][i]][c])]
    BY DEF CacheFollowsThePage
  <2>1. ~untold(t)
    BY NothingWaits DEF untold
  <2>2. Follows(t)
    BY <2>1 DEF TablesInv, TableInv
  <2>3. DOMAIN dom[t] = 1..Len(dom[t])
    BY DEF TablesInv, TableTypes
  <2> QED
    BY <2>2, <2>3 DEF Follows
<1> QED
  BY <1>1, TablesKeepInv, PTL

\* When no timer runs the headers of a table with a list of its own show that list, and
\* rows that have not changed since the last sort are in the order the headers show.
THEOREM RowsAreInOrder == TablesSpec => []RowsFollowTheMarks
<1>1. TablesInv => RowsFollowTheMarks
  <2> SUFFICES ASSUME TablesInv, timers = <<>>, NEW t \in Tables
               PROVE  /\ t \notin shared.by => marks[t] = sortList[t]
                      /\ ~history[t].changed => \A i, j \in DOMAIN dom[t] :
                            i < j => before(marks[t], cache[t][i], cache[t][j])
    BY DEF RowsFollowTheMarks
  <2>1. ~untold(t) /\ ~unsorted(t)
    BY NothingWaits DEF untold, unsorted
  <2>2. /\ Len(cache[t]) = Len(dom[t]) /\ (t \notin shared.by => marks[t] = sortList[t])
        /\ history[t].changed \/ sortedBy(marks[t], cache[t])
    BY <2>1 DEF TablesInv, TableInv, Follows
  <2>3. DOMAIN dom[t] = DOMAIN cache[t]
    BY <2>2 DEF TablesInv, TableTypes
  <2> QED
    BY <2>2, <2>3 DEF sortedBy
<1> QED
  BY <1>1, TablesKeepInv, PTL

\* A row the page has removed is shown again only when the cache was put into the page,
\* by a sort or by appendCache, between the removal and the update the page had told of.
THEOREM RemovalsLast == TablesSpec => []RemovedRowsStayAway
<1>1. TablesInv => RemovedRowsStayAway
  BY DEF TablesInv, TableInv, RemovedRowsStayAway
<1> QED
  BY <1>1, TablesKeepInv, PTL
================================================================================
