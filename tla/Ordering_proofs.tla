--------------------------- MODULE Ordering_proofs ---------------------------
(***************************************************************************)
(* What sorting returns, for every finite set and every strict total order,   *)
(* and that a non-empty set of naturals has a smallest element.               *)
(***************************************************************************)
EXTENDS Ordering, FiniteSetTheorems, WellFoundedInduction, TLAPS

\* The number of elements before one is less than their total, and grows along
\* the order.
LEMMA PrecedingGrow ==
  ASSUME NEW S, IsFiniteSet(S), NEW before, Orders(before, S)
  PROVE  /\ \A x \in S : Cardinality(Preceding(x, S, before)) \in 0..(Cardinality(S) - 1)
         /\ \A x, y \in S : <<x, y>> \in before =>
               Cardinality(Preceding(x, S, before)) < Cardinality(Preceding(y, S, before))
<1> DEFINE P(x) == Preceding(x, S, before)
<1>1. ASSUME NEW x \in S PROVE Cardinality(P(x)) \in 0..(Cardinality(S) - 1)
  <2>1. P(x) \in SUBSET S /\ P(x) # S BY DEF Preceding, Orders
  <2>2. IsFiniteSet(P(x)) /\ Cardinality(P(x)) <= Cardinality(S)
        /\ (Cardinality(S) = Cardinality(P(x)) => S = P(x))
    BY <2>1, FS_Subset
  <2>3. Cardinality(P(x)) \in Nat /\ Cardinality(S) \in Nat
    BY <2>2, FS_CardinalityType
  <2> QED BY <2>1, <2>2, <2>3
<1>2. ASSUME NEW x \in S, NEW y \in S, <<x, y>> \in before
      PROVE  Cardinality(P(x)) < Cardinality(P(y))
  <2>1. P(x) \in SUBSET P(y) /\ x \in P(y) /\ x \notin P(x) BY <1>2 DEF Preceding, Orders
  <2>2. IsFiniteSet(P(y))
    <3>1. P(y) \in SUBSET S BY DEF Preceding
    <3> QED BY <3>1, FS_Subset
  <2>3. IsFiniteSet(P(x)) /\ Cardinality(P(x)) <= Cardinality(P(y))
        /\ (Cardinality(P(y)) = Cardinality(P(x)) => P(y) = P(x))
    BY <2>1, <2>2, FS_Subset
  <2>4. Cardinality(P(x)) \in Nat /\ Cardinality(P(y)) \in Nat
    BY <2>2, <2>3, FS_CardinalityType
  <2>5. P(x) # P(y) BY <2>1
  <2> HIDE DEF P
  <2> QED BY <2>3, <2>4, <2>5
<1> QED BY <1>1, <1>2

\* So every place from first to last is taken by exactly one element.
LEMMA PlacesTaken ==
  ASSUME NEW S, IsFiniteSet(S), NEW before, Orders(before, S),
         NEW i \in 1..Cardinality(S)
  PROVE  \E x \in S : Cardinality(Preceding(x, S, before)) = i - 1
<1> DEFINE n == Cardinality(S)
           place == [x \in S |-> Cardinality(Preceding(x, S, before))]
<1>1. n \in Nat BY FS_CardinalityType
<1>2. place \in [S -> 0..(n - 1)] BY PrecedingGrow
<1>3. \A x, y \in S : place[x] = place[y] => x = y
  <2> SUFFICES ASSUME NEW x \in S, NEW y \in S, place[x] = place[y], x # y PROVE FALSE
    OBVIOUS
  <2>1. <<x, y>> \in before \/ <<y, x>> \in before BY DEF Orders
  <2>2. place[x] < place[y] \/ place[y] < place[x] BY <2>1, PrecedingGrow
  <2>3. place[x] \in 0..(n - 1) /\ place[y] \in 0..(n - 1) BY <1>2
  <2> HIDE DEF place, n
  <2> QED BY <2>2, <2>3, <1>1
<1>4. place \in Injection(S, 0..(n - 1)) BY <1>2, <1>3 DEF Injection, IsInjective
<1>5. IsFiniteSet(0..(n - 1)) /\ Cardinality(0..(n - 1)) = n
  <2> HIDE DEF n
  <2> QED BY <1>1, FS_Interval
<1>6. place \in Surjection(S, 0..(n - 1))
  <2> HIDE DEF place
  <2> QED BY <1>4, <1>5, FS_Injection
<1>7. i - 1 \in 0..(n - 1)
  <2> HIDE DEF n
  <2>1. i \in 1..n BY DEF n
  <2> QED BY <2>1, <1>1
<1> QED BY <1>6, <1>7 DEF Surjection

\* Sorting keeps every element once and puts them in order.
THEOREM InOrderSorts ==
  ASSUME NEW S, IsFiniteSet(S), NEW before, Orders(before, S)
  PROVE  LET q == InOrder(S, before) IN
         /\ q \in Seq(S) /\ Len(q) = Cardinality(S)
         /\ \A x \in S : \E i \in 1..Len(q) : q[i] = x
         /\ \A i, j \in 1..Len(q) : i < j => <<q[i], q[j]>> \in before
<1> DEFINE q == InOrder(S, before)
           n == Cardinality(S)
           place(x) == Cardinality(Preceding(x, S, before))
<1>1. n \in Nat BY FS_CardinalityType
<1>2. ASSUME NEW i \in 1..n PROVE q[i] \in S /\ place(q[i]) = i - 1
  <2>1. q[i] = CHOOSE x \in S : place(x) = i - 1 BY DEF InOrder
  <2>2. \E x \in S : place(x) = i - 1 BY PlacesTaken
  <2> HIDE DEF place, q
  <2> QED BY <2>1, <2>2
<1>3. q = [i \in 1..n |-> q[i]] BY DEF InOrder
<1>4. \A x \in S : place(x) \in 0..(n - 1) BY PrecedingGrow
<1>5. \A x, y \in S : <<x, y>> \in before => place(x) < place(y) BY PrecedingGrow
<1>6. \A x, y \in S : x = y \/ <<x, y>> \in before \/ <<y, x>> \in before BY DEF Orders
<1> HIDE DEF q, n, place
<1>7. q \in Seq(S) /\ Len(q) = n BY <1>1, <1>2, <1>3
<1>8. ASSUME NEW x \in S PROVE \E i \in 1..n : q[i] = x
  <2>1. place(x) + 1 \in 1..n BY <1>4, <1>1
  <2>2. q[place(x) + 1] \in S /\ place(q[place(x) + 1]) = place(x)
    <3>1. (place(x) + 1) - 1 = place(x) BY <1>4, <1>1
    <3> QED BY <2>1, <1>2, <3>1
  <2>3. q[place(x) + 1] = x
    <3> DEFINE y == q[place(x) + 1]
    <3> HIDE DEF y
    <3>1. y \in S /\ place(y) = place(x) BY <2>2 DEF y
    <3>2. ~(place(x) < place(y)) /\ ~(place(y) < place(x)) BY <3>1, <1>4, <1>1
    <3>3. y = x BY <3>1, <3>2, <1>5, <1>6
    <3> QED BY <3>3 DEF y
  <2> QED BY <2>1, <2>3
<1>9. ASSUME NEW i \in 1..n, NEW j \in 1..n, i < j PROVE <<q[i], q[j]>> \in before
  <2>1. place(q[i]) = i - 1 /\ place(q[j]) = j - 1 /\ q[i] \in S /\ q[j] \in S BY <1>2
  <2>2. ~(place(q[j]) < place(q[i])) /\ place(q[i]) # place(q[j]) BY <2>1, <1>9, <1>1
  <2> QED BY <2>1, <2>2, <1>5, <1>6
<1>10. /\ q \in Seq(S) /\ Len(q) = n
       /\ \A x \in S : \E i \in 1..Len(q) : q[i] = x
       /\ \A i, j \in 1..Len(q) : i < j => <<q[i], q[j]>> \in before
  BY <1>7, <1>8, <1>9
<1> QED BY <1>10 DEF q, n

\* A nonempty set of naturals has a smallest element: of the intervals 1..n one
\* is minimal under strict inclusion.
LEMMA SmallestExists ==
  ASSUME NEW S \in SUBSET Nat, S # {}
  PROVE  \E x \in S : \A y \in S : x <= y
<1> DEFINE F == {1..n : n \in S}
           R == StrictSubsetOrdering(Nat)
<1>1. F \subseteq FiniteSubsetsOf(Nat) /\ F # {}
  <2>1. \A n \in S : 1..n \in FiniteSubsetsOf(Nat)
    BY FS_Interval DEF FiniteSubsetsOf
  <2> QED BY <2>1
<1>2. IsWellFoundedOn(R, FiniteSubsetsOf(Nat))
  BY FS_StrictSubsetOrderingWellFounded
<1>3. \E X \in F : \A Y \in F : ~(<<Y, X>> \in R)
  <2> HIDE DEF F, R
  <2> QED BY <1>1, <1>2, WFMin
<1>4. PICK x \in S : \A y \in S : ~(<<1..y, 1..x>> \in R)
  BY <1>3
<1>5. ASSUME NEW y \in S, ~(x <= y) PROVE FALSE
  <2>1. 1..y \subseteq 1..x /\ x \in 1..x /\ x \notin 1..y BY <1>5
  <2>2. <<1..y, 1..x>> \in R BY <2>1 DEF StrictSubsetOrdering
  <2> QED BY <1>4, <2>2
<1> QED BY <1>5

\* A finite nonempty set of naturals has a largest element: the last in order.
LEMMA LargestExists ==
  ASSUME NEW S \in SUBSET Nat, IsFiniteSet(S), S # {}
  PROVE  \E x \in S : \A y \in S : y <= x
<1> DEFINE before == {e \in S \X S : e[1] < e[2]}
           q == InOrder(S, before)
           n == Cardinality(S)
<1>1. Orders(before, S) BY DEF Orders
<1>2. /\ q \in Seq(S) /\ Len(q) = n
      /\ \A x \in S : \E i \in 1..Len(q) : q[i] = x
      /\ \A i, j \in 1..Len(q) : i < j => <<q[i], q[j]>> \in before
  <2> HIDE DEF before
  <2> QED BY <1>1, InOrderSorts
<1>3. \A i, j \in 1..n : i < j => q[i] < q[j]
  <2> HIDE DEF q
  <2> QED BY <1>2
<1> HIDE DEF q, before
<1>4. n \in Nat /\ n # 0 BY FS_CardinalityType, FS_EmptySet
<1> HIDE DEF n
<1>5. n \in 1..n /\ q[n] \in S
  <2>1. n \in 1..n BY <1>4
  <2> QED BY <2>1, <1>2
<1>6. ASSUME NEW y \in S PROVE y <= q[n]
  <2>1. PICK i \in 1..n : q[i] = y BY <1>2
  <2>2. i = n \/ i < n BY <1>4
  <2>3. y \in Nat /\ q[n] \in Nat BY <1>5
  <2>4. y < q[n] \/ y = q[n] BY <2>1, <2>2, <1>3, <1>5
  <2> QED BY <2>3, <2>4
<1> QED BY <1>5, <1>6
=============================================================================
