------------------------- MODULE MessageQueueProofs -------------------------
(***************************************************************************)
(* What the queue operators return, for every queue and every bound.       *)
(***************************************************************************)
EXTENDS MessageQueue, FiniteSetTheorems, FunctionTheorems, SequenceTheorems,
        WellFoundedInduction, TLAPS

-----------------------------------------------------------------------------
\* A non-empty set of naturals has a least element.  The intervals 1..k are
\* finite sets, and these are well-founded by strict inclusion.
LEMMA LeastNatural ==
  ASSUME NEW T, T \subseteq Nat, T # {}
  PROVE  \E x \in T : \A y \in T : x <= y
<1> DEFINE Intervals == {1..k : k \in T}
           Order == StrictSubsetOrdering(Nat)
<1>1. Intervals \subseteq FiniteSubsetsOf(Nat)
  <2> SUFFICES ASSUME NEW k \in T PROVE 1..k \in FiniteSubsetsOf(Nat)
    OBVIOUS
  <2>1. IsFiniteSet(1..k) BY FS_Interval
  <2> QED BY <2>1 DEF FiniteSubsetsOf
<1>2. Intervals # {} OBVIOUS
<1>3. PICK s \in Intervals : \A t \in Intervals : ~(<<t, s>> \in Order)
  <2>1. IsWellFoundedOn(Order, FiniteSubsetsOf(Nat))
    BY FS_StrictSubsetOrderingWellFounded
  <2> HIDE DEF Intervals, Order
  <2> QED BY <1>1, <1>2, <2>1, WFMin
<1>4. PICK x \in T : s = 1..x OBVIOUS
<1>5. ASSUME NEW y \in T, ~(x <= y) PROVE FALSE
  <2>1. x \in Nat /\ y \in Nat /\ y < x BY <1>5
  <2>2. 1..y \subseteq 1..x /\ 1..y # 1..x
    <3>1. x \in 1..x /\ x \notin 1..y BY <2>1
    <3> QED BY <2>1, <3>1
  <2>3. 1..y \in SUBSET Nat /\ 1..x \in SUBSET Nat OBVIOUS
  <2>4. <<1..y, 1..x>> \in Order BY <2>2, <2>3 DEF StrictSubsetOrdering
  <2> QED BY <1>3, <1>4, <2>4
<1> QED BY <1>5

-----------------------------------------------------------------------------
(***************************************************************************)
(* Ranks.                                                                  *)
(***************************************************************************)
\* There are m positions up to m.
LEMMA PositionsCount ==
  \A m \in Nat : IsFiniteSet(1..m) /\ Cardinality(1..m) = m
BY FS_Interval

\* A set of positions is finite.
LEMMA FinitePositions ==
  ASSUME NEW m \in Nat, NEW K, K \subseteq 1..m
  PROVE  /\ IsFiniteSet(K) /\ Cardinality(K) \in Nat
         /\ \A j \in K : j \in Int /\ 1 <= j /\ j <= m
<1>1. IsFiniteSet(1..m) BY FS_Interval
<1>2. IsFiniteSet(K) BY <1>1, FS_Subset
<1>3. \A j \in K : j \in 1..m OBVIOUS
<1> QED BY <1>2, <1>3, FS_CardinalityType

\* A rank is a count of elements of K.
LEMMA RankType ==
  ASSUME NEW m \in Nat, NEW K, K \subseteq 1..m
  PROVE  \A i \in Int : Rank(K, i) \in Nat /\ Rank(K, i) <= Cardinality(K)
<1> SUFFICES ASSUME NEW i \in Int
             PROVE  Rank(K, i) \in Nat /\ Rank(K, i) <= Cardinality(K)
  OBVIOUS
<1>1. IsFiniteSet(K) /\ Cardinality(K) \in Nat BY FinitePositions
<1>2. {j \in K : j <= i} \in SUBSET K OBVIOUS
<1>3. /\ IsFiniteSet({j \in K : j <= i})
      /\ Cardinality({j \in K : j <= i}) <= Cardinality(K)
  BY <1>1, <1>2, FS_Subset
<1>4. Cardinality({j \in K : j <= i}) \in Nat BY <1>3, FS_CardinalityType
<1> QED BY <1>3, <1>4 DEF Rank

\* Ranks grow by one at the elements of K and nowhere else.
LEMMA RankStep ==
  ASSUME NEW m \in Nat, NEW K, K \subseteq 1..m
  PROVE  \A i \in 1..m : /\ i \in K => Rank(K, i) = Rank(K, i - 1) + 1
                         /\ i \notin K => Rank(K, i) = Rank(K, i - 1)
<1> SUFFICES ASSUME NEW i \in 1..m
             PROVE  /\ i \in K => Rank(K, i) = Rank(K, i - 1) + 1
                    /\ i \notin K => Rank(K, i) = Rank(K, i - 1)
  OBVIOUS
<1> DEFINE Below(n) == {j \in K : j <= n}
<1>0. \A j \in K : j \in Int BY FinitePositions
<1>1. IsFiniteSet(Below(i - 1))
  <2>1. IsFiniteSet(K) BY FinitePositions
  <2>2. Below(i - 1) \in SUBSET K OBVIOUS
  <2> QED BY <2>1, <2>2, FS_Subset
<1>2. \A j \in K : (j <= i) <=> (j <= i - 1 \/ j = i) BY <1>0
<1>3. ASSUME i \in K PROVE Rank(K, i) = Rank(K, i - 1) + 1
  <2>1. Below(i) = Below(i - 1) \cup {i} BY <1>2, <1>3, Zenon
  <2>2. i \notin Below(i - 1) OBVIOUS
  <2>3. Cardinality(Below(i)) = Cardinality(Below(i - 1)) + 1
    <3> HIDE DEF Below
    <3> QED BY <1>1, <2>1, <2>2, FS_AddElement
  <2> QED BY <2>3 DEF Rank
<1>4. ASSUME i \notin K PROVE Rank(K, i) = Rank(K, i - 1)
  <2>1. Below(i) = Below(i - 1) BY <1>2, <1>4, Zenon
  <2> QED BY <2>1 DEF Rank
<1> QED BY <1>3, <1>4

\* Ranks run from 0 to the size of K.
LEMMA RankEnds ==
  ASSUME NEW m \in Nat, NEW K, K \subseteq 1..m
  PROVE  Rank(K, 0) = 0 /\ Rank(K, m) = Cardinality(K)
<1>0. \A j \in K : ~(j <= 0) /\ j <= m BY FinitePositions
<1>1. {j \in K : j <= 0} = {} BY <1>0, Zenon
<1>2. {j \in K : j <= m} = K BY <1>0, Zenon
<1> QED BY <1>1, <1>2, FS_EmptySet DEF Rank

\* Every rank up to the size of K is taken.
LEMMA RankExists ==
  ASSUME NEW m \in Nat, NEW K, K \subseteq 1..m, NEW n \in 1..Cardinality(K)
  PROVE  \E i \in K : Rank(K, i) = n
<1> DEFINE T == {i \in 0..m : Rank(K, i) >= n}
<1>1. Cardinality(K) \in Nat BY FinitePositions
<1>2. \A i \in Int : Rank(K, i) \in Nat BY RankType
<1>3. Rank(K, 0) = 0 /\ Rank(K, m) = Cardinality(K) BY RankEnds
<1>4. \A i \in 1..m : /\ i \in K => Rank(K, i) = Rank(K, i - 1) + 1
                      /\ i \notin K => Rank(K, i) = Rank(K, i - 1)
  BY RankStep
<1>5. m \in T BY <1>1, <1>3
<1>6. PICK i \in T : \A j \in T : i <= j
  <2>1. T \subseteq Nat OBVIOUS
  <2> HIDE DEF T
  <2> QED BY <1>5, <2>1, LeastNatural
<1>7. i \in 0..m /\ Rank(K, i) >= n OBVIOUS
<1>8. i # 0 BY <1>1, <1>3, <1>7
<1>9. i \in 1..m /\ i - 1 \in 0..m BY <1>7, <1>8
<1>10. ~(Rank(K, i - 1) >= n) BY <1>6, <1>9
<1> HIDE DEF T
<1>11. i \in K /\ Rank(K, i) = Rank(K, i - 1) + 1
  BY <1>4, <1>7, <1>9, <1>10
<1>12. Rank(K, i - 1) \in Nat /\ Rank(K, i) \in Nat BY <1>2, <1>9
<1>13. Rank(K, i) = n BY <1>1, <1>7, <1>10, <1>11, <1>12
<1> QED BY <1>11, <1>13

\* Two elements of K have different ranks.
LEMMA RankInjective ==
  ASSUME NEW m \in Nat, NEW K, K \subseteq 1..m, NEW i \in K, NEW j \in K,
         i < j
  PROVE  Rank(K, i) < Rank(K, j)
<1> DEFINE A == {k \in K : k <= i}
           B == {k \in K : k <= j}
<1>1. \A k \in K : k \in Int BY FinitePositions
<1>2. /\ \A k \in K : k <= i => k <= j
      /\ j <= j /\ ~(j <= i)
  BY <1>1
<1>3. A \in SUBSET B BY <1>2, Zenon
<1>4. j \in B /\ j \notin A BY <1>2, Zenon
<1>5. B \in SUBSET K OBVIOUS
<1>6. IsFiniteSet(B) BY <1>5, FinitePositions, FS_Subset
<1> HIDE DEF A, B
<1>7. /\ IsFiniteSet(A) /\ Cardinality(A) <= Cardinality(B)
      /\ Cardinality(B) = Cardinality(A) => B = A
  BY <1>3, <1>6, FS_Subset
<1>8. Cardinality(A) \in Nat /\ Cardinality(B) \in Nat
  BY <1>6, <1>7, FS_CardinalityType
<1>9. Cardinality(A) < Cardinality(B) BY <1>4, <1>7, <1>8
<1> QED BY <1>9 DEF Rank, A, B

-----------------------------------------------------------------------------
(***************************************************************************)
(* Select.                                                                 *)
(***************************************************************************)

\* Select(q, K) has one message for each position of K: the one there.
LEMMA SelectPositions ==
  ASSUME NEW S, NEW q \in Seq(S), NEW K, K \subseteq DOMAIN q
  PROVE  /\ Select(q, K) \in Seq(S)
         /\ Len(Select(q, K)) = Cardinality(K)
         /\ \A n \in 1..Cardinality(K) :
              \E i \in K : Rank(K, i) = n /\ Select(q, K)[n] = q[i]
<1> DEFINE m == Len(q)
           At(n) == CHOOSE i \in K : Rank(K, i) = n
<1>1. m \in Nat /\ K \subseteq 1..m OBVIOUS
<1>2. Cardinality(K) \in Nat BY <1>1, FinitePositions
<1>3. \A n \in 1..Cardinality(K) : At(n) \in K /\ Rank(K, At(n)) = n
  <2> HIDE DEF m
  <2>1. \A n \in 1..Cardinality(K) : \E i \in K : Rank(K, i) = n
    BY <1>1, RankExists
  <2> QED BY <2>1
<1> HIDE DEF At
<1>4. \A i \in K : q[i] \in S OBVIOUS
<1>5. Select(q, K) = [n \in 1..Cardinality(K) |-> q[At(n)]]
  BY DEF Select, At
<1>6. Select(q, K) \in [1..Cardinality(K) -> S] BY <1>3, <1>4, <1>5
<1>7. Select(q, K) \in Seq(S) /\ Len(Select(q, K)) = Cardinality(K)
  BY <1>2, <1>6, IsASeq
<1> QED BY <1>3, <1>5, <1>7

\* ... and nothing of K is left out.
LEMMA SelectComplete ==
  ASSUME NEW S, NEW q \in Seq(S), NEW K, K \subseteq DOMAIN q
  PROVE  \A i \in K : \E n \in DOMAIN Select(q, K) : Select(q, K)[n] = q[i]
<1> DEFINE m == Len(q)
<1>1. m \in Nat /\ K \subseteq 1..m OBVIOUS
<1> HIDE DEF m
<1>2. Cardinality(K) \in Nat /\ \A j \in K : j \in 1..m
  BY <1>1, FinitePositions
<1>3. Select(q, K) \in Seq(S) /\ Len(Select(q, K)) = Cardinality(K)
  BY SelectPositions
<1>4. DOMAIN Select(q, K) = 1..Cardinality(K) BY <1>3
<1> SUFFICES ASSUME NEW i \in K
             PROVE  \E n \in DOMAIN Select(q, K) : Select(q, K)[n] = q[i]
  OBVIOUS
<1>5. i \in 1..m /\ i - 1 \in Int BY <1>1, <1>2
<1>6. Rank(K, i) \in 1..Cardinality(K)
  <2>1. /\ Rank(K, i) \in Nat /\ Rank(K, i - 1) \in Nat
        /\ Rank(K, i) <= Cardinality(K)
    <3>1. \A k \in Int : Rank(K, k) \in Nat /\ Rank(K, k) <= Cardinality(K)
      BY <1>1, RankType
    <3>2. i \in Int /\ i - 1 \in Int BY <1>1, <1>5
    <3> QED BY <3>1, <3>2
  <2>2. Rank(K, i) = Rank(K, i - 1) + 1 BY <1>1, <1>5, RankStep
  <2> QED BY <1>2, <2>1, <2>2
<1>7. PICK j \in K : /\ Rank(K, j) = Rank(K, i)
                     /\ Select(q, K)[Rank(K, i)] = q[j]
  BY <1>6, SelectPositions
<1>8. j = i
  <2>1. i \in Int /\ j \in Int /\ Rank(K, i) \in Int BY <1>2, <1>6
  <2>2. ~(i < j) BY <1>1, <1>7, <2>1, RankInjective
  <2>3. ~(j < i) BY <1>1, <1>7, <2>1, RankInjective
  <2> QED BY <2>1, <2>2, <2>3
<1> QED BY <1>4, <1>6, <1>7, <1>8

-----------------------------------------------------------------------------
(***************************************************************************)
(* Selections as enumerations: f lists the n positions in K in their order.*)
(***************************************************************************)
Enumerates(f, n, K) ==
  /\ n \in Nat /\ f \in [1..n -> K]
  /\ \A i, j \in 1..n : i < j => f[i] < f[j]
  /\ \A k \in K : \E i \in 1..n : f[i] = k

\* The rank of a position is its place in the list.
LEMMA EnumerationRanks ==
  ASSUME NEW m \in Nat, NEW K, K \subseteq 1..m, NEW f, NEW n, Enumerates(f, n, K)
  PROVE  Cardinality(K) = n /\ \A i \in 1..n : f[i] \in K /\ Rank(K, f[i]) = i
<1>1. /\ n \in Nat /\ f \in [1..n -> K]
      /\ \A i, j \in 1..n : i < j => f[i] < f[j]
      /\ \A k \in K : \E i \in 1..n : f[i] = k
  BY DEF Enumerates
<1>2. \A k \in K : k \in Int BY FinitePositions
<1>3. \A i, j \in 1..n : f[i] <= f[j] <=> i <= j
  <2> SUFFICES ASSUME NEW i \in 1..n, NEW j \in 1..n
               PROVE  f[i] <= f[j] <=> i <= j
    OBVIOUS
  <2>1. f[i] \in Int /\ f[j] \in Int BY <1>1, <1>2
  <2>2. i < j => f[i] < f[j] BY <1>1
  <2>3. j < i => f[j] < f[i] BY <1>1
  <2>4. i = j \/ i < j \/ j < i BY <1>1
  <2> QED BY <1>1, <2>1, <2>2, <2>3, <2>4
<1>4. ASSUME NEW i \in 0..n, NEW B, \A k : k \in B <=> (k \in K /\ \E j \in 1..i : k = f[j])
      PROVE  Cardinality(B) = i
  <2> DEFINE g == [j \in 1..i |-> f[j]]
  <2>1. \A j \in 1..i : j \in 1..n BY <1>1
  <2>2. g \in [1..i -> B] BY <1>1, <1>4, <2>1
  <2>3. ASSUME NEW a \in 1..i, NEW b \in 1..i, g[a] = g[b] PROVE a = b
    <3>1. f[a] = f[b] /\ f[a] \in Int BY <1>1, <1>2, <2>1, <2>3
    <3>2. a <= b /\ b <= a BY <1>3, <2>1, <3>1
    <3> QED BY <3>2
  <2>4. \A k \in B : \E j \in 1..i : g[j] = k BY <1>4
  <2>5. g \in Bijection(1..i, B) BY <2>2, <2>3, <2>4, Fun_IsBij
  <2>6. ExistsBijection(1..i, B) BY <2>5, Fun_ExistsBij
  <2> QED BY <1>1, <2>6, FS_CountingElements
<1>5. Cardinality(K) = n
  <2>1. \A k : k \in K <=> (k \in K /\ \E j \in 1..n : k = f[j]) BY <1>1
  <2>2. n \in 0..n BY <1>1
  <2> QED BY <1>4, <2>1, <2>2
<1>6. ASSUME NEW i \in 1..n PROVE f[i] \in K /\ Rank(K, f[i]) = i
  <2> DEFINE B == {k \in K : k <= f[i]}
  <2>1. \A k : k \in B <=> (k \in K /\ \E j \in 1..i : k = f[j])
    <3>1. ASSUME NEW k \in B PROVE \E j \in 1..i : k = f[j]
      <4>1. PICK j \in 1..n : f[j] = k BY <1>1
      <4>2. j <= i BY <1>3, <3>1, <4>1
      <4> QED BY <1>1, <4>1, <4>2
    <3>2. ASSUME NEW k \in K, NEW j \in 1..i, k = f[j] PROVE k \in B
      <4>1. j \in 1..n /\ j <= i BY <1>1
      <4> QED BY <1>3, <3>2, <4>1
    <3> QED BY <3>1, <3>2
  <2>2. i \in 0..n BY <1>1
  <2> HIDE DEF B
  <2>3. Cardinality(B) = i BY <1>4, <2>1, <2>2
  <2> QED BY <1>1, <2>3 DEF B, Rank
<1> QED BY <1>5, <1>6

\* What Select returns, by the list of positions.
LEMMA EnumerationSelects ==
  ASSUME NEW S, NEW q \in Seq(S), NEW K, K \subseteq DOMAIN q,
         NEW f, NEW n \in Nat, Enumerates(f, n, K)
  PROVE  /\ Select(q, K) \in Seq(S) /\ Len(Select(q, K)) = n
         /\ \A i \in 1..n : Select(q, K)[i] = q[f[i]]
<1> DEFINE m == Len(q)
<1>1. m \in Nat /\ K \subseteq 1..m OBVIOUS
<1> HIDE DEF m
<1>2. Cardinality(K) = n /\ \A i \in 1..n : f[i] \in K /\ Rank(K, f[i]) = i
  BY <1>1, EnumerationRanks
<1>3. /\ Select(q, K) \in Seq(S) /\ Len(Select(q, K)) = n
      /\ \A i \in 1..n : \E k \in K : Rank(K, k) = i /\ Select(q, K)[i] = q[k]
  <2>1. /\ Select(q, K) \in Seq(S)
        /\ Len(Select(q, K)) = Cardinality(K)
        /\ \A i \in 1..Cardinality(K) :
             \E k \in K : Rank(K, k) = i /\ Select(q, K)[i] = q[k]
    BY SelectPositions
  <2> QED BY <1>2, <2>1, Zenon
<1>4. ASSUME NEW i \in 1..n PROVE Select(q, K)[i] = q[f[i]]
  <2>1. PICK k \in K : Rank(K, k) = i /\ Select(q, K)[i] = q[k] BY <1>3
  <2>2. f[i] \in K /\ Rank(K, f[i]) = i BY <1>2
  <2>3. k = f[i]
    <3>1. k \in Int /\ f[i] \in Int BY <1>1, <2>2, FinitePositions
    <3>2. ~(k < f[i]) /\ ~(f[i] < k) BY <1>1, <2>1, <2>2, RankInjective
    <3> QED BY <3>1, <3>2
  <2> QED BY <2>1, <2>3
<1> QED BY <1>3, <1>4

\* Every set of positions can be listed.
LEMMA EnumerationExists ==
  ASSUME NEW m \in Nat, NEW K, K \subseteq 1..m
  PROVE  \E f : Enumerates(f, Cardinality(K), K)
<1> DEFINE n == Cardinality(K)
           At(i) == CHOOSE k \in K : Rank(K, k) = i
<1>1. n \in Nat /\ \A k \in K : k \in 1..m BY FinitePositions
<1>2. ASSUME NEW i \in 1..n PROVE At(i) \in K /\ Rank(K, At(i)) = i
  <2>1. \E k \in K : Rank(K, k) = i BY RankExists
  <2> QED BY <2>1
<1> HIDE DEF At, n
<1>3. PICK f : f \in [1..n -> K] /\ \A i \in 1..n : Rank(K, f[i]) = i
  <2>1. /\ [i \in 1..n |-> At(i)] \in [1..n -> K]
        /\ \A i \in 1..n : Rank(K, [j \in 1..n |-> At(j)][i]) = i
    BY <1>2
  <2> QED BY <2>1
<1>4. \A k \in K : k \in Int BY <1>1
<1>5. \A i \in 1..n : f[i] \in K /\ f[i] \in Int
  <2>1. \A i \in 1..n : f[i] \in K BY <1>3
  <2> QED BY <1>4, <2>1
<1>6. ASSUME NEW i \in 1..n, NEW k \in K, Rank(K, k) = i PROVE f[i] = k
  <2>1. k \in Int /\ f[i] \in K /\ f[i] \in Int /\ Rank(K, f[i]) = i
    BY <1>1, <1>3, <1>5
  <2>2. ~(k < f[i]) /\ ~(f[i] < k)
    <3>1. k < f[i] => Rank(K, k) < Rank(K, f[i]) BY <2>1, RankInjective
    <3>2. f[i] < k => Rank(K, f[i]) < Rank(K, k) BY <2>1, RankInjective
    <3> QED BY <1>1, <1>6, <2>1, <3>1, <3>2
  <2> QED BY <2>1, <2>2
<1>7. ASSUME NEW i \in 1..n, NEW j \in 1..n, i < j PROVE f[i] < f[j]
  <2>1. f[i] \in K /\ f[j] \in K /\ Rank(K, f[i]) = i /\ Rank(K, f[j]) = j
        /\ f[i] \in Int /\ f[j] \in Int
    BY <1>3, <1>5
  <2>2. f[i] # f[j] BY <1>1, <1>7, <2>1
  <2>3. ~(f[j] < f[i])
    <3> SUFFICES ASSUME f[j] < f[i] PROVE FALSE OBVIOUS
    <3>1. Rank(K, f[j]) < Rank(K, f[i]) BY <2>1, RankInjective
    <3> QED BY <1>1, <1>7, <2>1, <3>1
  <2> QED BY <2>1, <2>2, <2>3
<1>8. ASSUME NEW k \in K PROVE \E i \in 1..n : f[i] = k
  <2>1. k \in 1..m /\ k - 1 \in Int /\ k \in Int BY <1>1
  <2>2. /\ Rank(K, k) \in Nat /\ Rank(K, k) <= n /\ Rank(K, k - 1) \in Nat
    <3>1. \A i \in Int : Rank(K, i) \in Nat /\ Rank(K, i) <= Cardinality(K)
      BY RankType
    <3> QED BY <2>1, <3>1 DEF n
  <2>3. Rank(K, k) = Rank(K, k - 1) + 1 BY <2>1, RankStep
  <2>4. Rank(K, k) \in 1..n BY <1>1, <2>2, <2>3
  <2>5. f[Rank(K, k)] = k BY <1>6, <2>4
  <2> QED BY <2>4, <2>5
<1>9. Enumerates(f, n, K) BY <1>1, <1>3, <1>7, <1>8 DEF Enumerates
<1> QED BY <1>9 DEF n

\* A set of positions with one more behind them.
LEMMA SelectGrows ==
  ASSUME NEW S, NEW q \in Seq(S), NEW k \in Nat, k < Len(q),
         NEW K, K \subseteq 1..k, NEW L, L = K \cup {k + 1}
  PROVE  Select(q, K) \in Seq(S) /\ Select(q, L) = Append(Select(q, K), q[k + 1])
<1> DEFINE n == Cardinality(K)
<1>1. /\ Len(q) \in Nat /\ K \subseteq DOMAIN q /\ L \subseteq DOMAIN q
      /\ k + 1 \in Nat /\ \A j \in K : j \in Int /\ j <= k
  OBVIOUS
<1>2. PICK f : Enumerates(f, n, K) BY EnumerationExists
<1> HIDE DEF n
<1>3. /\ n \in Nat /\ f \in [1..n -> K]
      /\ \A i, j \in 1..n : i < j => f[i] < f[j]
      /\ \A j \in K : \E i \in 1..n : f[i] = j
  BY <1>2 DEF Enumerates
<1> DEFINE g == [i \in 1..(n + 1) |-> IF i <= n THEN f[i] ELSE k + 1]
<1>4. \A i \in 1..(n + 1) : (i <= n /\ i \in 1..n) \/ (~(i <= n) /\ i = n + 1)
  BY <1>3
<1>5. g \in [1..(n + 1) -> L] /\ \A i \in 1..n : g[i] = f[i] /\ f[i] \in K
  <2>1. ASSUME NEW i \in 1..(n + 1)
        PROVE  (IF i <= n THEN f[i] ELSE k + 1) \in L
    BY <1>3, <1>4
  <2> QED BY <1>3, <2>1
<1>6. n + 1 \in 1..(n + 1) /\ g[n + 1] = k + 1 BY <1>3
<1> HIDE DEF g
<1>7. Enumerates(g, n + 1, L)
  <2>1. ASSUME NEW i \in 1..(n + 1), NEW j \in 1..(n + 1), i < j
        PROVE  g[i] < g[j]
    <3>1. i \in 1..n BY <1>3, <1>4, <2>1
    <3>2. CASE j \in 1..n
      BY <1>3, <1>5, <2>1, <3>1, <3>2
    <3>3. CASE j = n + 1
      <4>1. g[i] \in K /\ g[j] = k + 1 BY <1>5, <1>6, <3>1, <3>3
      <4>2. g[i] \in Int /\ g[i] <= k BY <1>1, <4>1
      <4> QED BY <1>1, <4>1, <4>2
    <3> QED BY <1>4, <3>2, <3>3
  <2>2. ASSUME NEW j \in L PROVE \E i \in 1..(n + 1) : g[i] = j
    <3>1. CASE j \in K
      <4>1. PICK i \in 1..n : f[i] = j BY <1>3, <3>1
      <4>2. i \in 1..(n + 1) BY <1>3
      <4> QED BY <1>5, <4>1, <4>2
    <3>2. CASE j = k + 1 BY <1>6, <3>2
    <3> QED BY <3>1, <3>2
  <2>3. n + 1 \in Nat BY <1>3
  <2> QED BY <1>5, <2>1, <2>2, <2>3 DEF Enumerates
<1>8. /\ Select(q, K) \in Seq(S) /\ Len(Select(q, K)) = n
      /\ \A i \in 1..n : Select(q, K)[i] = q[f[i]]
  <2>1. K \subseteq DOMAIN q /\ n \in Nat BY <1>1, <1>3
  <2>2. q \in Seq(S) /\ Enumerates(f, n, K) BY <1>2
  <2> HIDE DEF Enumerates
  <2> QED BY ONLY <2>1, <2>2, EnumerationSelects
<1>9. /\ Select(q, L) \in Seq(S) /\ Len(Select(q, L)) = n + 1
      /\ \A i \in 1..(n + 1) : Select(q, L)[i] = q[g[i]]
  <2>1. PICK e \in Nat : e = n + 1 BY <1>3
  <2>2. q \in Seq(S) /\ L \subseteq DOMAIN q /\ e \in Nat /\ Enumerates(g, e, L)
    BY <1>1, <1>7, <2>1
  <2>3. /\ Select(q, L) \in Seq(S) /\ Len(Select(q, L)) = e
        /\ \A i \in 1..e : Select(q, L)[i] = q[g[i]]
    BY ONLY <2>2, EnumerationSelects
  <2> QED BY <2>1, <2>3
<1>10. \A i \in 1..n : Select(q, L)[i] = Select(q, K)[i]
  <2> SUFFICES ASSUME NEW i \in 1..n PROVE Select(q, L)[i] = Select(q, K)[i]
    OBVIOUS
  <2>1. i \in 1..(n + 1) /\ g[i] = f[i] BY <1>3, <1>5
  <2>2. Select(q, L)[i] = q[g[i]] BY <1>9, <2>1
  <2>3. Select(q, K)[i] = q[f[i]] BY <1>8
  <2> QED BY <2>1, <2>2, <2>3
<1>11. Select(q, L)[n + 1] = q[k + 1] BY <1>6, <1>9
<1> HIDE DEF Select
<1>12. PICK x : x = q[k + 1] OBVIOUS
<1>13. x \in S BY <1>1, <1>12
<1> DEFINE both == Append(Select(q, K), x)
<1>14. /\ both \in Seq(S) /\ Len(both) = n + 1 /\ both[n + 1] = x
       /\ \A i \in 1..n : both[i] = Select(q, K)[i]
  <2>1. \A w \in Seq(S) :
          /\ Append(w, x) \in Seq(S) /\ Len(Append(w, x)) = Len(w) + 1
          /\ Append(w, x)[Len(w) + 1] = x
          /\ \A i \in 1..Len(w) : Append(w, x)[i] = w[i]
    BY <1>13
  <2> QED BY <1>8, <2>1
<1> HIDE DEF both
<1>15. \A i \in 1..(n + 1) : Select(q, L)[i] = both[i]
  BY <1>4, <1>10, <1>11, <1>12, <1>14
<1>16. Select(q, L) = both
  <2>1. n + 1 \in Nat /\ Select(q, L) \in Seq(S) /\ Len(Select(q, L)) = n + 1
    BY <1>3, <1>9
  <2> QED BY ONLY <1>14, <1>15, <2>1
<1> QED BY <1>8, <1>12, <1>16 DEF both

\* What a queue has at these positions does not change when it grows.
LEMMA SelectOfLonger ==
  ASSUME NEW S, NEW q \in Seq(S), NEW r \in Seq(S), Len(q) <= Len(r),
         \A i \in 1..Len(q) : r[i] = q[i], NEW K, K \subseteq 1..Len(q)
  PROVE  Select(r, K) = Select(q, K)
<1> DEFINE n == Cardinality(K)
<1>1. Len(q) \in Nat /\ K \subseteq DOMAIN q /\ K \subseteq DOMAIN r OBVIOUS
<1>2. PICK f : Enumerates(f, n, K) BY <1>1, EnumerationExists
<1> HIDE DEF n
<1>3. n \in Nat /\ \A i \in 1..n : f[i] \in K BY <1>2 DEF Enumerates
<1>4. /\ Select(q, K) \in Seq(S) /\ Len(Select(q, K)) = n
      /\ \A i \in 1..n : Select(q, K)[i] = q[f[i]]
  BY <1>1, <1>2, <1>3, EnumerationSelects
<1>5. /\ Select(r, K) \in Seq(S) /\ Len(Select(r, K)) = n
      /\ \A i \in 1..n : Select(r, K)[i] = r[f[i]]
  BY <1>1, <1>2, <1>3, EnumerationSelects
<1>6. \A i \in 1..n : Select(r, K)[i] = Select(q, K)[i]
  <2> SUFFICES ASSUME NEW i \in 1..n PROVE Select(r, K)[i] = Select(q, K)[i]
    OBVIOUS
  <2>1. f[i] \in 1..Len(q) BY <1>3
  <2>2. r[f[i]] = q[f[i]] BY <2>1
  <2> QED BY <1>4, <1>5, <2>2
<1> HIDE DEF Select
<1> QED BY <1>4, <1>5, <1>6

\* The positions of the messages in P.
Where(q, P) == {i \in DOMAIN q : q[i] \in P}

\* Selecting from a selection is selecting at once.
LEMMA SelectSelected ==
  ASSUME NEW S, NEW q \in Seq(S), NEW K, K \subseteq DOMAIN q, NEW P
  PROVE  Select(Select(q, K), Where(Select(q, K), P)) = Select(q, K \cap Where(q, P))
<1>d. PICK d : d = Select(q, K) OBVIOUS
<1>V. PICK V : V = Where(d, P) OBVIOUS
<1>U. PICK U : U = K \cap Where(q, P) OBVIOUS
<1> DEFINE n == Cardinality(K)
           k == Cardinality(U)
<1>1. /\ Len(q) \in Nat /\ K \subseteq 1..Len(q)
      /\ U \subseteq 1..Len(q) /\ U \subseteq DOMAIN q
      /\ \A i : i \in U <=> (i \in K /\ q[i] \in P)
  BY <1>U DEF Where
<1>0. \A i : i \in V <=> (i \in DOMAIN d /\ d[i] \in P) BY <1>V DEF Where
<1>2. PICK g : Enumerates(g, n, K) BY <1>1, EnumerationExists
<1>3. PICK f : Enumerates(f, k, U) BY <1>1, EnumerationExists
<1>4. /\ d \in Seq(S) /\ Len(d) = n /\ \A i \in 1..n : d[i] = q[g[i]]
  <2>1. n \in Nat BY <1>2 DEF Enumerates
  <2> HIDE DEF n
  <2> QED BY <1>d, <1>2, <2>1, EnumerationSelects
<1> HIDE DEF n, k
<1>5. /\ n \in Nat /\ g \in [1..n -> K] /\ \A i, j \in 1..n : i < j => g[i] < g[j]
      /\ \A j \in K : \E i \in 1..n : g[i] = j
  BY <1>2 DEF Enumerates
<1>6. /\ k \in Nat /\ f \in [1..k -> U] /\ \A i, j \in 1..k : i < j => f[i] < f[j]
      /\ \A j \in U : \E i \in 1..k : f[i] = j
  BY <1>3 DEF Enumerates
<1>7. PICK h : h \in [1..k -> 1..n] /\ \A i \in 1..k : g[h[i]] = f[i]
  <2> DEFINE H == [i \in 1..k |-> CHOOSE x \in 1..n : g[x] = f[i]]
  <2>1. \A i \in 1..k : \E x \in 1..n : g[x] = f[i]
    <3>1. \A i \in 1..k : f[i] \in K BY <1>1, <1>6
    <3> QED BY <1>5, <3>1
  <2>2. H \in [1..k -> 1..n] /\ \A i \in 1..k : g[H[i]] = f[i] BY <2>1
  <2> QED BY <2>2
<1>8. \A j \in 1..Len(q) : j \in Int BY <1>1
<1>9. \A i, j \in 1..n : g[i] \in Int /\ (g[i] < g[j] => i < j) /\ (g[i] = g[j] => i = j)
  <2> SUFFICES ASSUME NEW i \in 1..n, NEW j \in 1..n
               PROVE  g[i] \in Int /\ (g[i] < g[j] => i < j) /\ (g[i] = g[j] => i = j)
    OBVIOUS
  <2>1. g[i] \in Int /\ g[j] \in Int /\ i \in Int /\ j \in Int
    BY <1>1, <1>5, <1>8
  <2>2. (i < j => g[i] < g[j]) /\ (j < i => g[j] < g[i]) BY <1>5
  <2> QED BY <2>1, <2>2
<1>10. Enumerates(h, k, V)
  <2>1. \A x \in 1..n : x \in V <=> g[x] \in U
    <3> SUFFICES ASSUME NEW x \in 1..n PROVE x \in V <=> g[x] \in U OBVIOUS
    <3>1. x \in DOMAIN d /\ d[x] = q[g[x]] /\ g[x] \in K BY <1>4, <1>5
    <3> QED BY <1>0, <1>1, <3>1
  <2>2. h \in [1..k -> V]
    <3>1. \A i \in 1..k : h[i] \in V
      <4> SUFFICES ASSUME NEW i \in 1..k PROVE h[i] \in V OBVIOUS
      <4>1. h[i] \in 1..n /\ g[h[i]] \in U BY <1>6, <1>7
      <4> QED BY <2>1, <4>1
    <3> QED BY ONLY <1>7, <3>1
  <2>3. ASSUME NEW i \in 1..k, NEW j \in 1..k, i < j PROVE h[i] < h[j]
    <3>1. g[h[i]] < g[h[j]] BY <1>6, <1>7, <2>3
    <3>2. h[i] \in 1..n /\ h[j] \in 1..n BY <1>7
    <3> QED BY <1>9, <3>1, <3>2
  <2>4. ASSUME NEW x \in V PROVE \E i \in 1..k : h[i] = x
    <3>1. x \in 1..n BY <1>0, <1>4
    <3>2. PICK i \in 1..k : f[i] = g[x] BY <1>6, <2>1, <3>1
    <3>3. h[i] \in 1..n /\ g[h[i]] = g[x] BY <1>7, <3>2
    <3>4. h[i] = x BY <1>9, <3>1, <3>3
    <3> QED BY <3>4
  <2> QED BY ONLY <1>6, <2>2, <2>3, <2>4 DEF Enumerates
<1>11. V \subseteq DOMAIN d BY <1>0
<1>12. /\ Select(d, V) \in Seq(S) /\ Len(Select(d, V)) = k
       /\ \A i \in 1..k : Select(d, V)[i] = d[h[i]]
  <2>1. d \in Seq(S) /\ k \in Nat BY <1>4, <1>6
  <2> QED BY ONLY <2>1, <1>10, <1>11, EnumerationSelects
<1>13. /\ Select(q, U) \in Seq(S) /\ Len(Select(q, U)) = k
       /\ \A i \in 1..k : Select(q, U)[i] = q[f[i]]
  <2>1. k \in Nat /\ U \subseteq DOMAIN q BY <1>1, <1>6
  <2> QED BY ONLY <2>1, <1>3, EnumerationSelects
<1>14. \A i \in 1..k : Select(d, V)[i] = Select(q, U)[i]
  <2> SUFFICES ASSUME NEW i \in 1..k PROVE Select(d, V)[i] = Select(q, U)[i]
    OBVIOUS
  <2>1. h[i] \in 1..n /\ g[h[i]] = f[i] BY <1>7
  <2>2. d[h[i]] = q[f[i]] BY <1>4, <2>1
  <2> QED BY <1>12, <1>13, <2>2
<1>15. Select(d, V) = Select(q, U) BY ONLY <1>12, <1>13, <1>14
<1> QED BY ONLY <1>d, <1>V, <1>U, <1>15

\* What has a rank above d in K is a selection without its first d messages.
LEMMA SelectSuffix ==
  ASSUME NEW S, NEW q \in Seq(S), NEW K, K \subseteq DOMAIN q,
         NEW d \in 0..Cardinality(K)
  PROVE  /\ Select(q, {i \in K : Rank(K, i) > d})
              = SubSeq(Select(q, K), d + 1, Len(Select(q, K)))
         /\ Cardinality({i \in K : Rank(K, i) > d}) = Cardinality(K) - d
<1> DEFINE n == Cardinality(K)
           L == {i \in K : Rank(K, i) > d}
<1>1. /\ Len(q) \in Nat /\ K \subseteq 1..Len(q)
      /\ L \subseteq DOMAIN q /\ L \subseteq 1..Len(q)
      /\ \A i : i \in L <=> i \in K /\ Rank(K, i) > d
  OBVIOUS
<1>2. PICK f : Enumerates(f, n, K) BY <1>1, EnumerationExists
<1> HIDE DEF n, L
<1>3. /\ n \in Nat /\ f \in [1..n -> K] /\ \A i, j \in 1..n : i < j => f[i] < f[j]
      /\ \A j \in K : \E i \in 1..n : f[i] = j
  BY <1>2 DEF Enumerates
<1>4. \A i \in 1..n : Rank(K, f[i]) = i BY <1>1, <1>2, EnumerationRanks
<1>5. PICK k \in Nat : n = d + k
  <2>1. d \in Nat /\ d <= n BY <1>3 DEF n
  <2>2. n - d \in Nat /\ n = d + (n - d) BY <1>3, <2>1
  <2> QED BY <2>2
<1>6. d \in Nat BY DEF n
<1>7. \A i \in 1..k : d + i \in 1..n /\ d + i > d BY <1>5, <1>6
<1> DEFINE g == [i \in 1..k |-> f[d + i]]
<1>8. \A i \in 1..k : g[i] = f[d + i] OBVIOUS
<1>9. Enumerates(g, k, L)
  <2>1. g \in [1..k -> L]
    <3>1. ASSUME NEW i \in 1..k PROVE f[d + i] \in L
      <4>1. f[d + i] \in K /\ Rank(K, f[d + i]) = d + i BY <1>3, <1>4, <1>7
      <4> QED BY <1>1, <1>7, <4>1
    <3> QED BY <3>1
  <2>2. ASSUME NEW i \in 1..k, NEW j \in 1..k, i < j PROVE g[i] < g[j]
    <3>1. d + i < d + j BY <1>6, <2>2
    <3> QED BY <1>3, <1>7, <1>8, <3>1
  <2>3. ASSUME NEW x \in L PROVE \E i \in 1..k : g[i] = x
    <3>1. x \in K /\ Rank(K, x) > d BY <1>1
    <3>2. PICK j \in 1..n : f[j] = x BY <1>3, <3>1
    <3>3. j > d BY <1>4, <3>1, <3>2
    <3>4. PICK i \in 1..k : j = d + i
      <4>1. j - d \in 1..k /\ j = d + (j - d) BY <1>5, <1>6, <3>3
      <4> QED BY <4>1
    <3> QED BY <1>8, <3>2, <3>4
  <2> HIDE DEF g
  <2> QED BY <2>1, <2>2, <2>3 DEF Enumerates
<1> HIDE DEF g
<1>10. Cardinality(L) = n - d
  <2>1. Cardinality(L) = k BY <1>1, <1>9, EnumerationRanks
  <2> QED BY <1>5, <1>6, <2>1
<1>11. /\ Select(q, K) \in Seq(S) /\ Len(Select(q, K)) = n
       /\ \A i \in 1..n : Select(q, K)[i] = q[f[i]]
  <2>1. n \in Nat BY <1>3
  <2> QED BY ONLY <1>2, <2>1, K \subseteq DOMAIN q, EnumerationSelects
<1>12. /\ Select(q, L) \in Seq(S) /\ Len(Select(q, L)) = k
       /\ \A i \in 1..k : Select(q, L)[i] = q[g[i]]
  BY <1>1, <1>9, EnumerationSelects
<1>13. PICK s \in Seq(S) : s = Select(q, K) BY <1>11
<1>14. PICK w \in Seq(S) :
         /\ w = SubSeq(s, d + 1, n) /\ Len(w) = k
         /\ \A i \in 1..k : w[i] = s[d + i]
  <2>1. Len(s) = n BY <1>11, <1>13
  <2>2. /\ SubSeq(s, d + 1, n) \in Seq(S)
        /\ Len(SubSeq(s, d + 1, n)) = IF d + 1 <= n THEN n - (d + 1) + 1 ELSE 0
        /\ \A i \in 1..Len(SubSeq(s, d + 1, n)) :
             SubSeq(s, d + 1, n)[i] = s[d + 1 + i - 1]
    <3>1. d + 1 \in Int /\ n \in Int /\ \A i \in d + 1..n : i \in 1..n
      BY <1>3, <1>6
    <3>2. \A i \in d + 1..n : s[i] \in S
      BY <2>1, <3>1
    <3> QED BY <3>1, <3>2, SubSeqProperties
  <2>3. Len(SubSeq(s, d + 1, n)) = k BY <1>5, <1>6, <2>2
  <2>4. \A i \in 1..k : d + 1 + i - 1 = d + i BY <1>6
  <2>5. PICK w : w = SubSeq(s, d + 1, n) OBVIOUS
  <2>6. w \in Seq(S) /\ Len(w) = k BY ONLY <2>2, <2>3, <2>5, Zenon
  <2>7. \A i \in 1..k : w[i] = s[d + 1 + i - 1]
    BY ONLY <2>2, <2>3, <2>5, Zenon
  <2>8. \A i \in 1..k : w[i] = s[d + i] BY ONLY <2>4, <2>7, Zenon
  <2> QED BY ONLY <2>5, <2>6, <2>8, Zenon
<1>15. Select(q, L) = w
  <2>1. \A i \in 1..k : Select(q, L)[i] = w[i]
    BY <1>7, <1>8, <1>11, <1>12, <1>13, <1>14
  <2> HIDE DEF Select
  <2> QED BY <1>12, <1>14, <2>1
<1> QED BY <1>10, <1>11, <1>13, <1>14, <1>15 DEF L, n

\* Keeping no position leaves nothing, and keeping all of them leaves everything.
LEMMA SelectNone == \A q : Select(q, {}) = <<>>
<1>1. Cardinality({}) = 0 BY FS_EmptySet
<1>2. 1..0 = {} OBVIOUS
<1> QED BY <1>1, <1>2 DEF Select

LEMMA SelectAll == ASSUME NEW S, NEW q \in Seq(S) PROVE Select(q, DOMAIN q) = q
<1>1. PICK n \in Nat, K \in {DOMAIN q} : n = Len(q) /\ K = DOMAIN q /\ K = 1..n OBVIOUS
<1>2. PICK f : f = [i \in 1..n |-> i] OBVIOUS
<1>3. Enumerates(f, n, K) BY <1>1, <1>2 DEF Enumerates
<1>4. /\ Select(q, K) \in Seq(S) /\ Len(Select(q, K)) = n
      /\ \A i \in 1..n : Select(q, K)[i] = q[f[i]]
  <2>1. K \subseteq DOMAIN q BY <1>1
  <2> QED BY ONLY <1>3, <2>1, EnumerationSelects
<1>5. \A i \in 1..n : Select(q, K)[i] = q[i] BY <1>2, <1>4
<1>6. Select(q, K) = q BY ONLY <1>1, <1>4, <1>5
<1> QED BY <1>1, <1>6

-----------------------------------------------------------------------------
(***************************************************************************)
(* The operation results of a queue.                                       *)
(***************************************************************************)

\* A selection that keeps the operation results keeps them in their order.
LEMMA ResultsSelected ==
  ASSUME NEW S, NEW q \in Seq(S), NEW K, K \subseteq DOMAIN q, Urgent(q) \subseteq K
  PROVE  Results(Select(q, K)) = Results(q)
<1>1. PICK P : P = {m \in S : IsUrgent(m)} OBVIOUS
<1>2. PICK d \in Seq(S) : d = Select(q, K) BY SelectPositions
<1>3. Urgent(d) = Where(d, P)
  <2>1. \A i \in DOMAIN d : d[i] \in S OBVIOUS
  <2> QED BY <1>1, <2>1 DEF Urgent, Where
<1>4. Urgent(q) = K \cap Where(q, P)
  <2>1. \A i \in DOMAIN q : q[i] \in S OBVIOUS
  <2> QED BY <1>1, <2>1 DEF Urgent, Where
<1>5. Select(d, Where(d, P)) = Select(q, K \cap Where(q, P))
  BY ONLY <1>2, K \subseteq DOMAIN q, SelectSelected
<1> QED BY <1>2, <1>3, <1>4, <1>5, Zenon DEF Results

\* The results of two queues one after the other.
LEMMA ResultsJoined ==
  ASSUME NEW S, NEW s \in Seq(S), NEW t \in Seq(S)
  PROVE  Results(s \o t) = Results(s) \o Results(t)
<1> DEFINE w == s \o t
           m == Len(s)
           A == Urgent(s)
           B == Urgent(t)
           n == Cardinality(A)
           k == Cardinality(B)
<1>1. /\ w \in Seq(S) /\ m \in Nat /\ Len(t) \in Nat /\ Len(w) = m + Len(t)
      /\ \A i \in 1..m : w[i] = s[i]
      /\ \A i \in 1..Len(t) : w[m + i] = t[i]
  OBVIOUS
<1>2. /\ \A i : i \in A <=> (i \in 1..m /\ IsUrgent(s[i]))
      /\ \A i : i \in B <=> (i \in 1..Len(t) /\ IsUrgent(t[i]))
  BY DEF Urgent
<1>3. A \subseteq 1..m /\ B \subseteq 1..Len(t) BY <1>2
<1>4. \A i : i \in Urgent(w) <=> (i \in 1..Len(w) /\ IsUrgent(w[i]))
  BY <1>1 DEF Urgent
<1> HIDE DEF A, B
<1>5. PICK f : Enumerates(f, n, A)
  <2> HIDE DEF m
  <2> QED BY <1>1, <1>3, EnumerationExists
<1>6. PICK g : Enumerates(g, k, B) BY <1>1, <1>3, EnumerationExists
<1> HIDE DEF n, k, w, m
<1>7. /\ n \in Nat /\ f \in [1..n -> A] /\ \A i, j \in 1..n : i < j => f[i] < f[j]
      /\ \A x \in A : \E i \in 1..n : f[i] = x
  BY <1>5 DEF Enumerates
<1>8. /\ k \in Nat /\ g \in [1..k -> B] /\ \A i, j \in 1..k : i < j => g[i] < g[j]
      /\ \A x \in B : \E i \in 1..k : g[i] = x
  BY <1>6 DEF Enumerates
<1>9. PICK e \in Nat : e = n + k BY <1>7, <1>8
<1>10. \A i \in 1..e : i \in 1..n \/ (~(i <= n) /\ i - n \in 1..k) BY <1>7, <1>8, <1>9
<1>11. /\ \A i \in 1..n : i \in 1..e /\ i <= n /\ i \in Int
       /\ \A i \in 1..k : n + i \in 1..e /\ ~(n + i <= n) /\ (n + i) - n = i
  BY <1>7, <1>8, <1>9
<1>12. /\ \A i \in 1..n : f[i] \in A /\ f[i] \in 1..m
       /\ \A i \in 1..k : g[i] \in B /\ g[i] \in 1..Len(t)
  <2>1. \A i \in 1..n : f[i] \in A BY <1>7
  <2>2. \A i \in 1..k : g[i] \in B BY <1>8
  <2> QED BY <1>3, <2>1, <2>2
<1> DEFINE h == [i \in 1..e |-> IF i <= n THEN f[i] ELSE m + g[i - n]]
<1>13. /\ \A i \in 1..n : h[i] = f[i]
       /\ \A i \in 1..k : h[n + i] = m + g[i]
  BY <1>11
<1>14. \A i \in 1..e : h[i] \in Urgent(w)
  <2> SUFFICES ASSUME NEW i \in 1..e PROVE h[i] \in Urgent(w) OBVIOUS
  <2> HIDE DEF h
  <2>1. CASE i \in 1..n
    <3>1. f[i] \in 1..m /\ IsUrgent(s[f[i]]) BY <1>2, <1>12, <2>1
    <3>2. f[i] \in 1..Len(w) /\ w[f[i]] = s[f[i]] BY <1>1, <3>1
    <3> QED BY <1>4, <1>13, <2>1, <3>1, <3>2
  <2>2. CASE i - n \in 1..k /\ ~(i <= n)
    <3>1. PICK j \in 1..k : j = i - n BY <2>2
    <3>2. i = n + j BY <1>7, <1>9, <3>1
    <3>3. g[j] \in 1..Len(t) /\ IsUrgent(t[g[j]]) BY <1>2, <1>12, <3>1
    <3>4. m + g[j] \in 1..Len(w) /\ w[m + g[j]] = t[g[j]] BY <1>1, <3>3
    <3> QED BY <1>4, <1>13, <3>1, <3>2, <3>3, <3>4
  <2> QED BY <1>10, <2>1, <2>2
<1>15. h \in [1..e -> Urgent(w)] BY <1>14
<1> HIDE DEF h
<1>16. ASSUME NEW i \in 1..e, NEW j \in 1..e, i < j PROVE h[i] < h[j]
  <2>1. CASE i \in 1..n /\ j \in 1..n BY <1>7, <1>13, <1>16, <2>1
  <2>2. CASE i \in 1..n /\ j - n \in 1..k
    <3>1. h[i] \in Int /\ h[i] <= m BY <1>1, <1>12, <1>13, <2>2
    <3>2. PICK y \in 1..k : y = j - n BY <2>2
    <3>3. j = n + y BY <1>7, <3>2
    <3>4. h[j] = m + g[y] BY <1>13, <3>3
    <3>5. g[y] \in Int /\ g[y] >= 1 BY <1>1, <1>12
    <3>6. m \in Int BY <1>1
    <3> QED BY ONLY <3>1, <3>4, <3>5, <3>6
  <2>3. CASE i - n \in 1..k /\ j - n \in 1..k
    <3>1. PICK x \in 1..k, y \in 1..k : x = i - n /\ y = j - n BY <2>3
    <3>2. i = n + x /\ j = n + y /\ x < y BY <1>7, <1>16, <3>1
    <3>3. g[x] < g[y] BY <1>8, <3>2
    <3>4. h[i] = m + g[x] /\ h[j] = m + g[y] BY <1>13, <3>2
    <3>5. g[x] \in Int /\ g[y] \in Int BY <1>1, <1>12
    <3> QED BY <1>1, <3>3, <3>4, <3>5
  <2>4. ~(~(i <= n) /\ j \in 1..n) BY <1>7, <1>16
  <2> QED BY <1>10, <2>1, <2>2, <2>3, <2>4
<1>17. ASSUME NEW x \in Urgent(w) PROVE \E i \in 1..e : h[i] = x
  <2>1. x \in 1..Len(w) /\ IsUrgent(w[x]) BY <1>4
  <2>2. CASE x \in 1..m
    <3>1. x \in A BY <1>1, <1>2, <2>1, <2>2
    <3>2. PICK i \in 1..n : f[i] = x BY <1>7, <3>1
    <3> QED BY <1>11, <1>13, <3>2
  <2>3. CASE x - m \in 1..Len(t)
    <3>1. PICK y \in 1..Len(t) : y = x - m BY <2>3
    <3>2. x = m + y BY <1>1, <2>1, <3>1
    <3>3. y \in B BY <1>1, <1>2, <2>1, <3>2
    <3>4. PICK i \in 1..k : g[i] = y BY <1>8, <3>3
    <3>5. h[n + i] = x /\ n + i \in 1..e BY <1>11, <1>13, <3>2, <3>4
    <3> QED BY <3>5
  <2> QED BY <1>1, <2>1, <2>2, <2>3
<1>18. Enumerates(h, e, Urgent(w)) BY <1>15, <1>16, <1>17 DEF Enumerates
<1>19. /\ Results(s) \in Seq(S) /\ Len(Results(s)) = n
       /\ \A i \in 1..n : Results(s)[i] = s[f[i]]
  <2>1. A \subseteq DOMAIN s BY DEF A, Urgent
  <2>2. /\ Select(s, A) \in Seq(S) /\ Len(Select(s, A)) = n
        /\ \A i \in 1..n : Select(s, A)[i] = s[f[i]]
    BY <1>5, <1>7, <2>1, EnumerationSelects
  <2> QED BY <2>2 DEF Results, A
<1>20. /\ Results(t) \in Seq(S) /\ Len(Results(t)) = k
       /\ \A i \in 1..k : Results(t)[i] = t[g[i]]
  <2>1. B \subseteq DOMAIN t BY DEF B, Urgent
  <2>2. /\ Select(t, B) \in Seq(S) /\ Len(Select(t, B)) = k
        /\ \A i \in 1..k : Select(t, B)[i] = t[g[i]]
    BY <1>6, <1>8, <2>1, EnumerationSelects
  <2> QED BY <2>2 DEF Results, B
<1>21. /\ Results(w) \in Seq(S) /\ Len(Results(w)) = e
       /\ \A i \in 1..e : Results(w)[i] = w[h[i]]
  <2>1. Urgent(w) \subseteq DOMAIN w BY DEF Urgent
  <2>2. /\ Select(w, Urgent(w)) \in Seq(S) /\ Len(Select(w, Urgent(w))) = e
        /\ \A i \in 1..e : Select(w, Urgent(w))[i] = w[h[i]]
    BY <1>1, <1>18, <2>1, EnumerationSelects
  <2> QED BY <2>2 DEF Results
<1>22. \A i \in 1..n : Results(w)[i] = Results(s)[i]
  <2> SUFFICES ASSUME NEW i \in 1..n PROVE Results(w)[i] = Results(s)[i] OBVIOUS
  <2>1. h[i] = f[i] /\ f[i] \in 1..m /\ i \in 1..e BY <1>11, <1>12, <1>13
  <2>2. w[h[i]] = s[f[i]] BY <1>1, <2>1
  <2> QED BY <1>19, <1>21, <2>1, <2>2
<1>23. \A i \in 1..k : Results(w)[n + i] = Results(t)[i]
  <2> SUFFICES ASSUME NEW i \in 1..k PROVE Results(w)[n + i] = Results(t)[i]
    OBVIOUS
  <2>1. h[n + i] = m + g[i] /\ g[i] \in 1..Len(t) /\ n + i \in 1..e
    BY <1>11, <1>12, <1>13
  <2>2. w[h[n + i]] = t[g[i]] BY <1>1, <2>1
  <2> QED BY <1>20, <1>21, <2>1, <2>2
<1> HIDE DEF Results
<1>24. Results(w) = Results(s) \o Results(t)
  <2> DEFINE both == Results(s) \o Results(t)
  <2>1. /\ both \in Seq(S) /\ Len(both) = e
        /\ \A i \in 1..n : both[i] = Results(s)[i]
        /\ \A i \in 1..k : both[n + i] = Results(t)[i]
    <3>1. PICK a \in Seq(S), b \in Seq(S) : a = Results(s) /\ b = Results(t)
      BY <1>19, <1>20, Zenon
    <3>2. /\ a \o b \in Seq(S) /\ Len(a \o b) = Len(a) + Len(b)
          /\ \A i \in 1..Len(a) : (a \o b)[i] = a[i]
          /\ \A i \in 1..Len(b) : (a \o b)[Len(a) + i] = b[i]
      BY ONLY TRUE
    <3>3. Len(a) = n /\ Len(b) = k BY <1>19, <1>20, <3>1, Zenon
    <3> QED BY <1>9, <3>1, <3>2, <3>3, Zenon
  <2> HIDE DEF both
  <2>2. ASSUME NEW i \in 1..e PROVE both[i] = Results(w)[i]
    <3>1. CASE i \in 1..n BY <1>22, <2>1, <3>1
    <3>2. CASE i - n \in 1..k
      <4>1. PICK j \in 1..k : j = i - n BY <3>2
      <4>2. i = n + j BY <1>7, <1>9, <4>1
      <4> QED BY <1>23, <2>1, <4>1, <4>2
    <3> QED BY <1>10, <3>1, <3>2
  <2>3. both = Results(w) BY <1>21, <2>1, <2>2
  <2> QED BY <2>3 DEF both
<1> QED BY <1>24 DEF w

\* ... and of a queue that has none.
LEMMA ResultsNone ==
  ASSUME NEW S, NEW q \in Seq(S), \A i \in DOMAIN q : ~IsUrgent(q[i])
  PROVE  Results(q) = <<>>
<1>1. Urgent(q) = {} BY DEF Urgent
<1>2. Urgent(q) \subseteq DOMAIN q /\ Cardinality(Urgent(q)) = 0
  BY <1>1, FS_EmptySet
<1>3. Select(q, Urgent(q)) \in Seq(S) /\ Len(Select(q, Urgent(q))) = 0
  BY <1>2, SelectPositions
<1>4. Results(q) \in Seq(S) /\ Len(Results(q)) = 0 BY <1>3 DEF Results
<1> HIDE DEF Results
<1> QED BY <1>4

\* ... and of a single message.
LEMMA ResultsOfOne ==
  ASSUME NEW S, NEW m \in S
  PROVE  Results(<<m>>) = IF IsUrgent(m) THEN <<m>> ELSE <<>>
<1> DEFINE q == <<m>>
<1>1. q \in Seq(S) /\ Len(q) = 1 /\ DOMAIN q = {1} /\ q[1] = m OBVIOUS
<1> HIDE DEF q
<1>2. CASE ~IsUrgent(m)
  <2>1. Results(q) = <<>> BY <1>1, <1>2, ResultsNone
  <2> QED BY <1>2, <2>1 DEF q
<1>3. CASE IsUrgent(m)
  <2>1. Urgent(q) = {1} BY <1>1, <1>3 DEF Urgent
  <2>2. Urgent(q) \subseteq DOMAIN q BY <1>1, <2>1
  <2> DEFINE f == [i \in 1..1 |-> 1]
  <2>3. Enumerates(f, 1, Urgent(q))
    <3>1. f \in [1..1 -> {1}] /\ \A i \in 1..1 : f[i] = 1 /\ i = 1 OBVIOUS
    <3>2. 1 \in 1..1 OBVIOUS
    <3> HIDE DEF f
    <3> QED BY <2>1, <3>1, <3>2 DEF Enumerates
  <2> HIDE DEF f
  <2>4. PICK e \in Nat : e = 1 OBVIOUS
  <2>5. Enumerates(f, e, Urgent(q)) BY <2>3, <2>4
  <2>6. /\ Select(q, Urgent(q)) \in Seq(S) /\ Len(Select(q, Urgent(q))) = e
        /\ \A i \in 1..e : Select(q, Urgent(q))[i] = q[f[i]]
    BY <1>1, <2>2, <2>5, EnumerationSelects
  <2>7. f[1] = 1
    <3>1. 1 \in 1..1 OBVIOUS
    <3> QED BY <3>1 DEF f
  <2>8. Results(q) \in Seq(S) /\ Len(Results(q)) = 1 /\ Results(q)[1] = m
    BY <1>1, <2>4, <2>6, <2>7 DEF Results
  <2>9. Results(q) = <<m>>
    <3> HIDE DEF Results
    <3> QED BY <2>8
  <2> QED BY <1>3, <2>9 DEF q
<1> QED BY <1>2, <1>3

-----------------------------------------------------------------------------
(***************************************************************************)
(* The queue bound and the filter.                                         *)
(***************************************************************************)

\* enforceQueueBound returns messages of the queue, and every operation result
\* in it: telemetry is all it can drop.
THEOREM BoundNeverDropsResults ==
  ASSUME NEW S, NEW q \in Seq(S)
  PROVE  /\ EnforceQueueBound(q) \in Seq(S)
         /\ \A n \in DOMAIN EnforceQueueBound(q) :
              \E i \in DOMAIN q : EnforceQueueBound(q)[n] = q[i]
         /\ \A i \in DOMAIN q : IsUrgent(q[i]) =>
              \E n \in DOMAIN EnforceQueueBound(q) :
                EnforceQueueBound(q)[n] = q[i]
<1>1. Retained(q) \subseteq DOMAIN q BY DEF Retained
<1>2. /\ EnforceQueueBound(q) \in Seq(S)
      /\ Len(EnforceQueueBound(q)) = Cardinality(Retained(q))
      /\ \A n \in 1..Cardinality(Retained(q)) :
           \E i \in Retained(q) : EnforceQueueBound(q)[n] = q[i]
  BY <1>1, SelectPositions DEF EnforceQueueBound
<1>3. DOMAIN EnforceQueueBound(q) = 1..Cardinality(Retained(q)) BY <1>2
<1>4. \A i \in Retained(q) : \E n \in DOMAIN EnforceQueueBound(q) :
        EnforceQueueBound(q)[n] = q[i]
  BY <1>1, SelectComplete DEF EnforceQueueBound
<1>5. \A i \in DOMAIN q : IsUrgent(q[i]) => i \in Retained(q)
  BY DEF Retained
<1> QED BY <1>1, <1>2, <1>3, <1>4, <1>5

\* The droppable messages up to a position are counted by its rank among them.
LEMMA DroppableIsRank ==
  ASSUME NEW S, NEW q \in Seq(S)
  PROVE  LET K == {j \in 1..Len(q) : ~IsUrgent(q[j])}
         IN  \A i \in 1..Len(q) : DroppableUpTo(q, i) = Rank(K, i)
<1> DEFINE K == {j \in 1..Len(q) : ~IsUrgent(q[j])}
<1>1. ASSUME NEW i \in 1..Len(q) PROVE DroppableUpTo(q, i) = Rank(K, i)
  <2>1. Len(q) \in Nat OBVIOUS
  <2>2. \A j : j \in 1..i <=> j \in 1..Len(q) /\ j <= i BY <2>1
  <2>3. {j \in 1..i : ~IsUrgent(q[j])} = {j \in K : j <= i}
    BY <2>2, Zenon
  <2> QED BY <2>3 DEF DroppableUpTo, Rank
<1> QED BY <1>1

\* enforceQueueBound meets its bound unless only operation results are left:
\* if a message it may drop survives, as many older ones as were in excess
\* have gone.
THEOREM BoundIsMet ==
  ASSUME NEW S, NEW q \in Seq(S), Len(EnforceQueueBound(q)) > MaxQueued
  PROVE  \A n \in DOMAIN EnforceQueueBound(q) :
           IsUrgent(EnforceQueueBound(q)[n])
<1> DEFINE R == Retained(q)
           K == {j \in 1..Len(q) : ~IsUrgent(q[j])}
           excess == Len(q) - MaxQueued
<1>1. /\ R \subseteq 1..Len(q) /\ R \subseteq DOMAIN q /\ Len(q) \in Nat
      /\ K \subseteq 1..Len(q) /\ MaxQueued \in Nat /\ excess \in Int
  BY MaxQueuedAssumption DEF Retained
<1>2. /\ Len(EnforceQueueBound(q)) = Cardinality(R)
      /\ EnforceQueueBound(q) \in Seq(S)
      /\ \A n \in 1..Cardinality(R) :
           \E i \in R : EnforceQueueBound(q)[n] = q[i]
  BY <1>1, SelectPositions DEF EnforceQueueBound
<1>3. Cardinality(R) > MaxQueued BY <1>2
<1>4. \A i \in 1..Len(q) : DroppableUpTo(q, i) = Rank(K, i)
  BY DroppableIsRank
<1>5. \A i \in R : i \in 1..Len(q) /\ (IsUrgent(q[i]) \/ Rank(K, i) > excess)
  BY <1>4 DEF Retained
<1>6. \A i \in K : i \in 1..Len(q) /\ ~IsUrgent(q[i]) OBVIOUS
<1> HIDE DEF R, K
<1>7. IsFiniteSet(R) /\ Cardinality(R) \in Nat BY <1>1, FinitePositions
<1>8. ASSUME NEW i \in R, ~IsUrgent(q[i]) PROVE FALSE
  <2>1. Rank(K, i) > excess /\ i \in 1..Len(q) BY <1>5, <1>8
  <2>2. IsFiniteSet(1..Len(q)) /\ Cardinality(1..Len(q)) = Len(q)
    <3>1. Len(q) \in Nat OBVIOUS
    <3> QED BY <3>1, PositionsCount
  <2>3. Cardinality(R) <= Len(q) BY <1>1, <2>2, FS_Subset
  <2>4. excess >= 1 BY <1>1, <1>3, <1>7, <2>3
  <2>5. /\ Rank(K, i) \in Nat /\ Rank(K, i) <= Cardinality(K)
        /\ Cardinality(K) \in Nat
    BY <1>1, <2>1, RankType, FinitePositions
  <2>6. excess \in 1..Cardinality(K) BY <1>1, <2>1, <2>4, <2>5
  <2>7. PICK e \in K : Rank(K, e) = excess BY <1>1, <2>6, RankExists
  <2> DEFINE D == {j \in K : j <= e}
  <2>8. Cardinality(D) = excess BY <2>7 DEF Rank
  <2>9. ASSUME NEW j \in D PROVE j \notin R
    <3>1. j \in K /\ j <= e /\ j \in Int /\ e \in Int
      BY <1>1, FinitePositions
    <3>2. Rank(K, j) <= Rank(K, e)
      <4>1. Rank(K, j) \in Nat /\ Rank(K, e) \in Nat
        BY <1>1, <3>1, RankType
      <4>2. CASE j = e BY <4>1, <4>2
      <4>3. CASE j < e
        <5>1. Rank(K, j) < Rank(K, e) BY <1>1, <3>1, <4>3, RankInjective
        <5> QED BY <4>1, <5>1
      <4> QED BY <3>1, <4>2, <4>3
    <3>3. Rank(K, j) \in Nat BY <1>1, <3>1, RankType
    <3>4. ~(Rank(K, j) > excess) BY <1>1, <2>7, <3>2, <3>3
    <3> QED BY <1>5, <1>6, <3>1, <3>4
  <2>10. D \subseteq 1..Len(q) BY <1>1
  <2> HIDE DEF D
  <2>11. IsFiniteSet(D) /\ Cardinality(D) \in Nat BY <1>1, <2>10, FinitePositions
  <2>12. Cardinality(R \cup D) = Cardinality(R) + Cardinality(D)
    <3>1. Cardinality(R \cap D) = 0
      <4>1. R \cap D = {} BY <2>9
      <4> QED BY <4>1, FS_EmptySet
    <3>2. Cardinality(R \cup D)
            = Cardinality(R) + Cardinality(D) - Cardinality(R \cap D)
      BY <1>7, <2>11, FS_Union
    <3> QED BY <1>7, <2>11, <3>1, <3>2
  <2>13. Cardinality(R \cup D) <= Len(q)
    <3>1. R \cup D \subseteq 1..Len(q) BY <1>1, <2>10
    <3> QED BY <2>2, <3>1, FS_Subset
  <2> QED BY <1>1, <1>3, <1>7, <2>8, <2>11, <2>12, <2>13
<1>9. DOMAIN EnforceQueueBound(q) = 1..Cardinality(R) BY <1>2
<1> QED BY <1>2, <1>8, <1>9

\* The sizes of two finite sets that have nothing in common.
LEMMA SizesAdd ==
  ASSUME NEW A, NEW B, IsFiniteSet(A), IsFiniteSet(B), A \cap B = {}
  PROVE  Cardinality(A \cup B) = Cardinality(A) + Cardinality(B)
<1>1. /\ IsFiniteSet(A) /\ Cardinality(A) \in Nat
      /\ IsFiniteSet(B) /\ Cardinality(B) \in Nat
  BY FS_CardinalityType
<1>2. Cardinality(A \cup B)
        = Cardinality(A) + Cardinality(B) - Cardinality(A \cap B)
  BY ONLY <1>1, FS_Union
<1>3. Cardinality(A \cap B) = 0 BY FS_EmptySet
<1> QED BY ONLY <1>1, <1>2, <1>3

\* What the loop retains of the messages it may drop: all but the d oldest.
LEMMA RetainedIs ==
  ASSUME NEW S, NEW q \in Seq(S)
  PROVE  \E d \in 0..Cardinality(Droppable(q)) :
           /\ Retained(q) = Urgent(q) \cup {i \in Droppable(q) : Rank(Droppable(q), i) > d}
           /\ d > 0 => Len(q) - d >= MaxQueued
           /\ Len(q) - d > MaxQueued => d = Cardinality(Droppable(q))
<1>1. PICK N : N = Droppable(q) OBVIOUS
<1>2. /\ N \subseteq 1..Len(q) /\ Len(q) \in Nat
      /\ \A i : i \in N <=> i \in 1..Len(q) /\ ~IsUrgent(q[i])
  BY <1>1 DEF Droppable
<1>3. PICK n \in Nat, c \in Nat : n = Len(q) /\ c = Cardinality(N)
  BY <1>2, FinitePositions
<1>4. PICK x \in Int : x = n - MaxQueued BY MaxQueuedAssumption
<1>5. \A i \in 1..n : DroppableUpTo(q, i) = Rank(N, i)
  <2>1. N = {j \in 1..Len(q) : ~IsUrgent(q[j])} BY <1>2
  <2> QED BY <1>3, <2>1, DroppableIsRank
<1>6. \A i \in N : Rank(N, i) \in 1..c
  <2> SUFFICES ASSUME NEW i \in N PROVE Rank(N, i) \in 1..c OBVIOUS
  <2>1. i \in 1..n /\ N \subseteq 1..n /\ i \in Int /\ i - 1 \in Int BY <1>2, <1>3
  <2>2. Rank(N, i) \in Nat /\ Rank(N, i) <= c /\ Rank(N, i - 1) \in Nat
    BY <1>3, <2>1, RankType
  <2>3. Rank(N, i) = Rank(N, i - 1) + 1 BY <2>1, RankStep
  <2> QED BY ONLY <2>2, <2>3, <1>3
<1>7. PICK d \in 0..c :
        /\ \A r \in 1..c : r > d <=> r > x
        /\ d > 0 => n - d >= MaxQueued
        /\ n - d > MaxQueued => d = c
  <2>1. CASE x <= 0
    <3>1. 0 \in 0..c /\ n - 0 = n /\ n <= MaxQueued BY <1>4, <2>1, MaxQueuedAssumption
    <3>2. \A r \in 1..c : r > 0 /\ r > x BY <2>1
    <3> QED BY <3>1, <3>2, MaxQueuedAssumption
  <2>2. CASE x > 0 /\ x <= c
    <3>1. x \in 0..c /\ n - x = MaxQueued BY <1>4, <2>2, MaxQueuedAssumption
    <3> QED BY <3>1, MaxQueuedAssumption
  <2>3. CASE x > c
    <3>1. c \in 0..c /\ n - c >= MaxQueued BY <1>4, <2>3, MaxQueuedAssumption
    <3>2. \A r \in 1..c : ~(r > c) /\ ~(r > x) BY <2>3
    <3> QED BY <3>1, <3>2
  <2> QED BY <2>1, <2>2, <2>3
<1>8. Retained(q) = Urgent(q) \cup {i \in N : Rank(N, i) > d}
  <2>1. \A i \in 1..n : IsUrgent(q[i]) <=> i \notin N BY <1>2, <1>3
  <2>2. \A i \in N : DroppableUpTo(q, i) > n - MaxQueued <=> Rank(N, i) > d
    BY <1>2, <1>3, <1>4, <1>5, <1>6, <1>7
  <2>3. DOMAIN q = 1..n BY <1>3
  <2> QED BY <1>2, <1>3, <2>1, <2>2, <2>3 DEF Retained, Urgent
<1> QED BY <1>1, <1>3, <1>7, <1>8

\* enforceQueueBound drops the oldest messages that are no operation results, as many
\* as are in excess and no more, and leaves the results as they were.
THEOREM BoundDropsTheOldest ==
  ASSUME NEW S, NEW q \in Seq(S) PROVE DropsTheOldest(q)
<1>1. PICK d \in 0..Cardinality(Droppable(q)) :
        /\ Retained(q) = Urgent(q) \cup {i \in Droppable(q) : Rank(Droppable(q), i) > d}
        /\ d > 0 => Len(q) - d >= MaxQueued
        /\ Len(q) - d > MaxQueued => d = Cardinality(Droppable(q))
  BY RetainedIs
<1>2. PICK N, U, R, L :
        /\ N = Droppable(q) /\ U = Urgent(q) /\ R = Retained(q)
        /\ L = {i \in N : Rank(N, i) > d}
  OBVIOUS
<1>3. /\ N \subseteq DOMAIN q /\ U \subseteq DOMAIN q /\ L \subseteq N
      /\ N \cap U = {} /\ N \cup U = DOMAIN q /\ DOMAIN q = 1..Len(q)
  <2>1. \A i : i \in N <=> i \in DOMAIN q /\ ~IsUrgent(q[i])
    BY ONLY <1>2 DEF Droppable
  <2>2. \A i : i \in U <=> i \in DOMAIN q /\ IsUrgent(q[i])
    BY ONLY <1>2 DEF Urgent
  <2>3. L \subseteq N BY ONLY <1>2
  <2>4. DOMAIN q = 1..Len(q) OBVIOUS
  <2>5. N \cap U = {} /\ N \cup U = DOMAIN q BY ONLY <2>1, <2>2
  <2>6. N \subseteq DOMAIN q /\ U \subseteq DOMAIN q BY ONLY <2>1, <2>2
  <2> QED BY ONLY <2>3, <2>4, <2>5, <2>6, Zenon
<1>4. R = U \cup L /\ R \subseteq DOMAIN q
  <2>1. R = U \cup L BY ONLY <1>1, <1>2, Zenon
  <2> QED BY ONLY <1>3, <2>1
<1>5. PICK n \in Nat, c \in Nat, u \in Nat, l \in Nat :
        /\ n = Len(q) /\ c = Cardinality(N) /\ u = Cardinality(U)
        /\ l = Cardinality(L)
  <2>1. Len(q) \in Nat OBVIOUS
  <2>2. N \subseteq 1..Len(q) /\ U \subseteq 1..Len(q) /\ L \subseteq 1..Len(q)
    BY <1>3
  <2> QED BY <2>1, <2>2, FinitePositions
<1>6. d \in Nat /\ d <= c BY <1>2, <1>5
<1>7. PICK rest \in Seq(S) : rest = Select(q, N) /\ Len(rest) = c
  <2>1. Select(q, N) \in Seq(S) /\ Len(Select(q, N)) = Cardinality(N)
    BY <1>3, SelectPositions
  <2> QED BY <1>5, <2>1
<1>8. PICK kept \in Seq(S) : kept = Select(q, R) /\ Len(kept) = Cardinality(R)
  BY <1>4, SelectPositions
<1>9. Select(q, L) = SubSeq(rest, d + 1, Len(rest)) /\ l = c - d
  <2>1. d \in 0..Cardinality(N) BY <1>2
  <2>2. /\ Select(q, {i \in N : Rank(N, i) > d})
              = SubSeq(Select(q, N), d + 1, Len(Select(q, N)))
        /\ Cardinality({i \in N : Rank(N, i) > d}) = Cardinality(N) - d
    BY ONLY <1>3, <2>1, SelectSuffix
  <2> QED BY ONLY <1>2, <1>5, <1>7, <2>2
<1>10. Len(kept) = n - d
  <2>1. PICK m \in Nat : m = Len(q) BY <1>5
  <2>2. N \subseteq 1..m /\ U \subseteq 1..m /\ L \subseteq 1..m /\ U \cap L = {}
        /\ U \cap N = {} /\ U \cup N = 1..m
    BY ONLY <1>3, <2>1
  <2>f. IsFiniteSet(U) /\ IsFiniteSet(N) /\ IsFiniteSet(L)
    BY ONLY <2>1, <2>2, FinitePositions
  <2>3. Cardinality(U \cup L) = u + l
    <3>1. Cardinality(U \cup L) = Cardinality(U) + Cardinality(L)
      BY ONLY <2>2, <2>f, SizesAdd
    <3> QED BY ONLY <1>5, <3>1, Zenon
  <2>4. Cardinality(U \cup N) = u + c
    <3>1. Cardinality(U \cup N) = Cardinality(U) + Cardinality(N)
      BY ONLY <2>2, <2>f, SizesAdd
    <3> QED BY ONLY <1>5, <3>1, Zenon
  <2>5. Cardinality(U \cup N) = m BY <2>2, PositionsCount
  <2>6. m = n /\ m = u + c BY ONLY <1>5, <2>1, <2>4, <2>5
  <2>7. Len(kept) = u + l BY <1>4, <1>8, <2>3
  <2> QED BY ONLY <1>6, <1>9, <2>6, <2>7
<1>11. Results(kept) = Results(q)
  BY <1>2, <1>4, <1>8, ResultsSelected
<1>12. Droppables(kept) = Select(q, L)
  <2>1. PICK P : P = {m \in S : ~IsUrgent(m)} OBVIOUS
  <2>2. Droppable(kept) = Where(kept, P)
    <3>1. \A i \in DOMAIN kept : kept[i] \in S OBVIOUS
    <3> QED BY <2>1, <3>1 DEF Droppable, Where
  <2>3. L = R \cap Where(q, P)
    <3>1. \A i \in DOMAIN q : q[i] \in S OBVIOUS
    <3>2. Where(q, P) = N BY <1>2, <2>1, <3>1 DEF Droppable, Where
    <3> QED BY <1>3, <1>4, <3>2
  <2>4. Select(kept, Where(kept, P)) = Select(q, R \cap Where(q, P))
    BY ONLY <1>4, <1>8, SelectSelected
  <2> QED BY <2>2, <2>3, <2>4, Zenon DEF Droppables
<1>13. Droppables(q) = rest BY <1>2, <1>7 DEF Droppables
<1>14. EnforceQueueBound(q) = kept BY <1>2, <1>8 DEF EnforceQueueBound
<1>15. /\ d \in 0..Len(rest)
       /\ Droppables(kept) = SubSeq(rest, d + 1, Len(rest))
       /\ Len(kept) = Len(q) - d
       /\ d > 0 => Len(kept) >= MaxQueued
       /\ Len(kept) > MaxQueued => d = Len(rest)
  <2>1. d \in 0..Len(rest) BY <1>2, <1>5, <1>7
  <2>2. Len(kept) = Len(q) - d BY <1>5, <1>10
  <2>3. Droppables(kept) = SubSeq(rest, d + 1, Len(rest)) BY <1>9, <1>12
  <2>4. Cardinality(Droppable(q)) = Len(rest) BY <1>2, <1>5, <1>7
  <2> QED BY ONLY <1>1, <2>1, <2>2, <2>3, <2>4
<1> QED BY ONLY <1>11, <1>13, <1>14, <1>15 DEF DropsTheOldest

-----------------------------------------------------------------------------
(***************************************************************************)
(* The loop of enforceQueueBound.                                          *)
(***************************************************************************)
\* A function that starts as the loop does and takes its steps is the loop's run: at
\* the least iteration where they differed, the one before would not.
LEMMA LoopIsUnique ==
  ASSUME NEW q, Len(q) \in Nat, NEW g,
         g = [i \in 0..Len(q) |-> g[i]],
         g[0] = [kept |-> <<>>, dropped |-> 0],
         \A i \in 1..Len(q) : g[i] = BoundStep(g[i - 1], q[i], Len(q) - MaxQueued)
  PROVE  BoundLoop(q) = g
<1>1. PICK n \in Nat : n = Len(q) OBVIOUS
<1> DEFINE Unrolled(f, i) ==
             IF i = 0 THEN [kept |-> <<>>, dropped |-> 0]
             ELSE BoundStep(f[i - 1], q[i], Len(q) - MaxQueued)
<1>2. \A i \in 0..n : g[i] = Unrolled(g, i)
  <2>1. \A i \in 0..n : i = 0 \/ i \in 1..n OBVIOUS
  <2> QED BY <1>1, <2>1
<1>3. g = [i \in 0..n |-> Unrolled(g, i)]
  <2> HIDE DEF Unrolled
  <2> QED BY <1>1, <1>2
<1>4. BoundLoop(q) = CHOOSE f : f = [i \in 0..n |-> Unrolled(f, i)]
  BY <1>1 DEF BoundLoop
<1>5. PICK r : r = BoundLoop(q) /\ r = [i \in 0..n |-> Unrolled(r, i)]
  <2> HIDE DEF Unrolled
  <2> QED BY <1>3, <1>4
<1>6. \A i \in 0..n : r[i] = Unrolled(r, i)
  <2> HIDE DEF Unrolled
  <2> QED BY <1>5
<1>7. ASSUME NEW k \in 0..n, r[k] # g[k], \A j \in 0..n : r[j] # g[j] => k <= j
      PROVE  FALSE
  <2>1. k # 0 BY <1>2, <1>6, <1>7
  <2>2. k - 1 \in 0..n /\ ~(k <= k - 1) BY <2>1
  <2>3. r[k - 1] = g[k - 1] BY <1>7, <2>2
  <2> QED BY <1>2, <1>6, <1>7, <2>1, <2>3
<1>8. \A i \in 0..n : r[i] = g[i]
  <2> DEFINE T == {i \in 0..n : r[i] # g[i]}
  <2>1. T \subseteq Nat OBVIOUS
  <2>2. T # {} => \E k \in T : \A j \in T : k <= j
    <3> HIDE DEF T
    <3> QED BY <2>1, LeastNatural
  <2>3. T = {} BY <1>7, <2>2
  <2> QED BY <2>3
<1>9. r = [i \in 0..n |-> g[i]]
  <2> HIDE DEF Unrolled
  <2> QED BY <1>5, <1>6, <1>8
<1> QED BY <1>1, <1>5, <1>9

\* After i iterations the loop has kept the retained messages among the first i, and
\* dropped the others; so it returns what EnforceQueueBound does, for every queue.
THEOREM BoundIsLoop ==
  ASSUME NEW S, NEW q \in Seq(S) PROVE IsTheLoop(q)
<1>1. PICK n \in Nat : n = Len(q) OBVIOUS
<1>2. PICK x \in Int : x = n - MaxQueued BY MaxQueuedAssumption
<1>3. PICK N, R :
        /\ \A i : i \in N <=> i \in 1..n /\ ~IsUrgent(q[i])
        /\ \A i : i \in R <=> i \in 1..n /\ (IsUrgent(q[i]) \/ Rank(N, i) > x)
        /\ R = Retained(q)
  <2>1. PICK N : N = {j \in 1..Len(q) : ~IsUrgent(q[j])} OBVIOUS
  <2>2. \A i \in 1..Len(q) : DroppableUpTo(q, i) = Rank(N, i)
    BY ONLY <2>1, DroppableIsRank
  <2>3. \A i : i \in Retained(q) <=> i \in 1..n /\ (IsUrgent(q[i]) \/ Rank(N, i) > x)
    BY <1>1, <1>2, <2>2 DEF Retained
  <2>4. \A i : i \in N <=> i \in 1..n /\ ~IsUrgent(q[i]) BY ONLY <1>1, <2>1
  <2>5. PICK R : R = Retained(q) OBVIOUS
  <2> QED BY ONLY <2>3, <2>4, <2>5, Zenon
<1>4. /\ N \subseteq 1..n /\ R \subseteq 1..n
      /\ \A j \in R : j \in Int /\ 1 <= j /\ j <= n
  BY ONLY <1>3
<1>5. /\ \A i \in 0..n : Rank(N, i) \in Nat
      /\ \A i \in 1..n : /\ i \in N => Rank(N, i) = Rank(N, i - 1) + 1
                         /\ i \notin N => Rank(N, i) = Rank(N, i - 1)
      /\ Rank(N, 0) = 0
  <2>1. \A i \in Int : Rank(N, i) \in Nat BY ONLY <1>4, RankType
  <2>2. \A i \in 1..n : /\ i \in N => Rank(N, i) = Rank(N, i - 1) + 1
                        /\ i \notin N => Rank(N, i) = Rank(N, i - 1)
    BY ONLY <1>4, RankStep
  <2>3. Rank(N, 0) = 0 BY ONLY <1>4, RankEnds
  <2>4. \A i \in 0..n : i \in Int OBVIOUS
  <2> QED BY ONLY <2>1, <2>2, <2>3, <2>4, Zenon
<1> DEFINE First(i) == {j \in R : j <= i}
           Gone(i) == IF Rank(N, i) < x THEN Rank(N, i) ELSE x
           g == [i \in 0..n |-> [kept |-> Select(q, First(i)), dropped |-> Gone(i)]]
<1>6. CASE Len(q) <= MaxQueued
  <2>1. R = 1..n
    <3>1. x <= 0 BY <1>1, <1>2, <1>6, MaxQueuedAssumption
    <3>2. ASSUME NEW i \in N PROVE Rank(N, i) > x
      <4>1. i \in 1..n /\ i - 1 \in 0..n /\ i \in 0..n BY <1>3
      <4>2. Rank(N, i) = Rank(N, i - 1) + 1 /\ Rank(N, i - 1) \in Nat BY <1>5, <4>1
      <4> QED BY <3>1, <4>2
    <3> QED BY <1>3, <3>2
  <2>2. Select(q, R) = q
    <3>1. R = DOMAIN q BY <1>1, <2>1
    <3> QED BY <3>1, SelectAll
  <2> QED BY <1>3, <1>6, <2>2 DEF IsTheLoop, EnforceQueueBound, BoundReference
<1>7. CASE Len(q) > MaxQueued
  <2>0. x > 0 BY <1>1, <1>2, <1>7, MaxQueuedAssumption
  <2>1. First(0) = {} /\ First(n) = R
    <3>1. \A j \in R : ~(j <= 0) /\ j <= n BY ONLY <1>4
    <3> QED BY ONLY <3>1
  <2>2. g[0] = [kept |-> <<>>, dropped |-> 0]
    <3>1. Select(q, {}) = <<>> BY SelectNone
    <3>2. Gone(0) = 0 BY <1>5, <2>0
    <3>3. 0 \in 0..n OBVIOUS
    <3> HIDE DEF Gone, First
    <3> QED BY ONLY <2>1, <3>1, <3>2, <3>3
  <2>3. ASSUME NEW i \in 1..n
        PROVE  [kept |-> Select(q, First(i)), dropped |-> Gone(i)]
                 = BoundStep([kept |-> Select(q, First(i - 1)), dropped |-> Gone(i - 1)],
                             q[i], x)
    <3>1. /\ i - 1 \in 0..n /\ i \in 0..n
          /\ Rank(N, i) \in Nat /\ Rank(N, i - 1) \in Nat
      BY <1>5
    <3>2. CASE i \in R
      <4>1. First(i) = First(i - 1) \cup {i}
        <5>1. \A j \in R : j <= i <=> (j <= i - 1 \/ j = i) BY ONLY <1>4
        <5> QED BY ONLY <3>2, <5>1
      <4>2. Select(q, First(i)) = Append(Select(q, First(i - 1)), q[i])
        <5>1. i - 1 \in Nat /\ i - 1 < Len(q) /\ (i - 1) + 1 = i BY <1>1
        <5>2. First(i - 1) \subseteq 1..(i - 1)
          <6>1. \A j \in R : j <= i - 1 => j \in 1..(i - 1) BY ONLY <1>4
          <6> QED BY ONLY <6>1
        <5> HIDE DEF First
        <5> QED BY <4>1, <5>1, <5>2, SelectGrows
      <4>3. Gone(i) = Gone(i - 1) /\ (IsUrgent(q[i]) \/ ~(Gone(i - 1) < x))
        <5>1. CASE i \in N
          <6>1. Rank(N, i) = Rank(N, i - 1) + 1 /\ Rank(N, i) > x
            BY <1>3, <1>5, <3>2, <5>1
          <6> QED BY <3>1, <6>1
        <5>2. CASE i \notin N
          <6>1. Rank(N, i) = Rank(N, i - 1) /\ IsUrgent(q[i]) BY <1>3, <1>5, <5>2
          <6> QED BY <6>1
        <5> QED BY <5>1, <5>2
      <4> HIDE DEF First, Gone
      <4> QED BY <4>2, <4>3 DEF BoundStep
    <3>3. CASE i \notin R
      <4>1. First(i) = First(i - 1)
        <5>1. \A j \in R : j <= i <=> (j <= i - 1 \/ j = i) BY ONLY <1>4
        <5> QED BY ONLY <3>3, <5>1
      <4>2. ~IsUrgent(q[i]) /\ ~(Rank(N, i) > x) /\ i \in N BY <1>3, <3>3
      <4>3. Rank(N, i) = Rank(N, i - 1) + 1 BY <1>5, <4>2
      <4>4. Gone(i - 1) < x /\ Gone(i) = Gone(i - 1) + 1 BY <3>1, <4>2, <4>3
      <4> HIDE DEF First, Gone
      <4> QED BY <4>1, <4>2, <4>4 DEF BoundStep
    <3> QED BY <3>2, <3>3
  <2>4. BoundLoop(q) = g
    <3>1. \A i \in 1..n : i \in 0..n /\ i - 1 \in 0..n OBVIOUS
    <3> HIDE DEF First, Gone
    <3>2. \A i \in 1..n : g[i] = BoundStep(g[i - 1], q[i], x) BY <2>3, <3>1
    <3>3. g = [i \in 0..n |-> g[i]] OBVIOUS
    <3> HIDE DEF g
    <3>4. Len(q) \in Nat /\ x = Len(q) - MaxQueued BY <1>1, <1>2
    <3> QED BY <1>1, <2>2, <3>2, <3>3, <3>4, LoopIsUnique
  <2>5. g[n].kept = Select(q, R)
    <3> HIDE DEF First, Gone
    <3> QED BY <2>1
  <2> HIDE DEF g
  <2> QED BY <1>1, <1>3, <1>7, <2>4, <2>5, MaxQueuedAssumption
          DEF IsTheLoop, EnforceQueueBound, BoundReference
<1> QED BY <1>1, <1>6, <1>7, MaxQueuedAssumption

\* The filter of performExchange returns messages of the batch, and every one
\* of a type that always passes.
LEMMA FilterKeepsProtocol ==
  ASSUME NEW S, NEW q \in Seq(S), NEW accepted
  PROVE  /\ DropUnaccepted(q, accepted) \in Seq(S)
         /\ Len(DropUnaccepted(q, accepted)) <= Len(q)
         /\ \A n \in DOMAIN DropUnaccepted(q, accepted) :
              \E i \in DOMAIN q : DropUnaccepted(q, accepted)[n] = q[i]
         /\ \A i \in DOMAIN q : q[i].type \in AlwaysAccepted =>
              \E n \in DOMAIN DropUnaccepted(q, accepted) :
                DropUnaccepted(q, accepted)[n] = q[i]
<1> DEFINE K == {i \in DOMAIN q : PassesFilter(q[i], accepted)}
           d == DropUnaccepted(q, accepted)
<1>1. K \subseteq DOMAIN q /\ K \subseteq 1..Len(q) /\ Len(q) \in Nat OBVIOUS
<1>2. d = Select(q, K) BY DEF DropUnaccepted
<1>3. \A i \in DOMAIN q : q[i].type \in AlwaysAccepted => i \in K
  BY DEF PassesFilter
<1>4. Cardinality(K) <= Len(q)
  <2>1. IsFiniteSet(1..Len(q)) /\ Cardinality(1..Len(q)) = Len(q)
    <3>1. PICK n \in Nat : n = Len(q) BY <1>1
    <3>2. IsFiniteSet(1..n) /\ Cardinality(1..n) = IF 1 <= n THEN n - 1 + 1 ELSE 0
      BY ONLY FS_Interval
    <3>3. Cardinality(1..n) = n BY ONLY <3>2
    <3> QED BY ONLY <3>1, <3>2, <3>3, Zenon
  <2>2. K \subseteq 1..Len(q) BY <1>1
  <2>3. Cardinality(K) <= Cardinality(1..Len(q))
    <3> HIDE DEF K
    <3> QED BY ONLY <2>1, <2>2, FS_Subset
  <2> QED BY <2>1, <2>3
<1> HIDE DEF K, d
<1>5. /\ d \in Seq(S) /\ Len(d) = Cardinality(K)
      /\ \A n \in 1..Cardinality(K) : \E i \in K : d[n] = q[i]
  BY <1>1, <1>2, SelectPositions
<1>6. DOMAIN d = 1..Cardinality(K) BY <1>5
<1>7. \A i \in K : \E n \in DOMAIN d : d[n] = q[i]
  BY <1>1, <1>2, SelectComplete
<1>8. /\ d \in Seq(S) /\ Len(d) <= Len(q)
      /\ \A n \in DOMAIN d : \E i \in DOMAIN q : d[n] = q[i]
      /\ \A i \in DOMAIN q : q[i].type \in AlwaysAccepted =>
           \E n \in DOMAIN d : d[n] = q[i]
  BY <1>1, <1>3, <1>4, <1>5, <1>6, <1>7
<1> QED BY <1>8 DEF d
=============================================================================
