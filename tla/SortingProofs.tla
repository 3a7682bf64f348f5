---------------------------- MODULE SortingProofs ----------------------------
(***************************************************************************)
(* What sorting promises, for every finite set and every total order on    *)
(* it, two facts about lists of the elements of a set, and the least and   *)
(* the greatest of some numbers.                                           *)
(***************************************************************************)
EXTENDS Sorting, Sequences, TLAPS, FunctionTheorems, FiniteSetTheorems, WellFoundedInduction

(* A function on 1..n is a list of n elements. *)
LEMMA FunctionIsList ==
    ASSUME NEW n \in Nat, NEW D, NEW s \in [1..n -> D]
    PROVE  s \in Seq(D) /\ Len(s) = n /\ \A k \in 1..n : s[k] \in D
OBVIOUS

(* Of two elements the one further on has more elements up to it. *)
LEMMA UpToGrows ==
    ASSUME NEW S, IsFiniteSet(S), NEW R, IsTotalOrder(R, S),
           NEW a \in S, NEW b \in S, <<a, b>> \in R, a # b
    PROVE  Cardinality(UpTo(S, R, a)) < Cardinality(UpTo(S, R, b))
<1>1. UpTo(S, R, a) \subseteq UpTo(S, R, b)
  BY DEF UpTo, IsTotalOrder
<1>2. b \in UpTo(S, R, b) /\ b \notin UpTo(S, R, a)
  BY DEF UpTo, IsTotalOrder
<1>3. IsFiniteSet(UpTo(S, R, b)) /\ IsFiniteSet(UpTo(S, R, a))
  <2>1. UpTo(S, R, b) \in SUBSET S /\ UpTo(S, R, a) \in SUBSET S
    BY DEF UpTo
  <2> QED
    BY <2>1, FS_Subset
<1>4. /\ Cardinality(UpTo(S, R, a)) <= Cardinality(UpTo(S, R, b))
      /\ Cardinality(UpTo(S, R, b)) # Cardinality(UpTo(S, R, a))
  BY <1>1, <1>2, <1>3, FS_Subset
<1>5. Cardinality(UpTo(S, R, a)) \in Nat /\ Cardinality(UpTo(S, R, b)) \in Nat
  BY <1>3, FS_CardinalityType
<1> QED
  BY <1>4, <1>5

(* Every number of elements up to an element occurs, and once. *)
LEMMA RankIsBijection ==
    ASSUME NEW S, IsFiniteSet(S), NEW R, IsTotalOrder(R, S)
    PROVE  /\ \A a \in S : Cardinality(UpTo(S, R, a)) \in 1..Cardinality(S)
           /\ \A a, b \in S : Cardinality(UpTo(S, R, a)) = Cardinality(UpTo(S, R, b)) => a = b
           /\ \A i \in 1..Cardinality(S) : \E a \in S : Cardinality(UpTo(S, R, a)) = i
<1> DEFINE n == Cardinality(S)
           rank == [a \in S |-> Cardinality(UpTo(S, R, a))]
<1>1. n \in Nat
  BY FS_CardinalityType
<1>2. ASSUME NEW a \in S
      PROVE  Cardinality(UpTo(S, R, a)) \in 1..n
  <2>1. UpTo(S, R, a) \in SUBSET S /\ a \in UpTo(S, R, a)
    BY DEF UpTo, IsTotalOrder
  <2>2. IsFiniteSet(UpTo(S, R, a)) /\ Cardinality(UpTo(S, R, a)) <= n
    BY <2>1, FS_Subset
  <2>3. Cardinality(UpTo(S, R, a)) \in Nat /\ Cardinality(UpTo(S, R, a)) # 0
    BY <2>1, <2>2, FS_CardinalityType, FS_EmptySet
  <2> QED
    BY <1>1, <2>2, <2>3
<1>3. ASSUME NEW a \in S, NEW b \in S, Cardinality(UpTo(S, R, a)) = Cardinality(UpTo(S, R, b))
      PROVE  a = b
  <2>1. SUFFICES ASSUME a # b PROVE FALSE
    OBVIOUS
  <2>2. <<a, b>> \in R \/ <<b, a>> \in R
    BY DEF IsTotalOrder
  <2>3. \/ Cardinality(UpTo(S, R, a)) < Cardinality(UpTo(S, R, b))
        \/ Cardinality(UpTo(S, R, b)) < Cardinality(UpTo(S, R, a))
    BY <2>1, <2>2, UpToGrows
  <2> QED
    BY <2>3, <1>2, <1>3
<1>4. rank \in Injection(S, 1..n)
  <2>1. rank \in [S -> 1..n]
    BY <1>2
  <2>2. \A a, b \in S : rank[a] = rank[b] => a = b
    BY <1>3
  <2> HIDE DEF rank
  <2> QED
    BY <2>1, <2>2 DEF Injection, IsInjective
<1>5. IsFiniteSet(1..n) /\ Cardinality(1..n) = n
  BY <1>1, FS_Interval
<1>6. rank \in Surjection(S, 1..n)
  <2> HIDE DEF rank
  <2> QED
    BY <1>4, <1>5, FS_Injection
<1>7. \A i \in 1..n : \E a \in S : rank[a] = i
  BY <1>6 DEF Surjection
<1> QED
  BY <1>2, <1>3, <1>7

(* Sorting lists every element, each once, and in the order. *)
THEOREM SortedIsSorted ==
    ASSUME NEW S, IsFiniteSet(S), NEW R, IsTotalOrder(R, S)
    PROVE  /\ Cardinality(S) \in Nat
           /\ Sorted(S, R) \in [1..Cardinality(S) -> S]
           /\ \A a \in S : \E i \in 1..Cardinality(S) : Sorted(S, R)[i] = a
           /\ \A i, j \in 1..Cardinality(S) :
                 i < j => <<Sorted(S, R)[i], Sorted(S, R)[j]>> \in R /\ Sorted(S, R)[i] # Sorted(S, R)[j]
<1> DEFINE n == Cardinality(S)
           Rank(a) == Cardinality(UpTo(S, R, a))
           s == Sorted(S, R)
<1>1. n \in Nat
  BY FS_CardinalityType
<1>2. ASSUME NEW i \in 1..n
      PROVE  s[i] \in S /\ Rank(s[i]) = i
  <2>1. s[i] = CHOOSE a \in S : Rank(a) = i
    BY DEF Sorted
  <2>2. \E a \in S : Rank(a) = i
    BY RankIsBijection
  <2> QED
    BY <2>1, <2>2
<1>3. s \in [1..n -> S]
  <2>1. s = [i \in 1..n |-> s[i]]
    BY DEF Sorted
  <2> HIDE DEF s
  <2> QED
    BY <2>1, <1>2
<1>4. ASSUME NEW a \in S
      PROVE  \E i \in 1..n : s[i] = a
  <2>1. Rank(a) \in 1..n
    BY RankIsBijection
  <2>2. s[Rank(a)] \in S /\ Rank(s[Rank(a)]) = Rank(a)
    BY <2>1, <1>2
  <2>3. s[Rank(a)] = a
    BY <2>2, RankIsBijection
  <2> QED
    BY <2>1, <2>3
<1>5. ASSUME NEW i \in 1..n, NEW j \in 1..n, i < j
      PROVE  <<s[i], s[j]>> \in R /\ s[i] # s[j]
  <2>1. s[i] \in S /\ s[j] \in S /\ Rank(s[i]) = i /\ Rank(s[j]) = j
    BY <1>2
  <2>2. s[i] # s[j]
    BY <2>1, <1>5
  <2>3. CASE <<s[j], s[i]>> \in R
    <3>1. Rank(s[j]) < Rank(s[i])
      BY <2>1, <2>2, <2>3, UpToGrows
    <3> QED
      BY <3>1, <2>1, <1>5
  <2>4. <<s[i], s[j]>> \in R \/ <<s[j], s[i]>> \in R
    BY <2>1 DEF IsTotalOrder
  <2> QED
    BY <2>2, <2>3, <2>4
<1> QED
  BY <1>1, <1>3, <1>4, <1>5

-----------------------------------------------------------------------------
(* The first and the last of some numbers. *)

LEMMA LeastOf ==
    ASSUME NEW S \in SUBSET Nat, S # {}
    PROVE  \E m \in S : \A k \in S : m <= k
<1> DEFINE R == OpToRel(<, Nat)
<1>1. IsWellFoundedOn(R, Nat)
  BY NatLessThanWellFounded, Zenon
<1>2. \A p, q \in Nat : p < q => <<p, q>> \in R
  BY DEF OpToRel
<1> HIDE DEF R
<1>3. PICK m \in S : \A k \in S : ~(<<k, m>> \in R)
  BY <1>1, WFMin, Zenon
<1>4. ASSUME NEW k \in S PROVE m <= k
  <2>1. k < m => <<k, m>> \in R
    BY <1>2, Zenon
  <2>2. ~(k < m)
    BY <2>1, <1>3, Zenon
  <2> QED
    BY <2>2
<1> QED
  BY <1>4

LEMMA GreatestOf ==
    ASSUME NEW n \in Nat, NEW S \in SUBSET (1..n), S # {}
    PROVE  \E m \in S : \A k \in S : k <= m
<1> DEFINE T == {n - k : k \in S}
<1>1. T \in SUBSET Nat /\ T # {}
  OBVIOUS
<1> HIDE DEF T
<1>2. PICK t \in T : \A q \in T : t <= q
  BY <1>1, LeastOf
<1>3. PICK m \in S : t = n - m
  BY DEF T
<1>4. ASSUME NEW k \in S PROVE k <= m
  <2>1. n - k \in T
    BY DEF T
  <2>2. n - m <= n - k
    BY <2>1, <1>2, <1>3
  <2> QED
    BY <2>2
<1> QED
  BY <1>4
=============================================================================
