------------------------------- MODULE Extremes --------------------------------
(***************************************************************************)
(* The extreme elements that the code picks: the next id, the first item,  *)
(* the last row of a batch, the account written last.                      *)
(***************************************************************************)
EXTENDS Naturals, FiniteSets, FiniteSetTheorems, WellFoundedInduction, TLAPS

\* A set of naturals that is not empty has a least element.
LEMMA LeastExists ==
  ASSUME NEW S \in SUBSET Nat, S # {}
  PROVE  \E i \in S : \A j \in S : i <= j
<1>1. PICK i \in S : \A j \in S : ~ (<<j, i>> \in OpToRel(<, Nat))
  BY NatLessThanWellFounded, WFMin
<1>2. \A j \in S : ~(j < i)
  BY <1>1, Zenon DEF OpToRel
<1>3. \A j \in S : i <= j
  BY <1>2
<1> QED  BY <1>3

\* A finite one has a greatest: the one with the fewest above it.
LEMMA GreatestExists ==
  ASSUME NEW S \in SUBSET Nat, S # {}, IsFiniteSet(S)
  PROVE  \E i \in S : \A j \in S : j <= i
<1> DEFINE Above(i) == {j \in S : j > i}
           N == {Cardinality(Above(i)) : i \in S}
<1>1. \A i \in S : IsFiniteSet(Above(i)) /\ Cardinality(Above(i)) \in Nat
  <2> TAKE i \in S
  <2>1. Above(i) \in SUBSET S
    OBVIOUS
  <2> HIDE DEF Above
  <2> QED  BY <2>1, FS_Subset, FS_CardinalityType
<1>2. PICK n \in N : \A m \in N : n <= m
  <2>1. N \in SUBSET Nat /\ N # {}
    BY <1>1
  <2> HIDE DEF N
  <2> QED  BY <2>1, LeastExists
<1>3. PICK i \in S : n = Cardinality(Above(i))
  OBVIOUS
<1>4. ASSUME NEW j \in S, j > i PROVE FALSE
  <2>1. Above(j) \in SUBSET Above(i) /\ j \in Above(i) /\ j \notin Above(j)
    <3>1. i \in Nat /\ j \in Nat /\ ~(j > j)
      OBVIOUS
    <3>2. \A k \in S : k > j => k > i
      <4> TAKE k \in S
      <4>1. k \in Nat
        OBVIOUS
      <4> QED  BY <1>4, <3>1, <4>1
    <3> QED  BY <1>4, <3>1, <3>2
  <2>2. Cardinality(Above(i)) <= Cardinality(Above(j))
    BY <1>2, <1>3
  <2>3. IsFiniteSet(Above(i)) /\ Cardinality(Above(i)) \in Nat
        /\ Cardinality(Above(j)) \in Nat
    BY <1>1
  <2> HIDE DEF Above
  <2>4. Cardinality(Above(i)) = Cardinality(Above(j))
    BY <2>1, <2>2, <2>3, FS_Subset
  <2>5. Above(j) = Above(i)
    BY <2>1, <2>3, <2>4, FS_Subset
  <2> QED  BY <2>1, <2>5
<1>5. \A j \in S : j <= i
  BY <1>4
<1> QED  BY <1>5

================================================================================
