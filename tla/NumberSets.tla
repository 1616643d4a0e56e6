----------------------------- MODULE NumberSets -----------------------------
(* Facts about sets of numbers that the proofs about text and tables share. *)
EXTENDS Integers, FiniteSetsExt, FiniteSetTheorems, WellFoundedInduction, TLAPS

(* A set of numbers has a least one. Proofs by induction use it too: there  *)
(* is no least number for which a fact is wrong.                            *)
LEMMA LeastMember ==
    ASSUME NEW S \in SUBSET Nat, S # {}
    PROVE  /\ \E m \in S : \A y \in S : m <= y
           /\ Min(S) \in S /\ \A y \in S : Min(S) <= y
<1>1. PICK m \in S : \A y \in S : ~(<<y, m>> \in OpToRel(<, Nat))
  BY NatLessThanWellFounded, WFMin
<1>2. \A y \in S : ~(y < m)
  BY <1>1 DEF OpToRel
<1>3. \A y \in S : m <= y
  BY <1>2
<1> QED
  BY <1>3 DEF Min

(* A bounded set of numbers has a greatest one.                             *)
LEMMA GreatestMember ==
    ASSUME NEW S \in SUBSET Nat, IsFiniteSet(S), S # {}
    PROVE  Max(S) \in S /\ \A y \in S : Max(S) >= y
<1> DEFINE HasMax(s) == \E m \in s : \A y \in s : m >= y
           Sizes == {n \in Nat : \E s \in SUBSET S : s # {} /\ ~HasMax(s) /\ Cardinality(s) = n}
<1>1. Sizes = {}
  <2> SUFFICES ASSUME Sizes # {} PROVE FALSE
    OBVIOUS
  <2>1. PICK n \in Sizes : \A k \in Sizes : n <= k
    BY LeastMember
  <2>2. PICK s \in SUBSET S : s # {} /\ ~HasMax(s) /\ Cardinality(s) = n
    BY <2>1
  <2>3. PICK x \in s : TRUE
    BY <2>2
  <2> DEFINE t == s \ {x}
  <2>4. /\ t \in SUBSET S /\ s \subseteq Nat /\ x \in Nat /\ n \in Nat
        /\ Cardinality(t) = n - 1 /\ Cardinality(t) \in Nat
    <3>1. IsFiniteSet(s)
      BY FS_Subset
    <3>2. IsFiniteSet(t) /\ Cardinality(t) = n - 1
      BY <2>2, <2>3, <3>1, FS_RemoveElement
    <3> QED
      BY <2>1, <2>3, <3>2, FS_CardinalityType
  <2>5. t = {} \/ HasMax(t)
    <3>1. Cardinality(t) \notin Sizes
      <4> HIDE DEF Sizes, t
      <4> QED
        BY <2>1, <2>4
    <3> HIDE DEF t
    <3> QED
      BY <2>4, <3>1
  <2>6. HasMax(s)
    <3>1. CASE t = {}
      BY <2>3, <2>4, <3>1
    <3>2. CASE HasMax(t)
      <4>1. PICK m \in t : \A y \in t : m >= y
        BY <3>2
      <4>2. m \in s /\ m \in Nat
        BY <2>4, <4>1
      <4>3. CASE m >= x
        BY <2>4, <4>1, <4>2, <4>3
      <4>4. CASE x >= m
        <5>1. \A y \in s : x >= y
          BY <2>4, <4>1, <4>2, <4>4
        <5> QED
          BY <2>3, <5>1
      <4> QED
        BY <2>4, <4>2, <4>3, <4>4
    <3> QED
      BY <2>5, <3>1, <3>2
  <2> QED
    BY <2>2, <2>6
<1>2. HasMax(S)
  <2>1. Cardinality(S) \in Nat
    BY FS_CardinalityType
  <2> QED
    BY <1>1, <2>1
<1> QED
  BY <1>2 DEF Max

(* Every place in the order of a finite set of numbers is some number's.    *)
LEMMA KthMember ==
    ASSUME NEW S \in SUBSET Nat, IsFiniteSet(S), NEW k \in 1..Cardinality(S)
    PROVE  \E i \in S : Cardinality({j \in S : j < i}) = k - 1
<1> DEFINE Below(s, i) == {j \in s : j < i}
           HasKth(s, p) == \E i \in s : Cardinality(Below(s, i)) = p - 1
           Sizes == {n \in Nat : \E s \in SUBSET S :
                                    Cardinality(s) = n /\ \E p \in 1..n : ~HasKth(s, p)}
<1>1. Sizes = {}
  <2> SUFFICES ASSUME Sizes # {} PROVE FALSE
    OBVIOUS
  <2>1. PICK n \in Sizes : \A m \in Sizes : n <= m
    <3>1. Sizes \subseteq Nat
      OBVIOUS
    <3> HIDE DEF Sizes
    <3> QED
      BY <3>1, LeastMember
  <2>2. PICK s \in SUBSET S : Cardinality(s) = n /\ \E p \in 1..n : ~HasKth(s, p)
    OBVIOUS
  <2>3. PICK p \in 1..n : ~HasKth(s, p)
    BY <2>2
  <2>4. IsFiniteSet(s) /\ n \in Nat /\ s # {}
    <3>1. IsFiniteSet(s) /\ n \in Nat
      BY <2>1, FS_Subset
    <3>2. n # 0
      BY <2>3, <3>1
    <3> QED
      BY <2>2, <3>1, <3>2, FS_EmptySet
  <2> DEFINE m == Max(s)
             t == s \ {m}
  <2>5. m \in s /\ (\A y \in s : m >= y) /\ m \in Nat /\ s \subseteq Nat
    BY <2>4, GreatestMember
  <2>6. t \in SUBSET S /\ Cardinality(t) = n - 1
    BY <2>2, <2>4, <2>5, FS_RemoveElement
  <2> HIDE DEF m
  <2>7. CASE p = n
    <3>1. Below(s, m) = t
      <4>1. \A j \in s : j < m <=> j # m
        BY <2>5
      <4> QED
        BY <4>1
    <3> QED
      BY <2>3, <2>5, <2>6, <2>7, <3>1
  <2>8. CASE p # n
    <3>1. p \in 1..(n - 1) /\ n - 1 \in Nat
      BY <2>3, <2>4, <2>8
    <3>2. n - 1 \notin Sizes
      <4> HIDE DEF Sizes
      <4> QED
        BY <2>1, <2>4
    <3>3. HasKth(t, p)
      <4> HIDE DEF t, HasKth
      <4> QED
        BY <2>6, <3>1, <3>2
    <3>4. PICK i \in t : Cardinality(Below(t, i)) = p - 1
      BY <3>3
    <3>5. Below(s, i) = Below(t, i)
      BY <2>5, <3>4
    <3> QED
      BY <2>3, <3>4, <3>5
  <2> QED
    BY <2>7, <2>8
<1>2. Cardinality(S) \in Nat
  BY FS_CardinalityType
<1>3. HasKth(S, k)
  <2> HIDE DEF HasKth
  <2> QED
    BY <1>1, <1>2
<1> QED
  BY <1>3
=============================================================================
