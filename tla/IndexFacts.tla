---------------------------- MODULE IndexFacts ----------------------------
(***************************************************************************)
(* Facts about sets of indices.  A set of naturals up to a bound has a     *)
(* least member: that is what an index that was searched for is, and the   *)
(* form induction over the positions of a sequence takes here, where a     *)
(* counterexample would have a first position.                             *)
(***************************************************************************)
EXTENDS Integers, FiniteSetsExt, FiniteSetTheorems, TLAPS

\* A set of naturals up to n that is not empty has a least member.
THEOREM LeastMember ==
  ASSUME NEW n \in Nat, NEW S \in SUBSET (0..n), S # {}
  PROVE  \E m \in S : \A k \in S : m <= k
<1>. DEFINE Below(m) == 0..m
            Sets == {Below(m) : m \in S}
            All == 0..n
<1>1. IsFiniteSet(All)
  BY FS_Interval
<1>2. IsWellFoundedOn(StrictSubsetOrdering(All), SUBSET All)
  <2>1. FiniteSubsetsOf(All) = SUBSET All
    BY <1>1, FS_FiniteSubsetsOfFinite
  <2>2. IsWellFoundedOn(StrictSubsetOrdering(All), FiniteSubsetsOf(All))
    BY FS_StrictSubsetOrderingWellFounded
  <2>. QED  BY <2>1, <2>2
<1>3. Sets \subseteq SUBSET All /\ Sets # {}
  <2>1. \A m \in S : Below(m) \in SUBSET All /\ Below(m) \in Sets
    OBVIOUS
  <2>. QED  BY <2>1
<1>4. PICK X \in Sets : \A Y \in Sets : ~ (<<Y, X>> \in StrictSubsetOrdering(All))
  <2>. HIDE DEF All, Sets
  <2>. QED  BY <1>2, <1>3, WFMin
<1>5. PICK m \in S : X = Below(m)
  BY DEF Sets
<1>6. ASSUME NEW k \in S  PROVE m <= k
  <2>1. Below(k) \in SUBSET All /\ Below(m) \in SUBSET All /\ Below(k) \in Sets
    OBVIOUS
  <2>2. Below(k) \subseteq Below(m) => Below(k) = Below(m)
    BY <1>4, <1>5, <2>1 DEF StrictSubsetOrdering
  <2>3. k < m => Below(k) \subseteq Below(m) /\ m \in Below(m) /\ m \notin Below(k)
    OBVIOUS
  <2>. QED  BY <2>2, <2>3
<1>. QED  BY <1>6

\* The same for a greatest one.
THEOREM GreatestMember ==
  ASSUME NEW n \in Nat, NEW S \in SUBSET (0..n), S # {}
  PROVE  \E m \in S : \A k \in S : k <= m
<1>. DEFINE T == {n - k : k \in S}
<1>1. T \in SUBSET (0..n) /\ T # {}
  <2>1. \A k \in S : n - k \in 0..n /\ n - k \in T
    OBVIOUS
  <2>. QED  BY <2>1
<1>2. PICK m \in T : \A k \in T : m <= k
  BY <1>1, LeastMember
<1>3. n - m \in S /\ \A k \in S : k <= n - m
  BY <1>2
<1>. QED  BY <1>3

\* Min and Max of such a set are members of it.
THEOREM MinMax ==
  ASSUME NEW n \in Nat, NEW S \in SUBSET (0..n), S # {}
  PROVE  /\ Min(S) \in S /\ \A k \in S : Min(S) <= k
         /\ Max(S) \in S /\ \A k \in S : Max(S) >= k
<1>1. Min(S) \in S /\ \A k \in S : Min(S) <= k
  BY LeastMember DEF Min
<1>2. Max(S) \in S /\ \A k \in S : Max(S) >= k
  <2>1. \E m \in S : \A k \in S : m >= k
    BY GreatestMember
  <2>. QED  BY <2>1 DEF Max
<1>. QED  BY <1>1, <1>2

\* The place of a member of a finite set of naturals among its members: each
\* place is taken, in order.
THEOREM Ranks ==
  ASSUME NEW K \in SUBSET Nat, IsFiniteSet(K)
  PROVE  LET Rank(k) == Cardinality({j \in K : j < k})
         IN  /\ Cardinality(K) \in Nat
             /\ \A k \in K : Rank(k) \in 0..(Cardinality(K) - 1)
             /\ \A k, l \in K : Rank(k) = Rank(l) => k = l
             /\ \A i \in 0..(Cardinality(K) - 1) : \E k \in K : Rank(k) = i
<1>. DEFINE Under(k) == {j \in K : j < k}
            Rank(k) == Cardinality(Under(k))
            n == Cardinality(K)
<1>1. n \in Nat
  BY FS_CardinalityType
<1>2. ASSUME NEW k \in K
      PROVE  IsFiniteSet(Under(k)) /\ Rank(k) \in 0..(n - 1)
  <2>1. Under(k) \in SUBSET K /\ k \in K /\ k \notin Under(k)
    OBVIOUS
  <2>. HIDE DEF Under
  <2>2. IsFiniteSet(Under(k)) /\ Rank(k) <= n /\ (n = Rank(k) => K = Under(k))
    BY <2>1, FS_Subset
  <2>3. Rank(k) \in Nat
    BY <2>2, FS_CardinalityType
  <2>. QED  BY <1>1, <2>1, <2>2, <2>3
<1>3. ASSUME NEW k \in K, NEW l \in K, k < l  PROVE Rank(k) < Rank(l)
  <2>1. Under(k) \in SUBSET Under(l) /\ k \in Under(l) /\ k \notin Under(k)
    <3>1. k \in Nat /\ l \in Nat /\ \A j \in K : j \in Nat
      OBVIOUS
    <3>2. \A j \in K : j < k => j < l
      BY <1>3, <3>1
    <3>3. k \in Under(l) /\ k \notin Under(k)
      BY <1>3, <3>1
    <3>. QED  BY <3>2, <3>3
  <2>2. IsFiniteSet(Under(l)) /\ Rank(k) \in Nat /\ Rank(l) \in Nat
    BY <1>1, <1>2
  <2>. HIDE DEF Under
  <2>3. Rank(k) <= Rank(l) /\ (Rank(l) = Rank(k) => Under(l) = Under(k))
    BY <2>1, <2>2, FS_Subset
  <2>. QED  BY <2>1, <2>2, <2>3
<1>4. \A k, l \in K : Rank(k) = Rank(l) => k = l
  <2>1. \A k, l \in K : k < l \/ l < k \/ k = l
    OBVIOUS
  <2>2. \A k \in K : Rank(k) \in Nat
    BY <1>1, <1>2
  <2>. HIDE DEF Rank
  <2>. QED  BY <1>3, <2>1, <2>2
<1>5. \A i \in 0..(n - 1) : \E k \in K : Rank(k) = i
  <2>. DEFINE Places == 0..(n - 1)
              f == [k \in K |-> Rank(k)]
  <2>1. f \in Injection(K, Places)
    <3>. HIDE DEF Rank
    <3>. QED  BY <1>2, <1>4 DEF Injection, IsInjective
  <2>2. IsFiniteSet(Places) /\ Cardinality(Places) = n
    <3>1. IsFiniteSet(Places) /\ Cardinality(Places) = IF 0 > n - 1 THEN 0 ELSE n - 1 - 0 + 1
      BY <1>1, FS_Interval
    <3>. QED  BY <1>1, <3>1
  <2>3. f \in Surjection(K, Places)
    <3>. HIDE DEF Places, f
    <3>1. Cardinality(K) = Cardinality(Places) <=> f \in Surjection(K, Places)
      BY <2>1, <2>2, FS_Injection
    <3>. QED  BY <2>2, <3>1
  <2>. QED  BY <2>3 DEF Surjection
<1>. QED  BY <1>1, <1>2, <1>4, <1>5
=============================================================================
