------------------------- MODULE SubsequenceProofs -------------------------
(***************************************************************************)
(* What the part of a sequence at some of its positions is: a sequence of  *)
(* the elements there, each once.                                          *)
(***************************************************************************)
EXTENDS Subsequences, SequencesExt, FiniteSetTheorems, WellFoundedInduction, TLAPS

-----------------------------------------------------------------------------
(* Numbers and their ranks.                                                *)

\* A set of natural numbers has a least one.
LEMMA Least ==
  ASSUME NEW T \in SUBSET Nat, T # {}
  PROVE  \E n \in T : \A m \in T : n <= m
<1> DEFINE R == OpToRel(<, Nat)
<1>1. IsWellFoundedOn(R, Nat)
  BY NatLessThanWellFounded
<1>2. \A x, y \in Nat : <<x, y>> \in R <=> x < y
  BY DEF OpToRel
<1> HIDE DEF R
<1>3. PICK x \in T : \A y \in T : ~ (<<y, x>> \in R)
  BY <1>1, WFMin
<1>4. ASSUME NEW y \in T
      PROVE  x <= y
  <2>1. x \in Nat /\ y \in Nat /\ ~ (y < x)
    BY <1>2, <1>3
  <2> QED
    BY <2>1
<1> QED
  BY <1>4

\* The numbers of P up to i.
Below(P, i) == {j \in P : j <= i}

Rank(P, i) == Cardinality(Below(P, i))

LEMMA RankIsNumber ==
  ASSUME NEW P \in SUBSET Nat, IsFiniteSet(P), NEW i \in P
  PROVE  Rank(P, i) \in 1 .. Cardinality(P)
<1>1. Below(P, i) \in SUBSET P /\ i \in Below(P, i)
  BY DEF Below
<1>2. IsFiniteSet(Below(P, i)) /\ Cardinality(Below(P, i)) <= Cardinality(P)
  BY <1>1, FS_Subset
<1>3. Cardinality(Below(P, i)) \in Nat /\ Cardinality(P) \in Nat
  BY <1>2, FS_CardinalityType
<1>4. Cardinality(Below(P, i)) # 0
  BY <1>1, <1>2, FS_EmptySet
<1> QED
  BY <1>2, <1>3, <1>4 DEF Rank

LEMMA RankGrows ==
  ASSUME NEW P \in SUBSET Nat, IsFiniteSet(P), NEW i \in P, NEW j \in P, i < j
  PROVE  Rank(P, i) < Rank(P, j)
<1>1. Below(P, i) \in SUBSET Below(P, j) /\ j \in Below(P, j) /\ j \notin Below(P, i)
  <2>1. \A m \in P : m \in Nat
    OBVIOUS
  <2>2. i \in Nat /\ j \in Nat
    BY <2>1
  <2>3. \A m \in P : m <= i => m <= j
    BY <2>1, <2>2
  <2>4. ~ (j <= i) /\ j <= j
    BY <2>2
  <2> QED
    BY <2>3, <2>4 DEF Below
<1>2. IsFiniteSet(Below(P, j))
  <2>1. Below(P, j) \in SUBSET P
    BY DEF Below
  <2> QED
    BY <2>1, FS_Subset
<1>3. Cardinality(Below(P, i)) <= Cardinality(Below(P, j))
  BY <1>1, <1>2, FS_Subset
<1>4. Cardinality(Below(P, i)) # Cardinality(Below(P, j))
  BY <1>1, <1>2, FS_Subset
<1>5. Rank(P, i) \in Nat /\ Rank(P, j) \in Nat
  BY RankIsNumber
<1> QED
  BY <1>3, <1>4, <1>5 DEF Rank

\* Nth is the inverse of Rank.
LEMMA NthHasRank ==
  ASSUME NEW P \in SUBSET Nat, IsFiniteSet(P)
  PROVE  /\ \A k \in 1 .. Cardinality(P) : Nth(P, k) \in P /\ Rank(P, Nth(P, k)) = k
         /\ \A i \in P : Nth(P, Rank(P, i)) = i
<1> DEFINE n == Cardinality(P)
           rank == [i \in P |-> Rank(P, i)]
<1>1. n \in Nat
  BY FS_CardinalityType
<1>2. \A i, j \in P : Rank(P, i) = Rank(P, j) => i = j
  <2> SUFFICES ASSUME NEW i \in P, NEW j \in P, i # j
               PROVE  Rank(P, i) # Rank(P, j)
    OBVIOUS
  <2>1. i < j \/ j < i
    OBVIOUS
  <2>2. Rank(P, i) \in Nat /\ Rank(P, j) \in Nat
    BY RankIsNumber
  <2>3. Rank(P, i) < Rank(P, j) \/ Rank(P, j) < Rank(P, i)
    BY <2>1, RankGrows
  <2> QED
    BY <2>2, <2>3
<1>3. rank \in [P -> 1 .. n]
  BY RankIsNumber
<1>4. rank \in Injection(P, 1 .. n)
  BY <1>2, <1>3 DEF Injection, IsInjective
<1>5. IsFiniteSet(1 .. n) /\ Cardinality(1 .. n) = n
  <2> HIDE DEF n
  <2> QED
    BY <1>1, FS_Interval
<1>6. rank \in Surjection(P, 1 .. n)
  BY <1>4, <1>5, FS_Injection
<1>7. \A k \in 1 .. n : \E i \in P : Rank(P, i) = k
  BY <1>6 DEF Surjection
<1>8. \A k : Nth(P, k) = CHOOSE i \in P : Rank(P, i) = k
  BY DEF Nth, Rank, Below
<1>9. \A k \in 1 .. n : Nth(P, k) \in P /\ Rank(P, Nth(P, k)) = k
  BY <1>7, <1>8
<1>10. ASSUME NEW i \in P
       PROVE  Nth(P, Rank(P, i)) = i
  <2>1. Rank(P, i) \in 1 .. n
    BY RankIsNumber
  <2> QED
    BY <2>1, <1>2, <1>9
<1> QED
  BY <1>9, <1>10

-----------------------------------------------------------------------------
(* Sequences.                                                              *)

\* A subsequence has just the elements at its positions, each once.
LEMMA SubsequenceIsPart ==
  ASSUME NEW S, NEW s \in Seq(S), NEW P \in SUBSET DOMAIN s
  PROVE  LET t == Subsequence(s, P)
         IN  /\ t \in Seq(S)
             /\ Len(t) <= Len(s)
             /\ ToSet(t) = {s[i] : i \in P}
             /\ (\A i, j \in P : s[i] = s[j] => i = j) =>
                  \A k, l \in DOMAIN t : t[k] = t[l] => k = l
<1> DEFINE t == Subsequence(s, P)
           n == Cardinality(P)
<1>1. DOMAIN s = 1 .. Len(s) /\ Len(s) \in Nat
  OBVIOUS
<1>2. IsFiniteSet(1 .. Len(s)) /\ Cardinality(1 .. Len(s)) = Len(s)
  <2>1. \A m \in Nat : IsFiniteSet(1 .. m) /\ Cardinality(1 .. m) = m
    BY FS_Interval
  <2> QED
    BY <1>1, <2>1
<1>3. IsFiniteSet(P) /\ n \in Nat /\ n <= Len(s)
  BY <1>1, <1>2, FS_Subset, FS_CardinalityType
<1>4. P \in SUBSET Nat
  BY <1>1
<1>5. /\ \A k \in 1 .. n : Nth(P, k) \in P /\ Rank(P, Nth(P, k)) = k
      /\ \A i \in P : Nth(P, Rank(P, i)) = i /\ Rank(P, i) \in 1 .. n
  BY <1>3, <1>4, NthHasRank, RankIsNumber
<1>6. t = [k \in 1 .. n |-> s[Nth(P, k)]]
  BY DEF Subsequence
<1> HIDE DEF t, n
<1>7. t \in [1 .. n -> S]
  BY <1>1, <1>5, <1>6
<1>8. t \in Seq(S) /\ Len(t) = n /\ DOMAIN t = 1 .. n
  BY <1>3, <1>7
<1>9. ToSet(t) = {s[i] : i \in P}
  <2>1. ASSUME NEW k \in 1 .. n
        PROVE  t[k] \in {s[i] : i \in P}
    BY <1>5, <1>6
  <2>2. ASSUME NEW i \in P
        PROVE  s[i] \in ToSet(t)
    <3>1. Rank(P, i) \in 1 .. n /\ t[Rank(P, i)] = s[i]
      BY <1>5, <1>6
    <3> QED
      BY <3>1, <1>8 DEF ToSet
  <2> QED
    BY <2>1, <2>2, <1>8 DEF ToSet
<1>10. ASSUME \A i, j \in P : s[i] = s[j] => i = j, NEW k \in DOMAIN t, NEW l \in DOMAIN t,
              t[k] = t[l]
       PROVE  k = l
  <2>1. s[Nth(P, k)] = s[Nth(P, l)] /\ Nth(P, k) \in P /\ Nth(P, l) \in P
    BY <1>5, <1>6, <1>8, <1>10
  <2>2. Nth(P, k) = Nth(P, l)
    BY <2>1, <1>10
  <2> QED
    BY <2>2, <1>5, <1>8
<1> QED
  BY <1>3, <1>8, <1>9, <1>10 DEF t

\* At all of its positions it is the sequence itself.
LEMMA SubsequenceOfAll ==
  ASSUME NEW S, NEW s \in Seq(S)
  PROVE  Subsequence(s, DOMAIN s) = s
<1> DEFINE n == Len(s)
<1>1. n \in Nat /\ DOMAIN s = 1 .. n
  OBVIOUS
<1> HIDE DEF n
<1>2. \A i \in 1 .. n : {j \in 1 .. n : j <= i} = 1 .. i
  BY <1>1
<1>3. ASSUME NEW i \in Nat
      PROVE  Cardinality(1 .. i) = i
  BY FS_Interval
<1>4. \A i \in 1 .. n : Cardinality({j \in 1 .. n : j <= i}) = i
  <2> SUFFICES ASSUME NEW i \in 1 .. n
               PROVE  Cardinality({j \in 1 .. n : j <= i}) = i
    OBVIOUS
  <2>1. i \in Nat /\ {j \in 1 .. n : j <= i} = 1 .. i
    BY <1>1, <1>2
  <2> QED
    BY <1>3, <2>1
<1>5. \A k \in 1 .. n : Nth(1 .. n, k) = k
  BY <1>4 DEF Nth
<1>6. Cardinality(1 .. n) = n
  BY <1>1, <1>3
<1>7. Subsequence(s, DOMAIN s) = [k \in 1 .. n |-> s[Nth(1 .. n, k)]]
  BY <1>1, <1>6 DEF Subsequence
<1>8. Subsequence(s, DOMAIN s) = [k \in 1 .. n |-> s[k]]
  BY <1>5, <1>7
<1> QED
  BY <1>1, <1>8 DEF n

\* It is the same of a window of the sequence that has all those positions.
LEMMA SubsequenceOfWindow ==
  ASSUME NEW S, NEW s \in Seq(S), NEW t \in Seq(S), NEW d \in Nat,
         NEW P \in SUBSET DOMAIN s, NEW Q \in SUBSET DOMAIN t,
         \A k \in DOMAIN t : k + d \in DOMAIN s /\ t[k] = s[k + d],
         \A k \in DOMAIN t : k \in Q <=> k + d \in P,
         \A i \in P : \E k \in DOMAIN t : i = k + d
  PROVE  Subsequence(t, Q) = Subsequence(s, P)
<1> DEFINE up == [k \in Q |-> k + d]
<1>1. /\ DOMAIN s = 1 .. Len(s) /\ Len(s) \in Nat /\ DOMAIN t = 1 .. Len(t) /\ Len(t) \in Nat
      /\ P \in SUBSET Nat /\ Q \in SUBSET Nat
  OBVIOUS
<1>2. IsFiniteSet(P) /\ IsFiniteSet(Q)
  <2>1. IsFiniteSet(1 .. Len(s)) /\ IsFiniteSet(1 .. Len(t))
    BY <1>1, FS_Interval
  <2> QED
    BY <1>1, <2>1, FS_Subset
<1>3. \A k \in Q : k + d \in P
  OBVIOUS
<1>4. \A i \in P : \E k \in Q : i = k + d
  OBVIOUS
<1>5. Cardinality(P) = Cardinality(Q)
  <2>1. up \in Bijection(Q, P)
    BY <1>1, <1>3, <1>4 DEF Bijection, Injection, Surjection, IsInjective
  <2>2. ExistsBijection(Q, P)
    BY <2>1 DEF ExistsBijection
  <2> QED
    BY <1>2, <2>2, FS_Bijection
<1>6. ASSUME NEW k \in Q
      PROVE  Rank(P, k + d) = Rank(Q, k)
  <2> DEFINE f == [j \in Below(Q, k) |-> j + d]
  <2>1. ASSUME NEW j \in Below(Q, k)
        PROVE  j + d \in Below(P, k + d)
    <3>1. j \in Q /\ j <= k /\ j \in Nat /\ k \in Nat /\ j + d \in P
      BY <1>1, <1>3 DEF Below
    <3>2. j + d <= k + d
      BY <3>1
    <3> QED
      BY <3>1, <3>2 DEF Below
  <2>2. ASSUME NEW i \in Below(P, k + d)
        PROVE  \E j \in Below(Q, k) : i = j + d
    <3>1. i \in P /\ i <= k + d
      BY DEF Below
    <3>2. PICK j \in Q : i = j + d
      BY <1>4, <3>1
    <3>3. j <= k
      <4>1. j \in Nat /\ k \in Nat /\ j + d <= k + d
        BY <1>1, <3>1, <3>2
      <4> QED
        BY <4>1
    <3> QED
      BY <3>2, <3>3 DEF Below
  <2>3. \A i, j \in Below(Q, k) : i + d = j + d => i = j
    BY <1>1 DEF Below
  <2>4. f \in Bijection(Below(Q, k), Below(P, k + d))
    BY <2>1, <2>2, <2>3 DEF Bijection, Injection, Surjection, IsInjective
  <2>5. IsFiniteSet(Below(Q, k))
    <3>1. Below(Q, k) \in SUBSET Q
      BY DEF Below
    <3> QED
      BY <1>2, <3>1, FS_Subset
  <2>6. ExistsBijection(Below(Q, k), Below(P, k + d))
    BY <2>4 DEF ExistsBijection
  <2> QED
    BY <2>5, <2>6, FS_Bijection DEF Rank
<1>7. ASSUME NEW k \in 1 .. Cardinality(P)
      PROVE  t[Nth(Q, k)] = s[Nth(P, k)]
  <2>1. Nth(Q, k) \in Q /\ Rank(Q, Nth(Q, k)) = k
    BY <1>1, <1>2, <1>5, NthHasRank
  <2>2. Nth(Q, k) + d \in P /\ Rank(P, Nth(Q, k) + d) = k
    BY <1>3, <1>6, <2>1
  <2>3. Nth(P, k) = Nth(Q, k) + d
    BY <1>1, <1>2, <2>2, NthHasRank
  <2> QED
    BY <2>1, <2>3
<1> QED
  BY <1>5, <1>7 DEF Subsequence
=============================================================================
