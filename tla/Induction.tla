------------------------------ MODULE Induction ------------------------------
(***************************************************************************)
(* Induction as facts about sets, that no operator has to be given to: a   *)
(* set of numbers is given instead of the statement about them.  It follows *)
(* from the pigeonhole principle for finite sets.  Powers of two are counted *)
(* as subsets.                                                             *)
(***************************************************************************)
EXTENDS Integers, SequenceTheorems, FunctionTheorems, FiniteSetTheorems, TLAPS

\* A set that holds 0, and with a number the next one, holds all of them: up to
\* a number that it did not hold, adding one would map it into itself without 0.
LEMMA NaturalInduction ==
    ASSUME NEW G, 0 \in G, \A n \in Nat : n \in G => n + 1 \in G
    PROVE  \A n \in Nat : n \in G
<1>1. SUFFICES ASSUME NEW n \in Nat, n \notin G PROVE FALSE
  OBVIOUS
<1> DEFINE A == G \cap 0..n
           f == [k \in A |-> k + 1]
<1>2. IsFiniteSet(A)
  <2>1. IsFiniteSet(0..n)
    BY FS_Interval
  <2> QED
    BY <2>1, FS_Subset
<1>3. 0 \in A
  OBVIOUS
<1>4. IsFiniteSet(A \ {0}) /\ Cardinality(A \ {0}) = Cardinality(A) - 1
  BY <1>2, <1>3, FS_RemoveElement
<1>5. f \in [A -> A \ {0}]
  <2> SUFFICES ASSUME NEW k \in A PROVE k + 1 \in A \ {0}
    OBVIOUS
  <2>1. k \in Nat /\ k \in G /\ k <= n
    OBVIOUS
  <2>2. k + 1 \in G /\ k # n
    BY <1>1, <2>1
  <2> QED
    BY <2>1, <2>2
<1>6. Cardinality(A) \in Nat /\ Cardinality(A \ {0}) < Cardinality(A)
  BY <1>2, <1>4, FS_CardinalityType
<1>7. \E x, y \in A : x # y /\ f[x] = f[y]
  <2> HIDE DEF A, f
  <2> QED
    BY <1>2, <1>4, <1>5, <1>6, FS_PigeonHole
<1> QED
  BY <1>7

\* What is true of a number if it is true of all smaller ones is true of all.
LEMMA StrongInduction ==
    ASSUME NEW G, \A n \in Nat : (\A k \in 0..n - 1 : k \in G) => n \in G
    PROVE  \A n \in Nat : n \in G
<1> DEFINE H == {n \in Nat : \A k \in 0..n - 1 : k \in G}
<1>1. 0 \in H
  OBVIOUS
<1>2. \A n \in Nat : n \in H => n + 1 \in H
  <2> SUFFICES ASSUME NEW n \in Nat, n \in H PROVE n + 1 \in H
    OBVIOUS
  <2>1. n \in G
    OBVIOUS
  <2>2. \A k \in 0..n + 1 - 1 : k \in 0..n - 1 \/ k = n
    OBVIOUS
  <2> QED
    BY <2>1, <2>2
<1>3. \A n \in Nat : n \in H
  <2> HIDE DEF H
  <2> QED
    BY <1>1, <1>2, NaturalInduction
<1> QED
  BY <1>3

\* A set of numbers has a least one.
LEMMA LeastNatural ==
    ASSUME NEW T \in SUBSET Nat, T # {}
    PROVE  \E n \in T : \A m \in T : n <= m
<1>1. SUFFICES ASSUME \A n \in T : \E m \in T : m < n PROVE FALSE
  OBVIOUS
<1> DEFINE G == {n \in Nat : \A m \in T : n <= m}
<1>2. 0 \in G
  OBVIOUS
<1>3. ASSUME NEW n \in Nat, n \in G PROVE n + 1 \in G
  <2>1. n \notin T
    BY <1>1, <1>3
  <2> QED
    BY <1>3, <2>1
<1>4. \A n \in Nat : n \in G
  <2> HIDE DEF G
  <2> QED
    BY <1>2, <1>3, NaturalInduction
<1>5. PICK n \in T : TRUE
  OBVIOUS
<1>6. PICK m \in T : m < n
  BY <1>1
<1>7. \A k \in T : n <= k
  BY <1>4
<1> QED
  BY <1>6, <1>7

\* A statement about all sequences holds if it holds of the empty one and is kept
\* by Append.
LEMMA SequenceInduction ==
    ASSUME NEW S, NEW G, <<>> \in G,
           \A s \in Seq(S), e \in S : s \in G => Append(s, e) \in G
    PROVE  \A s \in Seq(S) : s \in G
<1> DEFINE H == {n \in Nat : \A s \in Seq(S) : Len(s) = n => s \in G}
<1>1. 0 \in H
  <2>1. \A s \in Seq(S) : Len(s) = 0 => s = <<>>
    BY EmptySeq
  <2> QED
    BY <2>1
<1>2. ASSUME NEW n \in Nat, n \in H PROVE n + 1 \in H
  <2> SUFFICES ASSUME NEW t \in Seq(S), Len(t) = n + 1 PROVE t \in G
    OBVIOUS
  <2>1. t # <<>>
    BY EmptySeq
  <2>2. PICK s \in Seq(S), e \in S : t = Append(s, e)
    BY <2>1, SequenceEmptyOrAppend
  <2>3. Len(s) = n
    BY <2>2, AppendProperties, LenProperties
  <2> QED
    BY <1>2, <2>2, <2>3
<1>3. \A n \in Nat : n \in H
  <2> HIDE DEF H
  <2> QED
    BY <1>1, <1>2, NaturalInduction
<1> QED
  BY <1>3, LenProperties

-----------------------------------------------------------------------------
\* Powers of two, which the provers do not know, count the subsets of a set.
LEMMA PowerCounts ==
    ASSUME NEW n \in Nat
    PROVE  2 ^ n = Cardinality(SUBSET (1..n)) /\ 2 ^ n \in Nat /\ IsFiniteSet(SUBSET (1..n))
<1>1. IsFiniteSet(1..n) /\ Cardinality(1..n) = n
  BY FS_Interval
<1>2. IsFiniteSet(SUBSET (1..n)) /\ Cardinality(SUBSET (1..n)) = 2 ^ n
  BY <1>1, FS_SUBSET
<1> QED
  BY <1>2, FS_CardinalityType

\* One element more doubles them: a subset either has it or not.
LEMMA PowerDoubles ==
    ASSUME NEW n \in Nat
    PROVE  2 ^ (n + 1) = 2 ^ n + 2 ^ n
<1> DEFINE S == SUBSET (1..n)
           T == {s \cup {n + 1} : s \in S}
           f == [s \in S |-> s \cup {n + 1}]
<1>1. IsFiniteSet(S) /\ Cardinality(S) = 2 ^ n
  BY PowerCounts
<1>2. IsFiniteSet(T) /\ Cardinality(T) = Cardinality(S)
  <2>1. \A s \in S : n + 1 \notin s
    OBVIOUS
  <2>2. f \in Bijection(S, T)
    <3>1. f \in [S -> T]
      OBVIOUS
    <3>2. \A s, t \in S : f[s] = f[t] => s = t
      <4> SUFFICES ASSUME NEW s \in S, NEW t \in S, f[s] = f[t] PROVE s = t
        OBVIOUS
      <4>1. s = f[s] \ {n + 1} /\ t = f[t] \ {n + 1}
        BY <2>1
      <4> QED
        BY <4>1
    <3>3. \A u \in T : \E s \in S : f[s] = u
      OBVIOUS
    <3> HIDE DEF S, T, f
    <3> QED
      BY <3>1, <3>2, <3>3, Fun_IsBij
  <2>3. ExistsBijection(S, T)
    BY <2>2 DEF ExistsBijection
  <2> HIDE DEF S, T, f
  <2> QED
    BY <1>1, <2>3, FS_Bijection
<1>3. S \cap T = {}
  OBVIOUS
<1>4. SUBSET (1..(n + 1)) = S \cup T
  <2>1. ASSUME NEW u \in SUBSET (1..(n + 1)) PROVE u \in S \cup T
    <3>1. CASE n + 1 \in u
      <4>1. u \ {n + 1} \in S /\ u = (u \ {n + 1}) \cup {n + 1}
        BY <3>1
      <4> QED
        BY <4>1
    <3>2. CASE n + 1 \notin u
      BY <3>2
    <3> QED
      BY <3>1, <3>2
  <2>2. ASSUME NEW u \in S \cup T PROVE u \in SUBSET (1..(n + 1))
    OBVIOUS
  <2> QED
    BY <2>1, <2>2
<1>5. 2 ^ (n + 1) = Cardinality(SUBSET (1..(n + 1)))
  BY PowerCounts
<1> HIDE DEF S, T
<1>6. Cardinality(S \cup T) = Cardinality(S) + Cardinality(T) - Cardinality(S \cap T)
  BY <1>1, <1>2, FS_Union
<1>7. Cardinality({}) = 0
  BY FS_EmptySet
<1>8. 2 ^ n \in Nat
  BY PowerCounts
<1> DEFINE p == 2 ^ n
           q == 2 ^ (n + 1)
<1>9. p \in Nat /\ Cardinality(S) = p /\ Cardinality(T) = p /\ Cardinality(S \cap T) = 0
  BY <1>1, <1>2, <1>3, <1>7, <1>8
<1>10. q = Cardinality(S \cup T)
  BY <1>4, <1>5
<1> HIDE DEF p, q
<1>11. q = p + p
  BY <1>6, <1>9, <1>10
<1> QED
  BY <1>11 DEF p, q

\* The first ones.
LEMMA SmallPowers == 2 ^ 0 = 1 /\ 2 ^ 1 = 2
  OBVIOUS
=============================================================================
