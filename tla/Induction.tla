----------------------------- MODULE Induction -----------------------------
(***************************************************************************)
(* Induction over numbers and finite sets, in a form without operator      *)
(* parameters: what is proved for all of them is the set of those for      *)
(* which it holds.                                                         *)
(***************************************************************************)
EXTENDS Integers, FiniteSets, FiniteSetTheorems, WellFoundedInduction, TLAPS

\* A set with 0 and the successor of each of its numbers has all numbers.
LEMMA NumberInduction ==
    ASSUME NEW S, 0 \in S, \A n \in Nat : n \in S => n + 1 \in S
    PROVE  \A n \in Nat : n \in S
  <1> DEFINE T == Nat \ S
             R == OpToRel(<, Nat)
  <1> SUFFICES ASSUME T # {} PROVE FALSE
    OBVIOUS
  <1>1. PICK x \in T : \A y \in T : ~ (<<y, x>> \in R)
    <2>1. IsWellFoundedOn(R, Nat)
      BY NatLessThanWellFounded
    <2>2. T \subseteq Nat
      OBVIOUS
    <2> HIDE DEF T, R
    <2> QED
      BY <2>1, <2>2, WFMin
  <1>2. x # 0 /\ x - 1 \in Nat /\ x - 1 < x
    OBVIOUS
  <1>3. <<x - 1, x>> \in R
    BY <1>2 DEF OpToRel
  <1>4. x - 1 \in S
    BY <1>1, <1>2, <1>3
  <1>5. (x - 1) + 1 \in S
    BY <1>4, <1>2
  <1> QED
    BY <1>5

\* A set of subsets with the empty one, that is closed under adding an
\* element, has the whole set.
LEMMA SetInduction ==
    ASSUME NEW X, IsFiniteSet(X), NEW F, {} \in F,
           \A S \in SUBSET X, x \in X :
             S \in F /\ x \notin S => S \cup {x} \in F
    PROVE  X \in F
  <1> DEFINE Of(n) == \A S \in SUBSET X : Cardinality(S) = n => S \in F
             N == {n \in Nat : Of(n)}
  <1>1. 0 \in N
    <2> SUFFICES ASSUME NEW S \in SUBSET X, Cardinality(S) = 0 PROVE S \in F
      OBVIOUS
    <2>1. S = {}
      BY FS_Subset, FS_EmptySet
    <2> QED
      BY <2>1
  <1>2. ASSUME NEW n \in Nat, n \in N PROVE n + 1 \in N
    <2> SUFFICES ASSUME NEW S \in SUBSET X, Cardinality(S) = n + 1 PROVE S \in F
      OBVIOUS
    <2>1. IsFiniteSet(S) /\ S # {}
      BY FS_Subset, FS_EmptySet
    <2>2. PICK x \in S : TRUE
      BY <2>1
    <2>3. Cardinality(S \ {x}) = Cardinality(S) - 1
      BY <2>1, FS_RemoveElement
    <2>4. Cardinality(S \ {x}) = n
      BY <2>3
    <2>5. S \ {x} \in F
      BY <1>2, <2>4
    <2>6. (S \ {x}) \cup {x} = S
      OBVIOUS
    <2> QED
      BY <2>5, <2>6
  <1>3. \A n \in Nat : n \in N
    <2> HIDE DEF N
    <2> QED
      BY <1>1, <1>2, NumberInduction
  <1>4. Cardinality(X) \in Nat
    BY FS_CardinalityType
  <1> QED
    BY <1>3, <1>4

-----------------------------------------------------------------------------
(* Counting *)

\* A set with an element more, or less, has one element more, or less.
LEMMA OneMore ==
    ASSUME NEW S, IsFiniteSet(S), NEW x, x \notin S
    PROVE  /\ IsFiniteSet(S \cup {x})
           /\ Cardinality(S \cup {x}) = Cardinality(S) + 1
  BY FS_AddElement

\* The places of a sequence count the same when they are moved.
LEMMA Moved ==
    ASSUME NEW S, IsFiniteSet(S), S \subseteq Int, NEW d \in Int
    PROVE  /\ IsFiniteSet({i + d : i \in S})
           /\ Cardinality({i + d : i \in S}) = Cardinality(S)
  <1> DEFINE T == {i + d : i \in S}
             f == [i \in S |-> i + d]
  <1>1. f \in [S -> T]
    OBVIOUS
  <1>2. \A i, j \in S : f[i] = f[j] => i = j
    OBVIOUS
  <1>3. \A j \in T : \E i \in S : f[i] = j
    OBVIOUS
  <1>4. f \in Bijection(S, T)
    <2> HIDE DEF f, T
    <2> QED
      BY <1>1, <1>2, <1>3 DEF Bijection, Injection, Surjection, IsInjective
  <1>5. ExistsBijection(S, T)
    BY <1>4 DEF ExistsBijection
  <1> HIDE DEF T
  <1>6. IsFiniteSet(T) /\ Cardinality(T) = Cardinality(S)
    BY <1>5, FS_Bijection
  <1> QED
    BY <1>6 DEF T
=============================================================================
