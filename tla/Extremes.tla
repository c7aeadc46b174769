------------------------------ MODULE Extremes ------------------------------
(***************************************************************************)
(* Least and greatest numbers of a set: the elements that the code finds   *)
(* by going through a list from its front or its back, and the modules     *)
(* choose.  And the least sets that are closed under a relation, which it  *)
(* finds by following the relation.                                        *)
(***************************************************************************)
EXTENDS Integers, WellFoundedInduction, TLAPS

\* A set of numbers that is not empty has a least element.
LEMMA LeastExists ==
  ASSUME NEW S \in SUBSET Nat, S # {}
  PROVE  \E i \in S : \A j \in S : i <= j
<1>1. PICK i \in S : \A j \in S : ~ (<<j, i>> \in OpToRel(<, Nat))
  BY WFMin, NatLessThanWellFounded, Zenon
<1>2. ASSUME NEW j \in S, j < i PROVE FALSE
  <2>1. <<j, i>> \in OpToRel(<, Nat)
    BY <1>2 DEF OpToRel
  <2> QED
    BY <1>1, <2>1
<1> QED
  BY <1>2

\* A set of the indices of a sequence has a greatest element.
LEMMA GreatestExists ==
  ASSUME NEW n \in Nat, NEW S \in SUBSET (1..n), S # {}
  PROVE  \E i \in S : \A j \in S : j <= i
<1> DEFINE T == {n - i : i \in S}
<1>1. T \in SUBSET Nat /\ T # {}
  OBVIOUS
<1>2. PICK k \in T : \A j \in T : k <= j
  BY <1>1, LeastExists
<1>3. PICK i \in S : k = n - i
  OBVIOUS
<1>4. ASSUME NEW j \in S PROVE j <= i
  <2>1. n - i <= n - j
    BY <1>2, <1>3
  <2> QED
    BY <2>1
<1> QED
  BY <1>4

\* It has one greatest element.
LEMMA GreatestIs ==
  ASSUME NEW S \in SUBSET Int, NEW i \in S, \A j \in S : j <= i
  PROVE  (CHOOSE g \in S : \A j \in S : j <= g) = i
<1> DEFINE g == CHOOSE g \in S : \A j \in S : j <= g
<1>1. g \in S /\ \A j \in S : j <= g
  OBVIOUS
<1> HIDE DEF g
<1>2. g <= i /\ i <= g /\ g \in Int /\ i \in Int
  BY <1>1
<1>3. g = i
  BY <1>2
<1> QED
  BY <1>3 DEF g

\* The least subset of D with base and with whatever of D has in A one of it.
Least(D, A, base) ==
    {c \in D : \A S \in SUBSET D :
       (\A x \in D : x \in base \/ A[x] \intersect S # {} => x \in S) => c \in S}

\* It has base, is closed, and has nothing else.
LEMMA LeastFacts ==
  ASSUME NEW D, NEW A, NEW base
  PROVE  /\ \A c \in D : c \in base => c \in Least(D, A, base)
         /\ \A c \in D : A[c] \intersect Least(D, A, base) # {} => c \in Least(D, A, base)
         /\ \A c \in Least(D, A, base) : c \in D /\ (c \in base \/ A[c] \intersect Least(D, A, base) # {})
<1>1. \A c \in D : c \in base => c \in Least(D, A, base)
  BY DEF Least
<1>2. ASSUME NEW c \in D, A[c] \intersect Least(D, A, base) # {} PROVE c \in Least(D, A, base)
  <2>1. PICK y \in A[c] : y \in Least(D, A, base)
    BY <1>2
  <2> QED
    BY <2>1 DEF Least
<1>3. ASSUME NEW c \in Least(D, A, base), c \notin base, A[c] \intersect Least(D, A, base) = {} PROVE FALSE
  <2>1. PICK S : S = Least(D, A, base) \ {c}
    OBVIOUS
  <2>2. S \in SUBSET D /\ c \in D /\ c \notin S
    BY <2>1 DEF Least
  <2>3. ASSUME NEW x \in D, x \in base \/ A[x] \intersect S # {} PROVE x \in S
    <3>1. x \in Least(D, A, base)
      <4>1. A[x] \intersect S # {} => A[x] \intersect Least(D, A, base) # {}
        BY <2>1
      <4> QED
        BY <1>1, <1>2, <2>3, <4>1
    <3>2. x # c
      BY <1>3, <2>1, <2>3
    <3> QED
      BY <2>1, <3>1, <3>2
  <2> QED
    BY <2>2, <2>3 DEF Least
<1>4. \A c \in Least(D, A, base) : c \in D
  BY DEF Least
<1> QED
  BY <1>1, <1>2, <1>3, <1>4

\* What is added to D on top of it changes nothing below.
LEMMA LeastStays ==
  ASSUME NEW D, NEW E, NEW A, NEW B, NEW base, NEW basf, D \subseteq E,
         \A x \in D : B[x] = A[x] /\ A[x] \subseteq D /\ (x \in basf <=> x \in base)
  PROVE  \A c \in D : c \in Least(E, B, basf) <=> c \in Least(D, A, base)
<1>1. ASSUME NEW c \in D, c \in Least(E, B, basf), NEW S \in SUBSET D,
             \A x \in D : x \in base \/ A[x] \intersect S # {} => x \in S
      PROVE  c \in S
  <2>1. PICK T : T = S \union (E \ D)
    OBVIOUS
  <2>2. T \in SUBSET E
    BY <2>1
  <2>3. ASSUME NEW x \in E, x \in basf \/ B[x] \intersect T # {} PROVE x \in T
    <3>1. CASE x \notin D
      BY <2>1, <3>1
    <3>2. CASE x \in D
      <4>1. x \in base \/ A[x] \intersect S # {}
        BY <2>1, <2>3, <3>2
      <4> QED
        BY <1>1, <2>1, <3>2, <4>1
    <3> QED
      BY <3>1, <3>2
  <2>4. c \in T
    BY <1>1, <2>2, <2>3 DEF Least
  <2> QED
    BY <2>1, <2>4
<1>2. ASSUME NEW c \in D, c \in Least(D, A, base), NEW T \in SUBSET E,
             \A x \in E : x \in basf \/ B[x] \intersect T # {} => x \in T
      PROVE  c \in T
  <2>1. PICK S : S = T \intersect D
    OBVIOUS
  <2>2. S \in SUBSET D
    BY <2>1
  <2>3. ASSUME NEW x \in D, x \in base \/ A[x] \intersect S # {} PROVE x \in S
    <3>1. x \in basf \/ B[x] \intersect T # {}
      BY <2>1, <2>3
    <3> QED
      BY <1>2, <2>1, <3>1
  <2>4. c \in S
    BY <1>2, <2>2, <2>3 DEF Least
  <2> QED
    BY <2>1, <2>4
<1> QED
  BY <1>1, <1>2 DEF Least
=============================================================================
