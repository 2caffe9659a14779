---------------------------- MODULE FiniteLemmas ----------------------------
(***************************************************************************)
(* Facts about natural numbers and finite sets that several proofs use.    *)
(* The least number principle takes the place of induction.                *)
(***************************************************************************)
EXTENDS Integers, FiniteSets, FiniteSetTheorems, WellFoundedInduction, TLAPS

LessThan == OpToRel(<, Nat)

\* Every set of natural numbers that is not empty has a least element.
LEMMA LeastNat ==
  ASSUME NEW T \in SUBSET Nat, T # {}
  PROVE  \E x \in T : \A y \in T : x <= y
<1>1. IsWellFoundedOn(LessThan, Nat)
  BY NatLessThanWellFounded, Zenon DEF LessThan
<1>2. PICK x \in T : \A y \in T : ~(<<y, x>> \in LessThan)
  BY <1>1, WFMin
<1>3. \A y \in T : ~(y < x)
  BY <1>2 DEF LessThan, OpToRel
<1> QED
  BY <1>3

\* A finite set of natural numbers has an upper bound.
LEMMA FiniteIsBounded ==
  ASSUME NEW S \in SUBSET Nat, IsFiniteSet(S)
  PROVE  \E n \in Nat : \A x \in S : x <= n
<1> DEFINE Bounded(X) == \E n \in Nat : \A x \in X : x <= n
           Bad == {X \in SUBSET Nat : IsFiniteSet(X) /\ ~Bounded(X)}
           Sizes == {Cardinality(X) : X \in Bad}
<1> SUFFICES ASSUME S \in Bad PROVE FALSE
  OBVIOUS
<1>1. \A X \in Bad : Cardinality(X) \in Nat
  BY FS_CardinalityType
<1>2. Sizes \in SUBSET Nat /\ Sizes # {}
  BY <1>1
<1> HIDE DEF Sizes
<1>3. PICK k \in Sizes : \A y \in Sizes : k <= y
  BY <1>2, LeastNat
<1>4. PICK X \in Bad : k = Cardinality(X)
  BY <1>3 DEF Sizes
<1>5. X # {}
  BY <1>4
<1>6. PICK x \in X : TRUE
  BY <1>5
<1>7. /\ IsFiniteSet(X \ {x}) /\ Cardinality(X \ {x}) = Cardinality(X) - 1
      /\ Cardinality(X) \in Nat /\ X \ {x} \in SUBSET Nat
  BY <1>1, <1>4, <1>6, FS_RemoveElement
<1>8. Bounded(X \ {x})
  <2> SUFFICES ASSUME ~Bounded(X \ {x}) PROVE FALSE
    OBVIOUS
  <2>1. X \ {x} \in Bad
    BY <1>7
  <2>2. Cardinality(X \ {x}) \in Sizes
    BY <2>1 DEF Sizes
  <2> QED
    BY <1>3, <1>4, <1>7, <2>2
<1>9. PICK n \in Nat : \A y \in X \ {x} : y <= n
  BY <1>8
<1>10. x \in Nat
  BY <1>4, <1>6
<1>11. \E m \in Nat : m >= n /\ m >= x
  BY <1>10
<1>12. Bounded(X)
  BY <1>4, <1>9, <1>10, <1>11
<1> QED
  BY <1>4, <1>12

\* A finite set of natural numbers that is not empty has a greatest element.
LEMMA FiniteHasGreatest ==
  ASSUME NEW S \in SUBSET Nat, IsFiniteSet(S), S # {}
  PROVE  \E x \in S : \A y \in S : x >= y
<1>1. PICK n \in Nat : \A x \in S : x <= n
  BY FiniteIsBounded
<1> DEFINE T == {n - x : x \in S}
<1>2. T \in SUBSET Nat /\ T # {}
  <2>1. \A x \in S : n - x \in Nat
    BY <1>1
  <2>2. PICK x \in S : TRUE
    OBVIOUS
  <2>3. n - x \in T
    BY <2>2
  <2>4. \A y \in T : y \in Nat
    BY <2>1
  <2> QED
    BY <2>3, <2>4
<1>3. PICK k \in T : \A y \in T : k <= y
  BY <1>2, LeastNat
<1>4. PICK x \in S : k = n - x
  BY <1>3
<1>5. \A y \in S : n - x <= n - y
  <2> TAKE y \in S
  <2>1. n - y \in T
    OBVIOUS
  <2> HIDE DEF T
  <2> QED
    BY <1>3, <1>4, <2>1
<1> QED
  BY <1>4, <1>5

\* In a finite set of natural numbers, every rank up to the size is some
\* element's.
LEMMA RankOnto ==
  ASSUME NEW S \in SUBSET Nat, IsFiniteSet(S), NEW i \in 1..Cardinality(S)
  PROVE  \E d \in S : Cardinality({e \in S : e < d}) = i - 1
<1> DEFINE Has(X, j) == \E d \in X : Cardinality({e \in X : e < d}) = j - 1
           Bad == {X \in SUBSET Nat : IsFiniteSet(X) /\ \E j \in 1..Cardinality(X) : ~Has(X, j)}
           Sizes == {Cardinality(X) : X \in Bad}
<1> SUFFICES ASSUME S \in Bad PROVE FALSE
  OBVIOUS
<1>1. \A X \in Bad : Cardinality(X) \in Nat
  BY FS_CardinalityType
<1>2. Sizes \in SUBSET Nat /\ Sizes # {}
  BY <1>1
<1> HIDE DEF Sizes
<1>3. PICK k \in Sizes : \A y \in Sizes : k <= y
  BY <1>2, LeastNat
<1>4. PICK X \in Bad : k = Cardinality(X)
  BY <1>3 DEF Sizes
<1>5. PICK j \in 1..Cardinality(X) : ~Has(X, j)
  BY <1>4
<1>6. X \in SUBSET Nat /\ IsFiniteSet(X) /\ Cardinality(X) \in Nat /\ X # {}
  BY <1>1, <1>4, <1>5, FS_EmptySet
<1>7. PICK g \in X : \A y \in X : y <= g
  BY <1>6, FiniteHasGreatest
<1> DEFINE Y == X \ {g}
<1>8. /\ IsFiniteSet(Y) /\ Cardinality(Y) = Cardinality(X) - 1 /\ Y \in SUBSET Nat
  BY <1>6, <1>7, FS_RemoveElement
<1>9. {e \in X : e < g} = Y
  <2>1. \A e \in X : e < g <=> e # g
    <3> HIDE DEF Bad
    <3> QED
      BY <1>6, <1>7
  <2> QED
    BY <2>1
<1>10. CASE j = Cardinality(X)
  BY <1>5, <1>7, <1>8, <1>9, <1>10
<1>11. CASE j # Cardinality(X)
  <2>1. j \in 1..Cardinality(Y)
    BY <1>5, <1>6, <1>8, <1>11
  <2>2. Has(Y, j)
    <3> SUFFICES ASSUME ~Has(Y, j) PROVE FALSE
      OBVIOUS
    <3>1. Y \in Bad
      BY <1>8, <2>1
    <3>2. Cardinality(Y) \in Sizes
      BY <3>1 DEF Sizes
    <3> QED
      BY <1>3, <1>4, <1>6, <1>8, <3>2
  <2>3. PICK d \in Y : Cardinality({e \in Y : e < d}) = j - 1
    BY <2>2
  <2>4. {e \in Y : e < d} = {e \in X : e < d}
    BY <1>6, <1>7, <2>3
  <2> QED
    BY <1>5, <2>3, <2>4
<1> QED
  BY <1>10, <1>11

\* Ranks are natural numbers below the size, and grow with the elements.
LEMMA RankFacts ==
  ASSUME NEW S \in SUBSET Nat, IsFiniteSet(S), NEW d \in S
  PROVE  /\ Cardinality({e \in S : e < d}) \in Nat
         /\ Cardinality({e \in S : e < d}) < Cardinality(S)
         /\ \A g \in S : d < g =>
              Cardinality({e \in S : e < d}) < Cardinality({e \in S : e < g})
<1> DEFINE R(x) == {e \in S : e < x}
<1>1. ASSUME NEW T \in SUBSET S, R(d) \subseteq T, d \in T
      PROVE  Cardinality(R(d)) < Cardinality(T) /\ Cardinality(R(d)) \in Nat
  <2>1. IsFiniteSet(T) /\ IsFiniteSet(T \ {d})
    BY FS_Subset
  <2>2. R(d) \subseteq T \ {d}
    BY <1>1
  <2>3. IsFiniteSet(R(d)) /\ Cardinality(R(d)) <= Cardinality(T \ {d})
    BY <2>1, <2>2, FS_Subset
  <2>4. Cardinality(T \ {d}) = Cardinality(T) - 1
    BY <1>1, <2>1, FS_RemoveElement
  <2>5. Cardinality(R(d)) \in Nat /\ Cardinality(T) \in Nat
    BY <2>1, <2>3, FS_CardinalityType
  <2> QED
    BY <2>3, <2>4, <2>5
<1>2. Cardinality(R(d)) < Cardinality(S) /\ Cardinality(R(d)) \in Nat
  BY <1>1
<1>3. ASSUME NEW g \in S, d < g PROVE Cardinality(R(d)) < Cardinality(R(g))
  <2>1. \A e \in S : e < d => e < g
    <3> TAKE e \in S
    <3>1. e \in Nat /\ d \in Nat /\ g \in Nat
      BY <1>3
    <3> QED
      BY <1>3, <3>1
  <2>2. R(g) \in SUBSET S /\ R(d) \subseteq R(g) /\ d \in R(g)
    BY <1>3, <2>1
  <2> QED
    BY <1>1, <2>2
<1> QED
  BY <1>2, <1>3

\* The first few elements of a finite set of natural numbers are as many as
\* asked for, unless they are all.
LEMMA FirstFew ==
  ASSUME NEW S \in SUBSET Nat, IsFiniteSet(S), NEW L \in Nat,
         NEW d \in S, Cardinality({e \in S : e < d}) >= L
  PROVE  Cardinality({b \in S : Cardinality({e \in S : e < b}) < L}) = L
<1> DEFINE rank(x) == Cardinality({e \in S : e < x})
<1>1. \A x \in S : rank(x) \in Nat /\ rank(x) < Cardinality(S)
  BY RankFacts
<1>2. Cardinality(S) \in Nat /\ L + 1 \in 1..Cardinality(S)
  BY <1>1, FS_CardinalityType
<1>3. PICK g \in S : rank(g) = (L + 1) - 1
  BY <1>2, RankOnto
<1>4. \A x, y \in S : x < y => rank(x) < rank(y)
  BY RankFacts
<1>5. \A x \in S : rank(x) < L <=> x < g
  <2> HIDE DEF rank
  <2> SUFFICES ASSUME NEW x \in S PROVE rank(x) < L <=> x < g
    OBVIOUS
  <2>1. x \in Nat /\ g \in Nat
    OBVIOUS
  <2>2. CASE x < g
    BY <1>1, <1>3, <1>4, <2>2
  <2>3. CASE g < x
    BY <1>1, <1>3, <1>4, <2>1, <2>3
  <2>4. CASE g = x
    BY <1>1, <1>3, <2>4
  <2> QED
    BY <2>1, <2>2, <2>3, <2>4
<1>6. {b \in S : rank(b) < L} = {e \in S : e < g}
  BY <1>5
<1>7. rank(g) = L
  BY <1>3
<1> QED
  BY <1>6, <1>7
=============================================================================
