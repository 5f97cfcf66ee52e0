---------------------------- MODULE SumTheorems ----------------------------
(***************************************************************************)
(* Sums over finite sets, SumFunctionOnSet of the module Functions: their  *)
(* recursive equation, that they do not depend on the order in which the   *)
(* elements are taken, and their type.  The fold that defines them is a    *)
(* recursive function, so both that the function exists and that it is     *)
(* unique are proved first, by looking at a smallest counterexample.       *)
(***************************************************************************)
EXTENDS Integers, Functions, FiniteSetTheorems, WellFoundedInduction, TLAPS

\* The element the fold takes from a set, and what it computes from g.
Pick(s) == CHOOSE x \in s : TRUE
Value(f, g, s) == IF s = {} THEN 0 ELSE f[Pick(s)] + g[s \ {Pick(s)}]

\* g solves the fold's equation at s.
Solves(f, g, s) == g[s] = Value(f, g, s)

\* The fold's equation, solved at all subsets of S.
Fold(f, S) == CHOOSE g : g = [s \in SUBSET S |-> Value(f, g, s)]

\* A set that is not empty has the element the fold takes.
LEMMA PickType == ASSUME NEW s, s # {} PROVE Pick(s) \in s
BY DEF Pick

\* The sum is the fold's value.
LEMMA SumIsFold == ASSUME NEW f, NEW S PROVE SumFunctionOnSet(f, S) = Fold(f, S)[S]
BY DEF SumFunctionOnSet, FoldFunctionOnSet, MapThenFoldSet, Fold, Value, Pick

\* A set of natural numbers has a least element.
LEMMA NatMin ==
  ASSUME NEW T, T \subseteq Nat, T # {}
  PROVE  \E n \in T : \A m \in T : n <= m
<1>1. PICK n \in T : \A m \in T : ~ (<<m, n>> \in OpToRel(<, Nat))
  BY WFMin, NatLessThanWellFounded DEF OpToRel
<1>2. \A m \in T : ~(m < n)
  BY <1>1 DEF OpToRel
<1> QED BY <1>2

\* Of subsets of a finite set, one contains none of the others.
LEMMA SubsetMin ==
  ASSUME NEW S, IsFiniteSet(S), NEW T, T \subseteq SUBSET S, T # {}
  PROVE  \E X \in T : \A Y \in T : Y \subseteq X => Y = X
<1>1. IsWellFoundedOn(StrictSubsetOrdering(S), SUBSET S)
  BY FS_StrictSubsetOrderingWellFounded, FS_FiniteSubsetsOfFinite
<1>2. PICK X \in T : \A Y \in T : ~ (<<Y, X>> \in StrictSubsetOrdering(S))
  BY <1>1, WFMin
<1> QED BY <1>2 DEF StrictSubsetOrdering

\* Some function solves the equation at all subsets of up to n elements.
LEMMA SolvedUpTo ==
  ASSUME NEW f, NEW S, IsFiniteSet(S), NEW n \in Nat
  PROVE  \E g : \A s \in SUBSET S : Cardinality(s) <= n => Solves(f, g, s)
<1> DEFINE T == {k \in Nat : ~ \E g : \A s \in SUBSET S : Cardinality(s) <= k => Solves(f, g, s)}
<1>1. SUFFICES ASSUME T # {} PROVE FALSE
  OBVIOUS
<1>2. PICK k \in T : \A m \in T : k <= m
  BY <1>1, NatMin
<1>3. \A s \in SUBSET S : IsFiniteSet(s) /\ Cardinality(s) \in Nat
  BY FS_Subset, FS_CardinalityType
<1>4. CASE k = 0
  <2> DEFINE g == [s \in SUBSET S |-> 0]
  <2>1. \A s \in SUBSET S : Cardinality(s) <= 0 => s = {}
    BY <1>3, FS_EmptySet
  <2>2. \A s \in SUBSET S : Cardinality(s) <= 0 => Solves(f, g, s)
    BY <2>1 DEF Solves, Value
  <2> QED BY <1>2, <1>4, <2>2
<1>5. CASE k # 0
  <2>1. k - 1 \in Nat /\ k - 1 \notin T
    BY <1>2, <1>5
  <2>2. PICK g : \A s \in SUBSET S : Cardinality(s) <= k - 1 => Solves(f, g, s)
    BY <2>1
  <2> DEFINE h == [s \in SUBSET S |-> Value(f, g, s)]
  <2>3. \A s \in SUBSET S : Cardinality(s) <= k - 1 => h[s] = g[s]
    BY <2>2 DEF Solves
  <2>4. ASSUME NEW s \in SUBSET S, Cardinality(s) <= k PROVE Solves(f, h, s)
    <3>1. CASE s = {}
      BY <3>1 DEF Solves, Value
    <3>2. CASE s # {}
      <4>1. Pick(s) \in s
        BY <3>2, PickType
      <4>2. s \ {Pick(s)} \in SUBSET S /\ Cardinality(s \ {Pick(s)}) = Cardinality(s) - 1
        BY <1>3, <4>1, FS_RemoveElement
      <4>3. h[s \ {Pick(s)}] = g[s \ {Pick(s)}]
        <5>1. Cardinality(s \ {Pick(s)}) <= k - 1
          BY <1>2, <1>3, <2>4, <4>2
        <5> HIDE DEF h
        <5> QED BY <2>3, <4>2, <5>1
      <4>4. h[s] = Value(f, g, s)
        OBVIOUS
      <4> HIDE DEF h
      <4> QED BY <3>2, <4>3, <4>4 DEF Solves, Value
    <3> QED BY <3>1, <3>2
  <2> HIDE DEF h
  <2> QED BY <1>2, <2>4
<1> QED BY <1>4, <1>5

\* The fold solves its equation at all subsets.
LEMMA FoldSolves ==
  ASSUME NEW f, NEW S, IsFiniteSet(S)
  PROVE  \A s \in SUBSET S : Solves(f, Fold(f, S), s)
<1>1. PICK g : \A s \in SUBSET S : Cardinality(s) <= Cardinality(S) => Solves(f, g, s)
  BY SolvedUpTo, FS_CardinalityType
<1>2. \A s \in SUBSET S : Solves(f, g, s)
  BY <1>1, FS_Subset
<1> DEFINE h == [s \in SUBSET S |-> g[s]]
<1>3. \A s \in SUBSET S : Value(f, h, s) = Value(f, g, s)
  <2> SUFFICES ASSUME NEW s \in SUBSET S PROVE Value(f, h, s) = Value(f, g, s)
    OBVIOUS
  <2>1. s \ {Pick(s)} \in SUBSET S
    OBVIOUS
  <2> QED BY <2>1 DEF Value
<1>4. h = [s \in SUBSET S |-> Value(f, h, s)]
  BY <1>2, <1>3 DEF Solves
<1> HIDE DEF h
<1>5. Fold(f, S) = [s \in SUBSET S |-> Value(f, Fold(f, S), s)]
  BY <1>4 DEF Fold
<1> QED BY <1>5 DEF Solves

\* Two solutions agree.
LEMMA SolutionUnique ==
  ASSUME NEW f, NEW S, IsFiniteSet(S), NEW g, NEW h,
         \A s \in SUBSET S : Solves(f, g, s) /\ Solves(f, h, s)
  PROVE  g[S] = h[S]
<1> DEFINE T == {s \in SUBSET S : g[s] # h[s]}
<1>1. SUFFICES ASSUME T # {} PROVE FALSE
  OBVIOUS
<1>2. PICK X \in T : \A Y \in T : Y \subseteq X => Y = X
  <2>1. T \subseteq SUBSET S
    OBVIOUS
  <2> HIDE DEF T
  <2> QED BY <1>1, <2>1, SubsetMin
<1>3. g[X] = Value(f, g, X) /\ h[X] = Value(f, h, X)
  BY <1>2 DEF Solves
<1>4. X # {}
  BY <1>2, <1>3 DEF Value
<1>5. X \ {Pick(X)} \notin T
  BY <1>2, <1>4, PickType
<1>6. g[X \ {Pick(X)}] = h[X \ {Pick(X)}]
  BY <1>2, <1>5
<1> QED BY <1>2, <1>3, <1>6 DEF Value

\* The sum over no element.
LEMMA SumEmpty == ASSUME NEW f PROVE SumFunctionOnSet(f, {}) = 0
<1>1. Solves(f, Fold(f, {}), {})
  BY FoldSolves, FS_EmptySet
<1> QED BY <1>1, SumIsFold DEF Solves, Value

\* The recursive equation of the sum.
LEMMA SumRecursive ==
  ASSUME NEW f, NEW S, IsFiniteSet(S), S # {}
  PROVE  SumFunctionOnSet(f, S) = f[Pick(S)] + SumFunctionOnSet(f, S \ {Pick(S)})
<1> DEFINE R == S \ {Pick(S)}
<1>1. IsFiniteSet(R) /\ R \in SUBSET S
  BY FS_Subset
<1>2. Solves(f, Fold(f, S), S) /\ \A s \in SUBSET R : Solves(f, Fold(f, S), s)
  BY <1>1, FoldSolves
<1>3. \A s \in SUBSET R : Solves(f, Fold(f, R), s)
  BY <1>1, FoldSolves
<1>4. Fold(f, S)[R] = Fold(f, R)[R]
  <2>1. \A s \in SUBSET R : Solves(f, Fold(f, S), s) /\ Solves(f, Fold(f, R), s)
    BY <1>2, <1>3
  <2> HIDE DEF R
  <2> QED BY <1>1, <2>1, SolutionUnique
<1> QED BY <1>2, <1>4, SumIsFold DEF Solves, Value

\* A sum of natural numbers is one.
THEOREM SumNat ==
  ASSUME NEW f, NEW S, IsFiniteSet(S), \A x \in S : f[x] \in Nat
  PROVE  SumFunctionOnSet(f, S) \in Nat
<1> DEFINE T == {s \in SUBSET S : SumFunctionOnSet(f, s) \notin Nat}
<1>1. SUFFICES ASSUME T # {} PROVE FALSE
  OBVIOUS
<1>2. PICK X \in T : \A Y \in T : Y \subseteq X => Y = X
  <2>1. T \subseteq SUBSET S
    OBVIOUS
  <2> HIDE DEF T
  <2> QED BY <1>1, <2>1, SubsetMin
<1>3. IsFiniteSet(X)
  BY <1>2, FS_Subset
<1>4. X # {}
  <2>1. SumFunctionOnSet(f, {}) \in Nat
    BY SumEmpty
  <2> QED BY <1>2, <2>1
<1>5. Pick(X) \in X /\ X \ {Pick(X)} \notin T
  BY <1>2, <1>4, PickType
<1>6. SumFunctionOnSet(f, X \ {Pick(X)}) \in Nat /\ f[Pick(X)] \in Nat
  BY <1>2, <1>5
<1> QED BY <1>2, <1>3, <1>4, <1>6, SumRecursive

\* Functions that agree on a set have the same sum over it.
THEOREM SumSame ==
  ASSUME NEW f, NEW h, NEW S, IsFiniteSet(S), \A x \in S : f[x] = h[x]
  PROVE  SumFunctionOnSet(f, S) = SumFunctionOnSet(h, S)
<1> DEFINE T == {s \in SUBSET S : SumFunctionOnSet(f, s) # SumFunctionOnSet(h, s)}
<1>1. SUFFICES ASSUME T # {} PROVE FALSE
  OBVIOUS
<1>2. PICK X \in T : \A Y \in T : Y \subseteq X => Y = X
  <2>1. T \subseteq SUBSET S
    OBVIOUS
  <2> HIDE DEF T
  <2> QED BY <1>1, <2>1, SubsetMin
<1>3. IsFiniteSet(X)
  BY <1>2, FS_Subset
<1>4. X # {}
  BY <1>2, SumEmpty
<1>5. Pick(X) \in X /\ X \ {Pick(X)} \notin T
  BY <1>2, <1>4, PickType
<1>6. SumFunctionOnSet(f, X \ {Pick(X)}) = SumFunctionOnSet(h, X \ {Pick(X)})
  BY <1>2, <1>5
<1>7. f[Pick(X)] = h[Pick(X)]
  BY <1>2, <1>5
<1> QED BY <1>2, <1>3, <1>4, <1>6, <1>7, SumRecursive

\* The order does not matter: any element can be taken first.
THEOREM SumRemove ==
  ASSUME NEW f, NEW S, IsFiniteSet(S), \A x \in S : f[x] \in Nat, NEW a \in S
  PROVE  SumFunctionOnSet(f, S) = f[a] + SumFunctionOnSet(f, S \ {a})
<1> DEFINE Sum(s) == SumFunctionOnSet(f, s)
           T == {s \in SUBSET S : \E x \in s : Sum(s) # f[x] + Sum(s \ {x})}
<1>0. \A s \in SUBSET S : IsFiniteSet(s) /\ Sum(s) \in Nat
  BY FS_Subset, SumNat
<1>1. SUFFICES ASSUME T # {} PROVE FALSE
  OBVIOUS
<1>2. PICK X \in T : \A Y \in T : Y \subseteq X => Y = X
  <2>1. T \subseteq SUBSET S
    OBVIOUS
  <2> HIDE DEF T
  <2> QED BY <1>1, <2>1, SubsetMin
<1>3. PICK x \in X : Sum(X) # f[x] + Sum(X \ {x})
  BY <1>2
<1> DEFINE y == Pick(X)
<1>4. y \in X /\ Sum(X) = f[y] + Sum(X \ {y})
  BY <1>0, <1>2, <1>3, SumRecursive, PickType
<1> HIDE DEF y
<1>5. x # y
  BY <1>3, <1>4
<1>6. X \ {y} \notin T /\ X \ {x} \notin T
  BY <1>2, <1>3, <1>4
<1>7. Sum(X \ {y}) = f[x] + Sum((X \ {y}) \ {x})
  BY <1>2, <1>3, <1>4, <1>5, <1>6
<1>8. Sum(X \ {x}) = f[y] + Sum((X \ {x}) \ {y})
  BY <1>2, <1>3, <1>4, <1>5, <1>6
<1>9. (X \ {y}) \ {x} = (X \ {x}) \ {y}
  OBVIOUS
<1>10. f[x] \in Nat /\ f[y] \in Nat /\ Sum((X \ {x}) \ {y}) \in Nat
  BY <1>0, <1>2, <1>3, <1>4
<1> HIDE DEF Sum
<1> QED BY <1>3, <1>4, <1>7, <1>8, <1>9, <1>10
=============================================================================
