------------------------------- MODULE SumLemmas -------------------------------
(***************************************************************************)
(* Facts about the sum of a function over a finite set, as the models take *)
(* it from the community modules.  Induction is by the least element of a  *)
(* set of naturals, since the induction theorems of the library take an    *)
(* operator, which the provers cannot instantiate.                         *)
(***************************************************************************)
EXTENDS Integers, FiniteSets, Functions, FiniteSetTheorems, WellFoundedInduction, TLAPS

\* The element the sum takes next, and the sums over the sets in A.
Pick(s) == CHOOSE x \in s : TRUE
IsSum(sum, f, A) ==
    sum = [s \in A |-> IF s = {} THEN 0 ELSE f[Pick(s)] + sum[s \ {Pick(s)}]]
PartialSums(f, S) == CHOOSE sum : IsSum(sum, f, SUBSET S)

\* The subsets of S of at most n elements.
Small(S, n) == {s \in SUBSET S : Cardinality(s) <= n}

\* The fold of the library, as a function on the subsets of S.
LEMMA SumUnfold ==
    ASSUME NEW f, NEW S
    PROVE  SumFunctionOnSet(f, S) = PartialSums(f, S)[S]
BY Zenon DEF SumFunctionOnSet, FoldFunctionOnSet, MapThenFoldSet, PartialSums, IsSum, Pick

\* A set of naturals that is not empty has a least element.
LEMMA LeastNatural ==
    ASSUME NEW N \in SUBSET Nat, N # {}
    PROVE  \E n \in N : \A m \in N : n <= m
<1>1. \E n \in N : \A m \in N : ~ (<<m, n>> \in OpToRel(<, Nat))
  BY WFMin, NatLessThanWellFounded
<1>2. \A m, n \in N : ~ (<<m, n>> \in OpToRel(<, Nat)) => n <= m
  BY DEF OpToRel
<1> QED BY <1>1, <1>2

\* Without its next element a finite set has one element less.
LEMMA PickSmaller ==
    ASSUME NEW S, IsFiniteSet(S), NEW s \in SUBSET S, s # {}
    PROVE  /\ IsFiniteSet(s) /\ Pick(s) \in s
           /\ Cardinality(s) \in Nat /\ Cardinality(s) > 0
           /\ s \ {Pick(s)} \in SUBSET S
           /\ Cardinality(s \ {Pick(s)}) = Cardinality(s) - 1
<1>1. IsFiniteSet(s)
  BY FS_Subset
<1>2. Pick(s) \in s
  BY DEF Pick
<1>3. Cardinality(s) \in Nat /\ Cardinality(s) # 0
  BY <1>1, FS_CardinalityType, FS_EmptySet
<1>4. Cardinality(s \ {Pick(s)}) = Cardinality(s) - 1
  BY <1>1, <1>2, FS_RemoveElement
<1> QED BY <1>1, <1>2, <1>3, <1>4

\* Induction over the subsets of a finite set.
LEMMA SubsetInduction ==
    ASSUME NEW S, IsFiniteSet(S), NEW T \in SUBSET SUBSET S,
           \A s \in SUBSET S : (\A t \in SUBSET s : t # s => t \in T) => s \in T
    PROVE  T = SUBSET S
<1> DEFINE N == {n \in Nat : \E s \in SUBSET S : s \notin T /\ Cardinality(s) = n}
<1>1. \A s \in SUBSET S : IsFiniteSet(s) /\ Cardinality(s) \in Nat
  BY FS_Subset, FS_CardinalityType
<1> SUFFICES ASSUME NEW s0 \in SUBSET S, s0 \notin T PROVE FALSE
  OBVIOUS
<1>2. N # {}
  BY <1>1
<1>3. PICK n \in N : \A m \in N : n <= m
  BY <1>2, LeastNatural
<1>4. PICK s \in SUBSET S : s \notin T /\ Cardinality(s) = n
  BY <1>3
<1>5. \A t \in SUBSET s : t # s => Cardinality(t) < n
  BY <1>1, <1>4, FS_Subset
<1>6. \A t \in SUBSET s : t # s => t \in T
  <2> SUFFICES ASSUME NEW t \in SUBSET s, t # s, t \notin T PROVE FALSE
    OBVIOUS
  <2>1. Cardinality(t) \in N
    BY <1>1
  <2> QED BY <1>1, <1>3, <1>5, <2>1
<1> QED BY <1>4, <1>6

\* Induction over an interval.
LEMMA CountUp ==
    ASSUME NEW m \in Nat, NEW T, 0 \in T, \A n \in 0..m : n \in T /\ n < m => n + 1 \in T
    PROVE  \A n \in 0..m : n \in T
<1> DEFINE N == {n \in 0..m : n \notin T}
<1> SUFFICES ASSUME N # {} PROVE FALSE
  OBVIOUS
<1>1. N \in SUBSET Nat
  OBVIOUS
<1>2. PICK n \in N : \A k \in N : n <= k
  BY <1>1, LeastNatural
<1>3. n \in Nat /\ n # 0 /\ n - 1 \in 0..m /\ n - 1 < m /\ (n - 1) + 1 = n
  OBVIOUS
<1>4. n - 1 \in T
  <2>1. ~(n <= n - 1)
    BY <1>3
  <2> QED BY <1>2, <1>3, <2>1
<1>5. (n - 1) + 1 \in T
  BY <1>3, <1>4
<1> QED BY <1>3, <1>5

\* A finite set of naturals that is not empty has a greatest element.
LEMMA GreatestNatural ==
    ASSUME NEW S \in SUBSET Nat, IsFiniteSet(S), S # {}
    PROVE  \E n \in S : \A m \in S : m <= n
<1> DEFINE T == {s \in SUBSET S : s # {} => \E n \in s : \A m \in s : m <= n}
<1>1. ASSUME NEW s \in SUBSET S, \A t \in SUBSET s : t # s => t \in T PROVE s \in T
  <2> SUFFICES ASSUME s # {} PROVE \E n \in s : \A m \in s : m <= n
    OBVIOUS
  <2> DEFINE x == Pick(s)
             r == s \ {x}
  <2>1. x \in s
    BY DEF Pick
  <2>2. r \in T
    BY <1>1, <2>1
  <2> HIDE DEF x
  <2>3. CASE r = {}
    BY <2>1, <2>3
  <2>4. CASE r # {}
    <3>1. PICK n \in r : \A m \in r : m <= n
      BY <2>2, <2>4
    <3>2. \A m \in s : m = x \/ m \in r
      OBVIOUS
    <3>3. CASE x <= n
      BY <3>1, <3>2, <3>3
    <3>4. CASE ~(x <= n)
      BY <2>1, <3>1, <3>2, <3>4
    <3> QED BY <3>3, <3>4
  <2> QED BY <2>3, <2>4
<1> HIDE DEF T
<1>2. T \in SUBSET SUBSET S
  BY DEF T
<1>3. T = SUBSET S
  BY <1>1, <1>2, SubsetInduction
<1>4. S \in T
  BY <1>3
<1> QED BY <1>4 DEF T

\* The sums of the subsets of a finite set exist.
LEMMA SumsExist ==
    ASSUME NEW S, IsFiniteSet(S), NEW f
    PROVE  \E sum : IsSum(sum, f, SUBSET S)
<1> DEFINE Has(n) == \E sum : IsSum(sum, f, Small(S, n))
<1> DEFINE N == {n \in Nat : ~Has(n)}
<1>1. N = {}
  <2> SUFFICES ASSUME N # {} PROVE FALSE
    OBVIOUS
  <2>1. PICK n \in N : \A m \in N : n <= m
    BY LeastNatural
  <2>2. CASE n = 0
    <3>1. \A s \in Small(S, 0) : s = {}
      <4> SUFFICES ASSUME NEW s \in SUBSET S, Cardinality(s) <= 0, s # {} PROVE FALSE
        BY DEF Small
      <4>1. Cardinality(s) \in Nat /\ Cardinality(s) > 0
        BY PickSmaller
      <4> QED BY <4>1
    <3>2. IsSum([s \in Small(S, 0) |-> 0], f, Small(S, 0))
      BY <3>1 DEF IsSum
    <3> QED BY <2>2, <3>2
  <2>3. CASE n > 0
    <3>1. n - 1 \in Nat /\ n - 1 \notin N
      BY <2>1, <2>3
    <3>2. PICK g : IsSum(g, f, Small(S, n - 1))
      BY <3>1
    <3> DEFINE h == [s \in Small(S, n) |-> IF s = {} THEN 0 ELSE f[Pick(s)] + g[s \ {Pick(s)}]]
    <3>3. Small(S, n - 1) \subseteq Small(S, n)
      <4>1. \A s \in SUBSET S : Cardinality(s) \in Nat
        BY FS_Subset, FS_CardinalityType
      <4> QED BY <4>1, <2>1 DEF Small
    <3>4. \A s \in Small(S, n - 1) : h[s] = g[s]
      BY <3>2, <3>3 DEF IsSum
    <3>5. \A s \in Small(S, n) : s # {} => s \ {Pick(s)} \in Small(S, n - 1)
      BY <2>1, PickSmaller DEF Small
    <3>6. IsSum(h, f, Small(S, n))
      BY <3>4, <3>5 DEF IsSum
    <3> QED BY <3>6
  <2> QED BY <2>1, <2>2, <2>3
<1>2. Cardinality(S) \in Nat /\ Small(S, Cardinality(S)) = SUBSET S
  <2>1. Cardinality(S) \in Nat
    BY FS_CardinalityType
  <2>2. \A s \in SUBSET S : Cardinality(s) <= Cardinality(S)
    BY FS_Subset
  <2> QED BY <2>1, <2>2 DEF Small
<1>3. Has(Cardinality(S))
  BY <1>1, <1>2
<1> QED BY <1>2, <1>3

\* The sum over a set, one element at a time.
LEMMA SumRecursion ==
    ASSUME NEW S, IsFiniteSet(S), NEW f
    PROVE  \A s \in SUBSET S :
              PartialSums(f, S)[s] = IF s = {} THEN 0
                                     ELSE f[Pick(s)] + PartialSums(f, S)[s \ {Pick(s)}]
<1> DEFINE g == PartialSums(f, S)
<1>1. IsSum(g, f, SUBSET S)
  BY SumsExist, Zenon DEF PartialSums
<1> HIDE DEF g
<1>2. \A s \in SUBSET S : g[s] = IF s = {} THEN 0 ELSE f[Pick(s)] + g[s \ {Pick(s)}]
  BY <1>1 DEF IsSum
<1> QED BY <1>2 DEF g

\* The sums over the subsets of S do not depend on S.
LEMMA PartialSumsAgree ==
    ASSUME NEW S, IsFiniteSet(S), NEW f, NEW R \in SUBSET S
    PROVE  PartialSums(f, R)[R] = PartialSums(f, S)[R]
<1> DEFINE T == {s \in SUBSET R : PartialSums(f, R)[s] = PartialSums(f, S)[s]}
<1>1. IsFiniteSet(R)
  BY FS_Subset
<1>2. ASSUME NEW s \in SUBSET R, \A t \in SUBSET s : t # s => t \in T PROVE s \in T
  <2>1. CASE s = {}
    BY <2>1, <1>1, SumRecursion
  <2>2. CASE s # {}
    <3>1. Pick(s) \in s
      BY <2>2 DEF Pick
    <3>2. s \ {Pick(s)} \in T
      BY <3>1, <1>2
    <3>3. /\ PartialSums(f, R)[s] = f[Pick(s)] + PartialSums(f, R)[s \ {Pick(s)}]
          /\ PartialSums(f, S)[s] = f[Pick(s)] + PartialSums(f, S)[s \ {Pick(s)}]
      BY <2>2, <1>1, SumRecursion
    <3> QED BY <3>2, <3>3
  <2> QED BY <2>1, <2>2
<1> HIDE DEF T
<1>3. T = SUBSET R
  <2>1. T \in SUBSET SUBSET R
    BY DEF T
  <2> QED BY <1>1, <1>2, <2>1, SubsetInduction
<1> QED BY <1>3 DEF T

\* The empty sum is zero.
LEMMA SumOfNothing == \A f : SumFunctionOnSet(f, {}) = 0
  BY SumUnfold, SumRecursion, FS_EmptySet

\* The sum over a set, one element at a time.
LEMMA SumStep ==
    ASSUME NEW S, IsFiniteSet(S), S # {}, NEW f
    PROVE  /\ Pick(S) \in S
           /\ SumFunctionOnSet(f, S) = f[Pick(S)] + SumFunctionOnSet(f, S \ {Pick(S)})
<1>1. Pick(S) \in S
  BY DEF Pick
<1>2. SumFunctionOnSet(f, S) = f[Pick(S)] + PartialSums(f, S)[S \ {Pick(S)}]
  BY SumUnfold, SumRecursion
<1>3. PartialSums(f, S)[S \ {Pick(S)}] = SumFunctionOnSet(f, S \ {Pick(S)})
  BY SumUnfold, PartialSumsAgree
<1> QED BY <1>1, <1>2, <1>3

\* A sum of integers is an integer.
LEMMA SumInt ==
    ASSUME NEW S, IsFiniteSet(S), NEW f, \A x \in S : f[x] \in Int
    PROVE  SumFunctionOnSet(f, S) \in Int
<1> DEFINE T == {s \in SUBSET S : SumFunctionOnSet(f, s) \in Int}
<1>1. ASSUME NEW s \in SUBSET S, \A t \in SUBSET s : t # s => t \in T PROVE s \in T
  <2>1. CASE s = {}
    BY <2>1, SumOfNothing
  <2>2. CASE s # {}
    <3>1. Pick(s) \in s /\ SumFunctionOnSet(f, s) = f[Pick(s)] + SumFunctionOnSet(f, s \ {Pick(s)})
      BY <2>2, FS_Subset, SumStep
    <3>2. SumFunctionOnSet(f, s \ {Pick(s)}) \in Int
      BY <1>1, <3>1
    <3> QED BY <3>1, <3>2
  <2> QED BY <2>1, <2>2
<1> HIDE DEF T
<1>2. T = SUBSET S
  <2>1. T \in SUBSET SUBSET S
    BY DEF T
  <2> QED BY <1>1, <2>1, SubsetInduction
<1> QED BY <1>2 DEF T

\* If a times f is at most b times g plus h everywhere, so are their sums.
LEMMA SumBound ==
    ASSUME NEW S, IsFiniteSet(S), NEW f, NEW g, NEW h, NEW a \in Int, NEW b \in Int,
           \A x \in S : /\ f[x] \in Int /\ g[x] \in Int /\ h[x] \in Int
                        /\ a * f[x] <= b * g[x] + h[x]
    PROVE  a * SumFunctionOnSet(f, S) <= b * SumFunctionOnSet(g, S) + SumFunctionOnSet(h, S)
<1> DEFINE F(s) == SumFunctionOnSet(f, s)
           G(s) == SumFunctionOnSet(g, s)
           H(s) == SumFunctionOnSet(h, s)
<1> DEFINE T == {s \in SUBSET S : a * F(s) <= b * G(s) + H(s)}
<1>1. ASSUME NEW s \in SUBSET S, \A t \in SUBSET s : t # s => t \in T PROVE s \in T
  <2>1. CASE s = {}
    <3>1. F(s) = 0 /\ G(s) = 0 /\ H(s) = 0
      BY <2>1, SumOfNothing
    <3> QED BY <3>1
  <2>2. CASE s # {}
    <3> DEFINE x == Pick(s)
               r == s \ {x}
    <3>1. IsFiniteSet(s) /\ IsFiniteSet(r)
      BY FS_Subset
    <3>2. x \in s /\ F(s) = f[x] + F(r) /\ G(s) = g[x] + G(r) /\ H(s) = h[x] + H(r)
      BY <2>2, <3>1, SumStep
    <3>3. F(r) \in Int /\ G(r) \in Int /\ H(r) \in Int
      BY <3>1, SumInt
    <3>4. a * F(r) <= b * G(r) + H(r)
      BY <1>1, <3>2
    <3>5. f[x] \in Int /\ g[x] \in Int /\ h[x] \in Int /\ a * f[x] <= b * g[x] + h[x]
      BY <3>2
    <3> HIDE DEF F, G, H, x, r
    <3>6. a * (f[x] + F(r)) <= b * (g[x] + G(r)) + (h[x] + H(r))
      BY <3>3, <3>4, <3>5
    <3> QED BY <3>2, <3>6
  <2> QED BY <2>1, <2>2
<1> HIDE DEF T
<1>2. T = SUBSET S
  <2>1. T \in SUBSET SUBSET S
    BY DEF T
  <2> QED BY <1>1, <2>1, SubsetInduction
<1> QED BY <1>2 DEF T

\* Functions that agree on a set have the same sum over it.
LEMMA SumEqual ==
    ASSUME NEW S, IsFiniteSet(S), NEW f, NEW g, \A x \in S : g[x] = f[x]
    PROVE  SumFunctionOnSet(f, S) = SumFunctionOnSet(g, S)
<1> DEFINE T == {s \in SUBSET S : SumFunctionOnSet(f, s) = SumFunctionOnSet(g, s)}
<1>1. ASSUME NEW s \in SUBSET S, \A t \in SUBSET s : t # s => t \in T PROVE s \in T
  <2>1. CASE s = {}
    BY <2>1, SumOfNothing
  <2>2. CASE s # {}
    <3> DEFINE x == Pick(s)
               r == s \ {x}
    <3>1. /\ x \in s
          /\ SumFunctionOnSet(f, s) = f[x] + SumFunctionOnSet(f, r)
          /\ SumFunctionOnSet(g, s) = g[x] + SumFunctionOnSet(g, r)
      BY <2>2, FS_Subset, SumStep
    <3>2. SumFunctionOnSet(f, r) = SumFunctionOnSet(g, r)
      BY <1>1, <3>1
    <3> QED BY <3>1, <3>2
  <2> QED BY <2>1, <2>2
<1> HIDE DEF T
<1>2. T = SUBSET S
  <2>1. T \in SUBSET SUBSET S
    BY DEF T
  <2> QED BY <1>1, <2>1, SubsetInduction
<1> QED BY <1>2 DEF T

\* The sum of a constant.
LEMMA SumConstant ==
    ASSUME NEW S, IsFiniteSet(S), NEW f, NEW k \in Int, \A x \in S : f[x] = k
    PROVE  SumFunctionOnSet(f, S) = k * Cardinality(S)
<1> DEFINE T == {s \in SUBSET S : SumFunctionOnSet(f, s) = k * Cardinality(s)}
<1>1. ASSUME NEW s \in SUBSET S, \A t \in SUBSET s : t # s => t \in T PROVE s \in T
  <2>1. CASE s = {}
    <3>1. SumFunctionOnSet(f, s) = 0 /\ Cardinality(s) = 0
      BY <2>1, SumOfNothing, FS_EmptySet
    <3> QED BY <3>1
  <2>2. CASE s # {}
    <3> DEFINE r == s \ {Pick(s)}
    <3>1. /\ Pick(s) \in s /\ Cardinality(s) \in Nat
          /\ Cardinality(r) = Cardinality(s) - 1
      BY <2>2, PickSmaller
    <3>2. SumFunctionOnSet(f, s) = k + SumFunctionOnSet(f, r)
      BY <2>2, FS_Subset, SumStep
    <3>3. SumFunctionOnSet(f, r) = k * Cardinality(r)
      BY <1>1, <3>1
    <3> HIDE DEF r
    <3>4. k + k * (Cardinality(s) - 1) = k * Cardinality(s)
      BY <3>1
    <3> QED BY <3>1, <3>2, <3>3, <3>4
  <2> QED BY <2>1, <2>2
<1> HIDE DEF T
<1>2. T = SUBSET S
  <2>1. T \in SUBSET SUBSET S
    BY DEF T
  <2> QED BY <1>1, <2>1, SubsetInduction
<1> QED BY <1>2 DEF T

\* Any element may be taken first.
LEMMA SumRemove ==
    ASSUME NEW S, IsFiniteSet(S), NEW f, \A x \in S : f[x] \in Int, NEW e \in S
    PROVE  SumFunctionOnSet(f, S) = f[e] + SumFunctionOnSet(f, S \ {e})
<1> DEFINE F(s) == SumFunctionOnSet(f, s)
<1> DEFINE T == {s \in SUBSET S : \A x \in s : F(s) = f[x] + F(s \ {x})}
<1>0. \A s \in SUBSET S : IsFiniteSet(s)
  BY FS_Subset
<1>1. ASSUME NEW s \in SUBSET S, \A t \in SUBSET s : t # s => t \in T PROVE s \in T
  <2> SUFFICES ASSUME NEW x \in s PROVE F(s) = f[x] + F(s \ {x})
    OBVIOUS
  <2> DEFINE y == Pick(s)
             r == (s \ {x}) \ {y}
  <2>1. y \in s /\ F(s) = f[y] + F(s \ {y})
    BY <1>0, SumStep
  <2>2. CASE x = y
    BY <2>1, <2>2
  <2>3. CASE x # y
    <3>1. F(s \ {y}) = f[x] + F(r)
      <4>1. F(s \ {y}) = f[x] + F((s \ {y}) \ {x})
        BY <1>1, <2>1, <2>3
      <4>2. (s \ {y}) \ {x} = r
        OBVIOUS
      <4> QED BY <4>1, <4>2
    <3>2. F(s \ {x}) = f[y] + F(r)
      BY <1>1, <2>1, <2>3
    <3>3. f[x] \in Int /\ f[y] \in Int /\ F(r) \in Int
      <4>1. \A z \in r : f[z] \in Int
        OBVIOUS
      <4> QED BY <1>0, <2>1, <4>1, SumInt
    <3> HIDE DEF F, y, r
    <3> QED BY <2>1, <3>1, <3>2, <3>3
  <2> QED BY <2>2, <2>3
<1> HIDE DEF T
<1>2. T = SUBSET S
  <2>1. T \in SUBSET SUBSET S
    BY DEF T
  <2> QED BY <1>1, <2>1, SubsetInduction
<1> QED BY <1>2 DEF T

\* The sum over a set is the sums over a part of it and over the rest.
LEMMA SumSplit ==
    ASSUME NEW S, IsFiniteSet(S), NEW f, \A x \in S : f[x] \in Int, NEW R \in SUBSET S
    PROVE  SumFunctionOnSet(f, S) = SumFunctionOnSet(f, R) + SumFunctionOnSet(f, S \ R)
<1> DEFINE F(s) == SumFunctionOnSet(f, s)
<1> DEFINE T == {s \in SUBSET S : F(s) = F(s \cap R) + F(s \ R)}
<1>0. \A s \in SUBSET S : IsFiniteSet(s) /\ F(s) \in Int
  <2> SUFFICES ASSUME NEW s \in SUBSET S PROVE IsFiniteSet(s) /\ F(s) \in Int
    OBVIOUS
  <2>1. IsFiniteSet(s)
    BY FS_Subset
  <2> QED BY <2>1, SumInt
<1>1. ASSUME NEW s \in SUBSET S, \A t \in SUBSET s : t # s => t \in T PROVE s \in T
  <2>1. CASE s = {}
    <3>1. s \cap R = {} /\ s \ R = {}
      BY <2>1
    <3> QED BY <2>1, <3>1, SumOfNothing
  <2>2. CASE s # {}
    <3> DEFINE x == Pick(s)
               r == s \ {x}
    <3>1. x \in s /\ F(s) = f[x] + F(r) /\ f[x] \in Int
      BY <1>0, <2>2, SumStep
    <3>2. F(r) = F(r \cap R) + F(r \ R)
      BY <1>1, <3>1
    <3>3. /\ F(s \cap R) \in Int /\ F(s \ R) \in Int
          /\ F(r \cap R) \in Int /\ F(r \ R) \in Int
      BY <1>0
    <3>4. CASE x \in R
      <4>1. F(s \cap R) = f[x] + F((s \cap R) \ {x})
        BY <1>0, <3>1, <3>4, SumRemove
      <4>2. (s \cap R) \ {x} = r \cap R /\ s \ R = r \ R
        BY <3>4
      <4>3. F(s \cap R) = f[x] + F(r \cap R) /\ F(s \ R) = F(r \ R)
        BY <4>1, <4>2
      <4>4. F(s) = F(s \cap R) + F(s \ R)
        BY <3>1, <3>2, <3>3, <4>3
      <4> QED BY <4>4
    <3>5. CASE x \notin R
      <4>1. F(s \ R) = f[x] + F((s \ R) \ {x})
        BY <1>0, <3>1, <3>5, SumRemove
      <4>2. (s \ R) \ {x} = r \ R /\ s \cap R = r \cap R
        BY <3>5
      <4>3. F(s \ R) = f[x] + F(r \ R) /\ F(s \cap R) = F(r \cap R)
        BY <4>1, <4>2
      <4>4. F(s) = F(s \cap R) + F(s \ R)
        BY <3>1, <3>2, <3>3, <4>3
      <4> QED BY <4>4
    <3> QED BY <3>4, <3>5
  <2> QED BY <2>1, <2>2
<1> HIDE DEF T
<1>2. T = SUBSET S
  <2>1. T \in SUBSET SUBSET S
    BY DEF T
  <2> QED BY <1>1, <2>1, SubsetInduction
<1>3. S \cap R = R
  OBVIOUS
<1> QED BY <1>2, <1>3 DEF T

\* A sum of naturals is a natural, no less than any of them.
LEMMA SumNat ==
    ASSUME NEW S, IsFiniteSet(S), NEW f, \A x \in S : f[x] \in Nat
    PROVE  /\ SumFunctionOnSet(f, S) \in Nat
           /\ \A x \in S : f[x] <= SumFunctionOnSet(f, S)
<1> DEFINE zero == [x \in S |-> 0]
<1>1. ASSUME NEW s \in SUBSET S PROVE SumFunctionOnSet(f, s) \in Nat
  <2>1. IsFiniteSet(s)
    BY FS_Subset
  <2>2. /\ SumFunctionOnSet(zero, s) = 0 * Cardinality(s)
        /\ Cardinality(s) \in Int
    BY <2>1, SumConstant, FS_CardinalityType
  <2>3. \A x \in s : /\ zero[x] \in Int /\ f[x] \in Int
                     /\ 1 * zero[x] <= 1 * f[x] + zero[x]
    OBVIOUS
  <2>4. 1 * SumFunctionOnSet(zero, s) <= 1 * SumFunctionOnSet(f, s) + SumFunctionOnSet(zero, s)
    BY <2>1, <2>3, SumBound
  <2>5. SumFunctionOnSet(f, s) \in Int
    BY <2>1, SumInt
  <2> HIDE DEF zero
  <2> QED BY <2>2, <2>4, <2>5
<1>2. ASSUME NEW x \in S PROVE f[x] <= SumFunctionOnSet(f, S)
  <2>1. SumFunctionOnSet(f, S) = f[x] + SumFunctionOnSet(f, S \ {x})
    BY SumRemove
  <2>2. SumFunctionOnSet(f, S \ {x}) \in Nat
    BY <1>1
  <2> QED BY <2>1, <2>2
<1> QED BY <1>1, <1>2

\* The sum of a sum is the sum of the sums.
LEMMA SumPlus ==
    ASSUME NEW S, IsFiniteSet(S), NEW f, NEW g, NEW h,
           \A x \in S : f[x] \in Int /\ g[x] \in Int /\ h[x] = f[x] + g[x]
    PROVE  SumFunctionOnSet(h, S) = SumFunctionOnSet(f, S) + SumFunctionOnSet(g, S)
<1> DEFINE F(s) == SumFunctionOnSet(f, s)
           G(s) == SumFunctionOnSet(g, s)
           H(s) == SumFunctionOnSet(h, s)
<1> DEFINE T == {s \in SUBSET S : H(s) = F(s) + G(s)}
<1>1. ASSUME NEW s \in SUBSET S, \A t \in SUBSET s : t # s => t \in T PROVE s \in T
  <2>1. CASE s = {}
    BY <2>1, SumOfNothing
  <2>2. CASE s # {}
    <3> DEFINE x == Pick(s)
               r == s \ {x}
    <3>1. IsFiniteSet(s) /\ IsFiniteSet(r)
      BY FS_Subset
    <3>2. x \in s /\ F(s) = f[x] + F(r) /\ G(s) = g[x] + G(r) /\ H(s) = h[x] + H(r)
      BY <2>2, <3>1, SumStep
    <3>3. F(r) \in Int /\ G(r) \in Int
      BY <3>1, SumInt
    <3>4. H(r) = F(r) + G(r)
      BY <1>1, <3>2
    <3>5. f[x] \in Int /\ g[x] \in Int /\ h[x] = f[x] + g[x]
      BY <3>2
    <3>6. H(s) = F(s) + G(s)
      BY <3>2, <3>3, <3>4, <3>5
    <3> QED BY <3>6
  <2> QED BY <2>1, <2>2
<1> HIDE DEF T
<1>2. T = SUBSET S
  <2>1. T \in SUBSET SUBSET S
    BY DEF T
  <2> QED BY <1>1, <2>1, SubsetInduction
<1> QED BY <1>2 DEF T

\* What is zero outside R has the sum it has over R.
LEMMA SumExtend ==
    ASSUME NEW S, IsFiniteSet(S), NEW R \in SUBSET S, NEW f, NEW g,
           \A x \in R : f[x] \in Int /\ g[x] = f[x],
           \A x \in S \ R : g[x] = 0
    PROVE  SumFunctionOnSet(g, S) = SumFunctionOnSet(f, R)
<1>1. \A x \in S : g[x] \in Int
  OBVIOUS
<1>2. SumFunctionOnSet(g, S) = SumFunctionOnSet(g, R) + SumFunctionOnSet(g, S \ R)
  BY <1>1, SumSplit
<1>3. IsFiniteSet(R) /\ IsFiniteSet(S \ R)
  BY FS_Subset
<1>4. SumFunctionOnSet(g, S \ R) = 0 * Cardinality(S \ R) /\ Cardinality(S \ R) \in Int
  BY <1>3, SumConstant, FS_CardinalityType
<1>5. SumFunctionOnSet(g, R) = SumFunctionOnSet(f, R) /\ SumFunctionOnSet(f, R) \in Int
  BY <1>3, SumEqual, SumInt
<1> QED BY <1>2, <1>4, <1>5

\* A sum does not depend on how its summands are named: h names those of f, one
\* to one, in g.
LEMMA SumBijection ==
    ASSUME NEW S, IsFiniteSet(S), NEW R, NEW f, NEW g, NEW h,
           \A x \in S : h[x] \in R /\ f[x] \in Int /\ g[h[x]] = f[x],
           \A x, y \in S : h[x] = h[y] => x = y,
           \A y \in R : \E x \in S : h[x] = y
    PROVE  SumFunctionOnSet(g, R) = SumFunctionOnSet(f, S)
<1> DEFINE Image(s) == {h[x] : x \in s}
           T == {s \in SUBSET S : SumFunctionOnSet(g, Image(s)) = SumFunctionOnSet(f, s)}
<1>1. ASSUME NEW s \in SUBSET S, \A t \in SUBSET s : t # s => t \in T PROVE s \in T
  <2>1. CASE s = {}
    BY <2>1, SumOfNothing
  <2>2. CASE s # {}
    <3>1. PICK e \in s : TRUE
      BY <2>2
    <3> DEFINE r == s \ {e}
    <3>2. IsFiniteSet(s)
      BY FS_Subset
    <3>3. IsFiniteSet(Image(s))
      <4>1. [x \in s |-> h[x]] \in Surjection(s, Image(s))
        BY DEF Surjection
      <4> QED BY <3>2, <4>1, FS_Surjection
    <3>4. SumFunctionOnSet(f, s) = f[e] + SumFunctionOnSet(f, r)
      BY <3>2, SumRemove
    <3>5. Image(s) \ {h[e]} = Image(r)
      OBVIOUS
    <3>6. SumFunctionOnSet(g, Image(s)) = g[h[e]] + SumFunctionOnSet(g, Image(s) \ {h[e]})
      <4>1. \A y \in Image(s) : g[y] \in Int
        OBVIOUS
      <4>2. h[e] \in Image(s)
        OBVIOUS
      <4> HIDE DEF Image
      <4> QED BY <3>3, <4>1, <4>2, SumRemove
    <3>7. SumFunctionOnSet(g, Image(r)) = SumFunctionOnSet(f, r)
      BY <1>1, r \in SUBSET s, r # s
    <3>8. g[h[e]] = f[e]
      OBVIOUS
    <3> HIDE DEF Image, r
    <3> QED BY <3>4, <3>5, <3>6, <3>7, <3>8
  <2> QED BY <2>1, <2>2
<1> HIDE DEF T
<1>2. T \in SUBSET SUBSET S
  BY DEF T
<1>3. T = SUBSET S
  BY <1>1, <1>2, SubsetInduction
<1>4. S \in T
  BY <1>3
<1>5. Image(S) = R
  OBVIOUS
<1> QED BY <1>4, <1>5 DEF T

\* One more summand: h names the others in g.
LEMMA SumInsert ==
    ASSUME NEW S, IsFiniteSet(S), NEW R, IsFiniteSet(R), NEW k \in R, NEW f, NEW g, NEW h,
           \A x \in S : h[x] \in R /\ h[x] # k /\ f[x] \in Int /\ g[h[x]] = f[x],
           \A x, y \in S : h[x] = h[y] => x = y,
           \A y \in R : y # k => \E x \in S : h[x] = y,
           g[k] \in Int
    PROVE  SumFunctionOnSet(g, R) = SumFunctionOnSet(f, S) + g[k]
<1>1. SumFunctionOnSet(g, R \ {k}) = SumFunctionOnSet(f, S)
  <2> DEFINE Q == R \ {k}
  <2>1. /\ \A x \in S : h[x] \in Q /\ f[x] \in Int /\ g[h[x]] = f[x]
        /\ \A y \in Q : \E x \in S : h[x] = y
    OBVIOUS
  <2> HIDE DEF Q
  <2>2. SumFunctionOnSet(g, Q) = SumFunctionOnSet(f, S)
    BY <2>1, SumBijection
  <2> QED BY <2>2 DEF Q
<1>2. \A y \in R : g[y] \in Int
  <2> SUFFICES ASSUME NEW y \in R, y # k PROVE g[y] \in Int
    OBVIOUS
  <2>1. PICK x \in S : h[x] = y
    OBVIOUS
  <2> QED BY <2>1
<1>3. SumFunctionOnSet(g, R) = g[k] + SumFunctionOnSet(g, R \ {k})
  BY <1>2, SumRemove
<1>4. SumFunctionOnSet(f, S) \in Int
  BY SumInt
<1> QED BY <1>1, <1>3, <1>4
\* Quotient and remainder, named so that the prover sees them as numbers.
LEMMA DivisionNamed ==
    ASSUME NEW n, n \in Int, NEW d, d \in Int, d > 0,
           NEW q, NEW r, q = n \div d, r = n % d
    PROVE  n = d * q + r
  BY SMTT(30)

\* Quotient and remainder.
LEMMA Division ==
    ASSUME NEW n \in Int, NEW d \in Nat \ {0}
    PROVE  /\ n \div d \in Int /\ (n % d) \in Int
           /\ 0 <= (n % d) /\ (n % d) < d
           /\ n = d * (n \div d) + (n % d)
<1>1. d \in Int /\ d > 0
  OBVIOUS
<1>2. n \div d \in Int /\ (n % d) \in Int /\ 0 <= (n % d) /\ (n % d) < d
  OBVIOUS
<1> DEFINE q == n \div d
           r == n % d
<1>3. q = n \div d /\ r = n % d
  OBVIOUS
<1> HIDE DEF q, r
<1>4. n = d * q + r
  BY <1>1, <1>3, DivisionNamed
<1> QED BY <1>2, <1>4 DEF q, r

\* A sum of multiples is a multiple.
LEMMA SumDivides ==
    ASSUME NEW S, IsFiniteSet(S), NEW d \in Nat \ {0}, NEW f,
           \A x \in S : f[x] \in Int /\ f[x] % d = 0
    PROVE  SumFunctionOnSet(f, S) % d = 0
<1> DEFINE T == {s \in SUBSET S : \E k \in Int : SumFunctionOnSet(f, s) = d * k}
<1>1. ASSUME NEW s \in SUBSET S, \A t \in SUBSET s : t # s => t \in T PROVE s \in T
  <2>1. CASE s = {}
    <3>1. SumFunctionOnSet(f, s) = d * 0
      BY <2>1, SumOfNothing
    <3> QED BY <3>1
  <2>2. CASE s # {}
    <3> DEFINE x == Pick(s)
               r == s \ {x}
    <3>1. x \in s /\ SumFunctionOnSet(f, s) = f[x] + SumFunctionOnSet(f, r)
      BY <2>2, FS_Subset, SumStep
    <3>2. PICK k \in Int : SumFunctionOnSet(f, r) = d * k
      BY <1>1, <3>1
    <3>3. f[x] = d * (f[x] \div d) /\ f[x] \div d \in Int
      <4>1. f[x] \in Int /\ f[x] % d = 0
        BY <3>1
      <4>2. f[x] \div d \in Int /\ f[x] = d * (f[x] \div d) + (f[x] % d)
        BY <4>1, Division
      <4>3. d * (f[x] \div d) \in Int
        BY <4>2
      <4> QED BY <4>1, <4>2, <4>3
    <3> DEFINE m == f[x] \div d
    <3> HIDE DEF m, x, r
    <3>4. SumFunctionOnSet(f, s) = d * (m + k) /\ m + k \in Int
      BY <3>1, <3>2, <3>3 DEF m
    <3> QED BY <3>4
  <2> QED BY <2>1, <2>2
<1> HIDE DEF T
<1>2. T = SUBSET S
  <2>1. T \in SUBSET SUBSET S
    BY DEF T
  <2> QED BY <1>1, <2>1, SubsetInduction
<1>3. PICK k \in Int : SumFunctionOnSet(f, S) = d * k
  BY <1>2 DEF T
<1>4. (d * k) % d = 0
  <2> DEFINE n == d * k
  <2>1. n \in Int /\ n = d * k
    OBVIOUS
  <2> HIDE DEF n
  <2>2. n % d = 0
    BY <2>1, SMTT(30)
  <2> QED BY <2>1, <2>2
<1> QED BY <1>3, <1>4

\* A common factor of a sum.
LEMMA SumScaled ==
    ASSUME NEW S, IsFiniteSet(S), NEW a \in Int, NEW f, NEW g,
           \A x \in S : f[x] \in Int /\ g[x] \in Int /\ g[x] = a * f[x]
    PROVE  SumFunctionOnSet(g, S) = a * SumFunctionOnSet(f, S)
<1> DEFINE zero == [x \in S |-> 0]
<1>1. SumFunctionOnSet(zero, S) = 0
  <2>1. \A x \in S : zero[x] = 0
    OBVIOUS
  <2>2. 0 \in Int /\ Cardinality(S) \in Nat
    BY FS_CardinalityType
  <2> HIDE DEF zero
  <2>3. SumFunctionOnSet(zero, S) = 0 * Cardinality(S)
    BY <2>1, <2>2, SumConstant
  <2> QED BY <2>2, <2>3
<1>2. /\ SumFunctionOnSet(f, S) \in Int /\ SumFunctionOnSet(g, S) \in Int
  BY SumInt
<1>3. /\ \A x \in S : /\ g[x] \in Int /\ f[x] \in Int /\ zero[x] \in Int
                      /\ 1 * g[x] <= a * f[x] + zero[x]
      /\ \A x \in S : /\ f[x] \in Int /\ g[x] \in Int /\ zero[x] \in Int
                      /\ a * f[x] <= 1 * g[x] + zero[x]
      /\ 1 \in Int
  OBVIOUS
<1> HIDE DEF zero
<1>4. 1 * SumFunctionOnSet(g, S) <= a * SumFunctionOnSet(f, S) + SumFunctionOnSet(zero, S)
  BY <1>3, SumBound
<1>5. a * SumFunctionOnSet(f, S) <= 1 * SumFunctionOnSet(g, S) + SumFunctionOnSet(zero, S)
  BY <1>3, SumBound
<1> QED BY <1>1, <1>2, <1>4, <1>5

\* If g is nowhere more than f then its sum is no more; their sums are equal only if
\* they are.
LEMMA SumNoMore ==
    ASSUME NEW S, IsFiniteSet(S), NEW f \in [S -> Nat], NEW g \in [S -> Nat],
           \A x \in S : g[x] <= f[x]
    PROVE  /\ SumFunctionOnSet(g, S) <= SumFunctionOnSet(f, S)
           /\ SumFunctionOnSet(g, S) = SumFunctionOnSet(f, S) => \A x \in S : g[x] = f[x]
<1> DEFINE d == [x \in S |-> f[x] - g[x]]
<1>1. \A x \in S : d[x] \in Nat /\ g[x] \in Int /\ d[x] \in Int /\ f[x] = g[x] + d[x]
  OBVIOUS
<1>2. d \in [S -> Nat]
  OBVIOUS
<1> HIDE DEF d
<1>3. SumFunctionOnSet(f, S) = SumFunctionOnSet(g, S) + SumFunctionOnSet(d, S)
  <2>1. \A x \in S : g[x] \in Int /\ d[x] \in Int /\ f[x] = g[x] + d[x]
    BY <1>1
  <2> QED BY <2>1, SumPlus
<1>4. SumFunctionOnSet(d, S) \in Nat /\ \A x \in S : d[x] <= SumFunctionOnSet(d, S)
  BY <1>1, SumNat
<1>5. SumFunctionOnSet(g, S) \in Int
  BY <1>1, SumInt
<1>6. SumFunctionOnSet(g, S) = SumFunctionOnSet(f, S) => \A x \in S : g[x] = f[x]
  <2> SUFFICES ASSUME SumFunctionOnSet(g, S) = SumFunctionOnSet(f, S), NEW x \in S
               PROVE  g[x] = f[x]
    OBVIOUS
  <2>1. SumFunctionOnSet(d, S) = 0
    BY <1>3, <1>4, <1>5
  <2>2. d[x] = 0
    BY <1>1, <1>4, <2>1
  <2> QED BY <1>1, <2>2
<1> QED BY <1>3, <1>4, <1>5, <1>6

\* What is zero outside R has the sum it has over R.
LEMMA SumWithin ==
    ASSUME NEW S, IsFiniteSet(S), NEW R \in SUBSET S, NEW f,
           \A x \in S : f[x] \in Int, \A x \in S \ R : f[x] = 0
    PROVE  SumFunctionOnSet(f, S) = SumFunctionOnSet(f, R)
<1>1. SumFunctionOnSet(f, S) = SumFunctionOnSet(f, R) + SumFunctionOnSet(f, S \ R)
  BY SumSplit
<1>2. SumFunctionOnSet(f, S \ R) = 0
  <2>1. IsFiniteSet(S \ R) /\ Cardinality(S \ R) \in Nat
    BY FS_Subset, FS_CardinalityType
  <2>2. SumFunctionOnSet(f, S \ R) = 0 * Cardinality(S \ R)
    BY <2>1, SumConstant
  <2> QED BY <2>1, <2>2
<1>3. SumFunctionOnSet(f, R) \in Int
  <2>1. IsFiniteSet(R) /\ \A x \in R : f[x] \in Int
    BY FS_Subset
  <2> QED BY <2>1, SumInt
<1> QED BY <1>1, <1>2, <1>3

-------------------------------------------------------------------------------
(* Recursion *)

\* g steps from z by H, which stays in V.
StepsIn(V, m, H)     == \A n \in 1..m, v \in V : H[n][v] \in V
StepsBy(g, V, m, z, H) ==
    g \in [0..m -> V] /\ g[0] = z /\ \A n \in 1..m : g[n] = H[n][g[n - 1]]

\* A function defined by recursion on the numbers up to m exists.
LEMMA RecursionExists ==
    ASSUME NEW m, m \in Nat, NEW V, NEW z, z \in V, NEW H, StepsIn(V, m, H)
    PROVE  \E g : StepsBy(g, V, m, z, H)
<1> USE DEF StepsIn, StepsBy
<1> DEFINE UpTo(g, n) == /\ g \in [0..n -> V] /\ g[0] = z
                         /\ \A k \in 1..n : g[k] = H[k][g[k - 1]]
           T == {n \in 0..m : \E g : UpTo(g, n)}
<1>1. 0 \in T
  <2>1. UpTo([k \in 0..0 |-> z], 0)
    OBVIOUS
  <2>2. 0 \in 0..m
    OBVIOUS
  <2> QED BY <2>1, <2>2
<1>2. ASSUME NEW n \in 0..m, n \in T, n < m PROVE n + 1 \in T
  <2>1. PICK g : UpTo(g, n)
    BY <1>2
  <2> DEFINE v == H[n + 1][g[n]]
             h == [k \in 0..(n + 1) |-> IF k = n + 1 THEN v ELSE g[k]]
  <2>2. n \in Nat /\ n + 1 \in 1..m /\ (n + 1) - 1 = n /\ n \in 0..n
    BY <1>2
  <2>3. v \in V
    BY <2>1, <2>2
  <2>4. /\ h[n + 1] = v /\ h[0] = z
        /\ \A k \in 0..n : h[k] = g[k]
        /\ \A k \in 0..(n + 1) : k = n + 1 \/ k \in 0..n
    BY <2>1, <2>2
  <2>5. h \in [0..(n + 1) -> V]
    BY <2>1, <2>3, <2>4
  <2>6. \A k \in 1..n : k \in 0..n /\ k - 1 \in 0..n
    BY <2>2
  <2> HIDE DEF h, v
  <2>7. \A k \in 1..n : h[k] = H[k][h[k - 1]]
    BY <2>1, <2>4, <2>6
  <2>8. h[n + 1] = H[n + 1][h[(n + 1) - 1]]
    BY <2>2, <2>4 DEF v
  <2>9. \A k \in 1..(n + 1) : k = n + 1 \/ k \in 1..n
    BY <2>2
  <2>10. UpTo(h, n + 1)
    BY <2>4, <2>5, <2>7, <2>8, <2>9
  <2> QED BY <2>2, <2>10
<1>3. m \in T
  <2> HIDE DEF T
  <2>1. \A n \in 0..m : n \in T
    BY <1>1, <1>2, CountUp
  <2> QED BY <2>1
<1> QED BY <1>3
===============================================================================
