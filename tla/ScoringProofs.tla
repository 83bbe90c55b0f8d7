---------------------------- MODULE ScoringProofs ----------------------------
(***************************************************************************)
(* Proofs about the scoring engine and the valuation, for every rubric and    *)
(* every configuration that their assumptions admit, and every set of answers *)
(* and amounts.  A sum over the sub-scores that apply is a fold over a finite  *)
(* set; what it bounds is proved by taking a smallest counterexample among    *)
(* the subsets of a finite set.                                              *)
(***************************************************************************)
EXTENDS ScoringEngine, Valuation, FiniteSetTheorems, WellFoundedInduction, TLAPS

(* Induction over finite sets: a set of subsets of a finite set has one of     *)
(* which it holds no proper subset.                                            *)
LEMMA SmallestSet ==
  ASSUME NEW S, IsFiniteSet(S), NEW B, B \subseteq SUBSET S, B # {}
  PROVE  \E s \in B : \A t \in B : ~(t \subseteq s /\ t # s)
<1>1. IsWellFoundedOn(StrictSubsetOrdering(S), FiniteSubsetsOf(S))
  BY FS_StrictSubsetOrderingWellFounded
<1>2. FiniteSubsetsOf(S) = SUBSET S
  BY FS_FiniteSubsetsOfFinite
<1>3. \E x \in B : \A y \in B : ~ (<<y, x>> \in StrictSubsetOrdering(S))
  BY <1>1, <1>2, WFMin
<1> QED BY <1>3 DEF StrictSubsetOrdering

(* The element that the library's folds take out of a set.                    *)
Taken(s) == CHOOSE x \in s : TRUE
Rest(s) == s \ {Taken(s)}

LEMMA RestSmaller ==
  ASSUME NEW s, s # {}
  PROVE  Taken(s) \in s /\ Rest(s) \subseteq s /\ Rest(s) # s
BY DEF Taken, Rest

(* g holds the sums of f over the subsets of S.                               *)
Sums(f, S, g) ==
  g = [s \in SUBSET S |-> IF s = {} THEN 0 ELSE f[Taken(s)] + g[Rest(s)]]

LEMMA SumsUnique ==
  ASSUME NEW f, NEW S, IsFiniteSet(S), NEW T, NEW g, NEW h, Sums(f, S, g), Sums(f, T, h),
         NEW u, u \subseteq S, u \subseteq T
  PROVE  g[u] = h[u]
<1> DEFINE B == {s \in SUBSET S : s \subseteq T /\ g[s] # h[s]}
<1>1. SUFFICES ASSUME B # {} PROVE FALSE
  OBVIOUS
<1>2. PICK s \in B : \A t \in B : ~(t \subseteq s /\ t # s)
  <2>1. B \subseteq SUBSET S
    OBVIOUS
  <2> HIDE DEF B
  <2> QED BY <1>1, <2>1, SmallestSet
<1>3. s # {}
  BY <1>2 DEF Sums
<1>4. g[s] = f[Taken(s)] + g[Rest(s)] /\ h[s] = f[Taken(s)] + h[Rest(s)]
  BY <1>3 DEF Sums
<1>5. g[Rest(s)] = h[Rest(s)]
  BY <1>2, <1>3, RestSmaller
<1> QED BY <1>2, <1>4, <1>5

LEMMA SumsExist ==
  ASSUME NEW f, NEW S, IsFiniteSet(S)
  PROVE  \E g : Sums(f, S, g)
<1> DEFINE B == {s \in SUBSET S : ~ \E g : Sums(f, s, g)}
<1>1. SUFFICES ASSUME B # {} PROVE FALSE
  OBVIOUS
<1>2. PICK s \in B : \A t \in B : ~(t \subseteq s /\ t # s)
  <2>1. B \subseteq SUBSET S
    OBVIOUS
  <2> HIDE DEF B
  <2> QED BY <1>1, <2>1, SmallestSet
<1> DEFINE H(t) == CHOOSE h : Sums(f, t, h)
           G == [t \in SUBSET s |-> IF t = {} THEN 0 ELSE f[Taken(t)] + H(Rest(t))[Rest(t)]]
<1>3. ASSUME NEW t \in SUBSET s, t # s
      PROVE  Sums(f, t, H(t)) /\ IsFiniteSet(t)
  <2>1. \E h : Sums(f, t, h)
    BY <1>2, <1>3
  <2>2. IsFiniteSet(t)
    BY FS_Subset
  <2> QED BY <2>1, <2>2
<1>4. ASSUME NEW t \in SUBSET s, t # {}
      PROVE  G[t] = f[Taken(t)] + G[Rest(t)]
  <2> DEFINE u == Rest(t)
  <2>1. u \in SUBSET s /\ u # s
    BY <1>4, RestSmaller
  <2>2. Sums(f, u, H(u)) /\ IsFiniteSet(u)
    BY <2>1, <1>3
  <2>3. G[t] = f[Taken(t)] + H(u)[u]
    BY <1>4
  <2>4. CASE u = {}
    <3>1. H(u)[u] = 0
      <4> HIDE DEF H, u
      <4> QED BY <2>2, <2>4 DEF Sums
    <3>2. G[u] = 0
      BY <2>1, <2>4
    <3> HIDE DEF G, u, H
    <3> QED BY <2>3, <3>1, <3>2 DEF u
  <2>5. CASE u # {}
    <3> DEFINE v == Rest(u)
    <3>1. v \in SUBSET s /\ v # s /\ v \subseteq u
      BY <2>1, <2>5, RestSmaller
    <3>2. Sums(f, v, H(v)) /\ IsFiniteSet(v)
      BY <3>1, <1>3
    <3>3. H(u)[v] = H(v)[v]
      <4> HIDE DEF H, u, v
      <4> QED BY <2>2, <3>1, <3>2, SumsUnique
    <3>4. H(u)[u] = f[Taken(u)] + H(u)[v]
      <4> HIDE DEF H, u
      <4> QED BY <2>2, <2>5 DEF Sums
    <3>5. G[u] = f[Taken(u)] + H(v)[v]
      BY <2>1, <2>5
    <3> HIDE DEF G, u, v, H
    <3> QED BY <2>3, <3>3, <3>4, <3>5 DEF u
  <2> QED BY <2>4, <2>5
<1>5. Sums(f, s, G)
  <2>1. G = [t \in SUBSET s |-> IF t = {} THEN 0 ELSE f[Taken(t)] + G[Rest(t)]]
    <3>1. G = [t \in SUBSET s |-> G[t]] /\ G[{}] = 0
      OBVIOUS
    <3> HIDE DEF G
    <3>2. \A t \in SUBSET s : G[t] = IF t = {} THEN 0 ELSE f[Taken(t)] + G[Rest(t)]
      BY <3>1, <1>4
    <3> QED BY <3>1, <3>2
  <2> HIDE DEF G
  <2> QED BY <2>1 DEF Sums
<1> QED BY <1>2, <1>5

(* The library's sum over a finite set, by its elements.                      *)
LEMMA SumEmpty ==
  ASSUME NEW f
  PROVE  SumFunctionOnSet(f, {}) = 0
<1>1. SumFunctionOnSet(f, {}) = (CHOOSE g : Sums(f, {}, g))[{}]
  BY DEF SumFunctionOnSet, FoldFunctionOnSet, MapThenFoldSet, Sums, Taken, Rest
<1>2. \E g : Sums(f, {}, g)
  BY SumsExist, FS_EmptySet
<1>3. Sums(f, {}, CHOOSE g : Sums(f, {}, g))
  BY <1>2
<1> DEFINE g == CHOOSE g : Sums(f, {}, g)
<1> HIDE DEF g
<1> QED BY <1>1, <1>3 DEF Sums, g

LEMMA SumStep ==
  ASSUME NEW f, NEW S, IsFiniteSet(S), S # {}
  PROVE  SumFunctionOnSet(f, S) = f[Taken(S)] + SumFunctionOnSet(f, Rest(S))
<1> DEFINE H(t) == CHOOSE h : Sums(f, t, h)
<1>1. ASSUME NEW t PROVE SumFunctionOnSet(f, t) = H(t)[t]
  BY DEF SumFunctionOnSet, FoldFunctionOnSet, MapThenFoldSet, Sums, Taken, Rest
<1>2. IsFiniteSet(Rest(S)) /\ Rest(S) \subseteq S
  BY FS_Subset, RestSmaller
<1>3. Sums(f, S, H(S)) /\ Sums(f, Rest(S), H(Rest(S)))
  BY <1>2, SumsExist
<1> HIDE DEF H
<1>4. H(S)[Rest(S)] = H(Rest(S))[Rest(S)]
  BY <1>2, <1>3, SumsUnique
<1>5. H(S)[S] = f[Taken(S)] + H(S)[Rest(S)]
  BY <1>3 DEF Sums
<1> QED BY <1>1, <1>4, <1>5

(* Sums of natural numbers, compared element by element.                      *)
LEMMA SumInt ==
  ASSUME NEW S, IsFiniteSet(S), NEW f, \A x \in S : f[x] \in Int
  PROVE  SumFunctionOnSet(f, S) \in Int
<1> DEFINE B == {s \in SUBSET S : SumFunctionOnSet(f, s) \notin Int}
<1>1. SUFFICES ASSUME B # {} PROVE FALSE
  OBVIOUS
<1>2. PICK s \in B : \A t \in B : ~(t \subseteq s /\ t # s)
  <2>1. B \subseteq SUBSET S
    OBVIOUS
  <2> HIDE DEF B
  <2> QED BY <1>1, <2>1, SmallestSet
<1>0. ~({} \in B)
  BY SumEmpty
<1>3. s # {}
  <2> HIDE DEF B
  <2> QED BY <1>0, <1>2
<1>4. IsFiniteSet(s)
  BY FS_Subset
<1>5. SumFunctionOnSet(f, s) = f[Taken(s)] + SumFunctionOnSet(f, Rest(s))
  BY <1>3, <1>4, SumStep
<1>6. SumFunctionOnSet(f, Rest(s)) \in Int
  BY <1>2, <1>3, RestSmaller
<1> QED BY <1>2, <1>3, <1>5, <1>6, RestSmaller

LEMMA SumAtMost ==
  ASSUME NEW S, IsFiniteSet(S), NEW f, NEW g, NEW k \in Nat,
         \A x \in S : f[x] \in Nat /\ g[x] \in Nat /\ f[x] <= k * g[x]
  PROVE  /\ SumFunctionOnSet(f, S) \in Nat /\ SumFunctionOnSet(g, S) \in Nat
         /\ SumFunctionOnSet(f, S) <= k * SumFunctionOnSet(g, S)
<1> DEFINE OK(s) == /\ SumFunctionOnSet(f, s) \in Nat /\ SumFunctionOnSet(g, s) \in Nat
                    /\ SumFunctionOnSet(f, s) <= k * SumFunctionOnSet(g, s)
           B == {s \in SUBSET S : ~OK(s)}
<1>1. SUFFICES ASSUME B # {} PROVE FALSE
  OBVIOUS
<1>2. PICK s \in B : \A t \in B : ~(t \subseteq s /\ t # s)
  <2>1. B \subseteq SUBSET S
    OBVIOUS
  <2> HIDE DEF B
  <2> QED BY <1>1, <2>1, SmallestSet
<1>0. ~({} \in B)
  BY SumEmpty
<1>3. s # {}
  <2> HIDE DEF B
  <2> QED BY <1>0, <1>2
<1>4. IsFiniteSet(s)
  BY FS_Subset
<1>5. /\ SumFunctionOnSet(f, s) = f[Taken(s)] + SumFunctionOnSet(f, Rest(s))
      /\ SumFunctionOnSet(g, s) = g[Taken(s)] + SumFunctionOnSet(g, Rest(s))
  BY <1>3, <1>4, SumStep
<1>6. OK(Rest(s))
  BY <1>2, <1>3, RestSmaller
<1>7. Taken(s) \in S
  BY <1>2, <1>3, RestSmaller
<1>8. OK(s)
  <2>1. ASSUME NEW a \in Nat, NEW b \in Nat, NEW c \in Nat, NEW d \in Nat, a <= k * b, c <= k * d
        PROVE  a + c \in Nat /\ b + d \in Nat /\ a + c <= k * (b + d)
    BY <2>1
  <2> QED BY <1>5, <1>6, <1>7, <2>1
<1> QED BY <1>2, <1>8
-----------------------------------------------------------------------------
(* A finite set of integers has a greatest and a least member.                *)
LEMMA Greatest ==
  ASSUME NEW S, IsFiniteSet(S), S # {}, \A x \in S : x \in Int
  PROVE  Max(S) \in S /\ \A y \in S : Max(S) >= y
<1> DEFINE Has(s) == \E x \in s : \A y \in s : x >= y
           B == {s \in SUBSET S : s # {} /\ ~Has(s)}
<1>1. ASSUME B # {} PROVE FALSE
  <2>1. PICK s \in B : \A t \in B : ~(t \subseteq s /\ t # s)
    <3>1. B \subseteq SUBSET S
      OBVIOUS
    <3>2. B # {}
      BY <1>1
    <3> HIDE DEF B, Has
    <3> QED BY <3>1, <3>2, SmallestSet
  <2>2. PICK x \in s : TRUE
    BY <2>1
  <2>3. ~Has(s) /\ \A y \in s : y \in Int
    BY <2>1
  <2>4. CASE s = {x}
    BY <2>2, <2>3, <2>4
  <2>5. CASE s # {x}
    <3>1. Has(s \ {x})
      <4>1. s \ {x} \in SUBSET S /\ s \ {x} # {} /\ s \ {x} \subseteq s /\ s \ {x} # s
        BY <2>1, <2>2, <2>5
      <4>2. s \ {x} \notin B
        <5> HIDE DEF B
        <5> QED BY <2>1, <4>1
      <4> QED BY <4>1, <4>2
    <3>2. PICK m \in s \ {x} : \A y \in s \ {x} : m >= y
      BY <3>1
    <3>3. m \in Int /\ x \in Int
      BY <2>1, <2>2, <3>2
    <3>4. CASE m >= x
      BY <2>1, <3>2, <3>3, <3>4
    <3>5. CASE x >= m
      <4>1. \A y \in s : x >= y
        BY <2>1, <3>2, <3>3, <3>5
      <4> QED BY <2>2, <2>3, <4>1
    <3> QED BY <3>3, <3>4, <3>5
  <2> QED BY <2>4, <2>5
<1>2. Has(S)
  BY <1>1
<1> QED BY <1>2 DEF Max

LEMMA Smallest ==
  ASSUME NEW S, IsFiniteSet(S), S # {}, \A x \in S : x \in Int
  PROVE  Min(S) \in S /\ \A y \in S : Min(S) =< y
<1> DEFINE Has(s) == \E x \in s : \A y \in s : x =< y
           B == {s \in SUBSET S : s # {} /\ ~Has(s)}
<1>1. ASSUME B # {} PROVE FALSE
  <2>1. PICK s \in B : \A t \in B : ~(t \subseteq s /\ t # s)
    <3>1. B \subseteq SUBSET S
      OBVIOUS
    <3>2. B # {}
      BY <1>1
    <3> HIDE DEF B, Has
    <3> QED BY <3>1, <3>2, SmallestSet
  <2>2. PICK x \in s : TRUE
    BY <2>1
  <2>3. ~Has(s) /\ \A y \in s : y \in Int
    BY <2>1
  <2>4. CASE s = {x}
    BY <2>2, <2>3, <2>4
  <2>5. CASE s # {x}
    <3>1. Has(s \ {x})
      <4>1. s \ {x} \in SUBSET S /\ s \ {x} # {} /\ s \ {x} \subseteq s /\ s \ {x} # s
        BY <2>1, <2>2, <2>5
      <4>2. s \ {x} \notin B
        <5> HIDE DEF B
        <5> QED BY <2>1, <4>1
      <4> QED BY <4>1, <4>2
    <3>2. PICK m \in s \ {x} : \A y \in s \ {x} : m =< y
      BY <3>1
    <3>3. m \in Int /\ x \in Int
      BY <2>1, <2>2, <3>2
    <3>4. CASE m =< x
      BY <2>1, <3>2, <3>3, <3>4
    <3>5. CASE x =< m
      <4>1. \A y \in s : x =< y
        BY <2>1, <3>2, <3>3, <3>5
      <4> QED BY <2>2, <2>3, <4>1
    <3> QED BY <3>3, <3>4, <3>5
  <2> QED BY <2>4, <2>5
<1>2. Has(S)
  BY <1>1
<1> QED BY <1>2 DEF Min

-----------------------------------------------------------------------------
(* Division of whole numbers.                                                 *)
LEMMA Division ==
  ASSUME NEW n \in Int, NEW d \in Nat, d > 0
  PROVE  n \div d \in Int /\ (n % d) \in 0 .. d - 1 /\ n = d * (n \div d) + (n % d)
OBVIOUS

LEMMA QuotientBounds ==
  ASSUME NEW n \in Nat, NEW d \in Nat, d > 0, NEW K \in Nat, n <= K * d
  PROVE  n \div d \in 0 .. K /\ (n \div d = K => (n % d) = 0)
BY Division

LEMMA QuotientMonotone ==
  ASSUME NEW n \in Int, NEW m \in Int, NEW d \in Nat, d > 0, n <= m
  PROVE  n \div d <= m \div d
BY Division

LEMMA Products ==
  ASSUME NEW w \in Nat, NEW p \in Nat, NEW q \in Nat, p <= q
  PROVE  w * p \in Nat /\ w * q \in Nat /\ w * p <= q * w /\ w * p <= w * q
OBVIOUS

(* Rounding to the nearest stays within whole bounds and keeps the order.      *)
LEMMA PyRoundRange ==
  ASSUME NEW n \in Nat, NEW d \in Nat, d > 0, NEW K \in Nat, n <= K * d
  PROVE  PyRound(n, d) \in Nat /\ PyRound(n, d) <= K
<1> DEFINE q == n \div d
           r == n % d
<1>1. q \in 0 .. K /\ (q = K => r = 0) /\ r \in 0 .. d - 1
  BY QuotientBounds, Division
<1>2. PyRound(n, d) = IF 2 * r > d \/ (2 * r = d /\ q % 2 = 1) THEN q + 1 ELSE q
  BY DEF PyRound
<1> HIDE DEF q, r
<1> QED BY <1>1, <1>2

LEMMA PyRoundMonotone ==
  ASSUME NEW n \in Nat, NEW m \in Nat, NEW d \in Nat, d > 0, n <= m
  PROVE  PyRound(n, d) <= PyRound(m, d)
<1> DEFINE q == n \div d
           r == n % d
           p == m \div d
           o == m % d
<1>1. /\ q \in Int /\ r \in 0 .. d - 1 /\ n = d * q + r
      /\ p \in Int /\ o \in 0 .. d - 1 /\ m = d * p + o
  BY Division
<1>2. q <= p
  BY QuotientMonotone
<1>3. /\ PyRound(n, d) = IF 2 * r > d \/ (2 * r = d /\ q % 2 = 1) THEN q + 1 ELSE q
      /\ PyRound(m, d) = IF 2 * o > d \/ (2 * o = d /\ p % 2 = 1) THEN p + 1 ELSE p
  BY DEF PyRound
<1> HIDE DEF q, r, p, o
<1>4. CASE q = p
  <2>1. r <= o
    BY <1>1, <1>4
  <2> QED BY <1>1, <1>3, <1>4, <2>1
<1>5. CASE q < p
  <2>1. q + 1 <= p
    BY <1>1, <1>5
  <2> QED BY <1>1, <1>3, <2>1
<1> QED BY <1>1, <1>2, <1>4, <1>5
-----------------------------------------------------------------------------
(* The parts of a score that count.                                           *)
Counted(parts, applies) == {s \in parts : s.code \in applies}

LEMMA Scales == TopPoints \in Nat /\ TopPoints > 0 /\ TopScore \in Nat /\ TopScore > 0 /\ TopScore * TopScore = TopPoints * 100
BY DEF TopPoints, TopScore

(* Points of every sub-score.                                                 *)
PointsOf == [Code -> 0 .. TopPoints]

LEMMA PointsRange ==
  ASSUME NEW points \in PointsOf, NEW c \in Code
  PROVE  points[c] \in Nat /\ points[c] <= TopPoints
<1> DEFINE p == points[c]
<1>1. p \in 0 .. TopPoints
  BY DEF PointsOf
<1> HIDE DEF p
<1>2. p \in Nat /\ p <= TopPoints
  BY <1>1
<1> QED BY <1>2 DEF p

LEMMA CountedFacts ==
  ASSUME NEW parts \in SUBSET Rubric, NEW applies
  PROVE  /\ IsFiniteSet(Counted(parts, applies))
         /\ \A s \in Counted(parts, applies) : s.code \in Code /\ s.weight \in Nat
<1>1. IsFiniteSet(Rubric) /\ \A s \in Rubric : s.weight \in Nat
  BY RubricAssumption
<1>2. Counted(parts, applies) \subseteq Rubric
  BY DEF Counted
<1> QED BY <1>1, <1>2, FS_Subset DEF Code

LEMMA WeightedMeanRange ==
  ASSUME NEW parts \in SUBSET Rubric, NEW points \in PointsOf, NEW applies,
         NEW unit \in Nat, unit > 0, NEW top \in Nat, top * unit = TopPoints
  PROVE  /\ WeightedMean(parts, points, applies, unit) \in Nat
         /\ WeightedMean(parts, points, applies, unit) <= top
<1>0. /\ IsFiniteSet(Counted(parts, applies))
      /\ \A s \in Counted(parts, applies) : s.code \in Code /\ s.weight \in Nat
  BY CountedFacts
<1> DEFINE counted == Counted(parts, applies)
           f == [s \in counted |-> s.weight * points[s.code]]
           g == [s \in counted |-> s.weight]
           sum == SumFunctionOnSet(f, counted)
           weight == SumFunctionOnSet(g, counted)
<1>1. WeightedMean(parts, points, applies, unit)
        = IF weight = 0 THEN 0 ELSE PyRound(sum, weight * unit)
  BY DEF WeightedMean, Counted, SumFunction
<1>2. sum \in Nat /\ weight \in Nat /\ sum <= TopPoints * weight
  <2>1. \A s \in counted : f[s] \in Nat /\ g[s] \in Nat /\ f[s] <= TopPoints * g[s]
    <3> SUFFICES ASSUME NEW s \in counted
                 PROVE  f[s] \in Nat /\ g[s] \in Nat /\ f[s] <= TopPoints * g[s]
      OBVIOUS
    <3>0. s.code \in Code /\ s.weight \in Nat
      BY <1>0
    <3>2. f[s] = s.weight * points[s.code] /\ g[s] = s.weight
      OBVIOUS
    <3> DEFINE w == s.weight
               p == points[s.code]
    <3>3. w \in Nat /\ p \in Nat /\ p <= TopPoints
      BY <3>0, PointsRange
    <3> HIDE DEF f, g, w, p
    <3>4. w * p \in Nat /\ w * p <= TopPoints * w
      BY <3>3, Scales, Products
    <3> QED BY <3>2, <3>3, <3>4 DEF w, p
  <2>2. IsFiniteSet(counted)
    BY <1>0
  <2> HIDE DEF f, g, counted
  <2> QED BY <2>1, <2>2, SumAtMost
<1>3. CASE weight # 0
  <2> HIDE DEF sum, weight
  <2>1. weight * unit \in Nat /\ weight * unit > 0
    BY <1>2, <1>3
  <2>2. sum <= top * (weight * unit)
    <3>1. top * (weight * unit) = (top * unit) * weight
      BY <1>2
    <3> QED BY <1>2, <3>1
  <2>3. PyRound(sum, weight * unit) \in Nat /\ PyRound(sum, weight * unit) <= top
    <3> DEFINE d == weight * unit
    <3>1. d \in Nat /\ d > 0 /\ sum <= top * d
      BY <2>1, <2>2
    <3> HIDE DEF d
    <3>2. PyRound(sum, d) \in Nat /\ PyRound(sum, d) <= top
      BY <1>2, <3>1, PyRoundRange
    <3> QED BY <3>2 DEF d
  <2> QED BY <1>1, <1>3, <2>3
<1>4. CASE weight = 0
  BY <1>1, <1>4
<1> QED BY <1>3, <1>4

(* No fewer points give no smaller mean over the same sub-scores.             *)
LEMMA WeightedMeanMonotone ==
  ASSUME NEW parts \in SUBSET Rubric, NEW applies, NEW unit \in Nat, unit > 0,
         NEW points \in PointsOf, NEW more \in PointsOf,
         \A c \in Code : points[c] <= more[c]
  PROVE  WeightedMean(parts, points, applies, unit) <= WeightedMean(parts, more, applies, unit)
<1>0. /\ IsFiniteSet(Counted(parts, applies))
      /\ \A s \in Counted(parts, applies) : s.code \in Code /\ s.weight \in Nat
  BY CountedFacts
<1> DEFINE counted == Counted(parts, applies)
           f == [s \in counted |-> s.weight * points[s.code]]
           h == [s \in counted |-> s.weight * more[s.code]]
           g == [s \in counted |-> s.weight]
           sum == SumFunctionOnSet(f, counted)
           larger == SumFunctionOnSet(h, counted)
           weight == SumFunctionOnSet(g, counted)
<1>1. /\ WeightedMean(parts, points, applies, unit)
           = IF weight = 0 THEN 0 ELSE PyRound(sum, weight * unit)
      /\ WeightedMean(parts, more, applies, unit)
           = IF weight = 0 THEN 0 ELSE PyRound(larger, weight * unit)
  BY DEF WeightedMean, Counted, SumFunction
<1>2. sum \in Nat /\ larger \in Nat /\ weight \in Nat /\ sum <= larger
  <2>1. \A s \in counted : /\ f[s] \in Nat /\ h[s] \in Nat /\ g[s] \in Nat
                           /\ f[s] <= 1 * h[s] /\ g[s] <= 1 * g[s]
    <3> SUFFICES ASSUME NEW s \in counted
                 PROVE  /\ f[s] \in Nat /\ h[s] \in Nat /\ g[s] \in Nat
                        /\ f[s] <= 1 * h[s] /\ g[s] <= 1 * g[s]
      OBVIOUS
    <3>0. s.code \in Code /\ s.weight \in Nat
      BY <1>0
    <3>2. f[s] = s.weight * points[s.code] /\ h[s] = s.weight * more[s.code] /\ g[s] = s.weight
      OBVIOUS
    <3> DEFINE w == s.weight
               p == points[s.code]
               q == more[s.code]
    <3>3. w \in Nat /\ p \in Nat /\ q \in Nat /\ p <= q
      BY <3>0, PointsRange
    <3> HIDE DEF f, g, h, w, p, q
    <3>4. w * p \in Nat /\ w * q \in Nat /\ w * p <= w * q
      BY <3>3, Products
    <3> QED BY <3>2, <3>3, <3>4 DEF w, p, q
  <2>2. IsFiniteSet(counted)
    BY <1>0
  <2> HIDE DEF f, g, h, counted
  <2>3. sum \in Nat /\ larger \in Nat /\ sum <= 1 * larger
    BY <2>1, <2>2, SumAtMost
  <2>4. weight \in Nat
    BY <2>1, <2>2, SumAtMost
  <2> QED BY <2>3, <2>4
<1>3. CASE weight # 0
  <2> HIDE DEF sum, weight, larger
  <2>1. weight * unit \in Nat /\ weight * unit > 0
    BY <1>2, <1>3
  <2>2. PyRound(sum, weight * unit) <= PyRound(larger, weight * unit)
    BY <1>2, <2>1, PyRoundMonotone
  <2> QED BY <1>1, <1>3, <2>2
<1>4. CASE weight = 0
  BY <1>1, <1>4
<1> QED BY <1>3, <1>4
-----------------------------------------------------------------------------
(* The DRS before the governor.                                               *)
RawDrs(points, applies) ==
  PyRound(SumFunction([d \in DOMAIN DrsWeight |->
                         DrsWeight[d] * WeightedMean({s \in Rubric : s.dim = d},
                                                     points, applies, 1)]),
          1000)

LEMMA RawDrsFacts ==
  ASSUME NEW applies, NEW points \in PointsOf, NEW more \in PointsOf,
         \A c \in Code : points[c] <= more[c]
  PROVE  /\ RawDrs(points, applies) \in Nat /\ RawDrs(points, applies) <= TopScore
         /\ RawDrs(points, applies) <= RawDrs(more, applies)
<1> DEFINE part(d) == {s \in Rubric : s.dim = d}
           m(d) == WeightedMean(part(d), points, applies, 1)
           n(d) == WeightedMean(part(d), more, applies, 1)
           D == DOMAIN DrsWeight
           f == [d \in D |-> DrsWeight[d] * m(d)]
           h == [d \in D |-> DrsWeight[d] * n(d)]
           sum == SumFunctionOnSet(f, D)
           larger == SumFunctionOnSet(h, D)
<1>1. /\ RawDrs(points, applies) = PyRound(sum, TopScore)
      /\ RawDrs(more, applies) = PyRound(larger, TopScore)
  BY DEF RawDrs, SumFunction, TopScore
<1>2. IsFiniteSet(D) /\ \A d \in D : DrsWeight[d] \in Nat
  BY RubricAssumption
<1>3. SumFunctionOnSet(DrsWeight, D) = 100
  BY RubricAssumption DEF SumFunction
<1>4. \A d \in D : m(d) \in Nat /\ m(d) <= TopPoints /\ n(d) \in Nat /\ m(d) <= n(d)
  <2> SUFFICES ASSUME NEW d \in D
               PROVE  m(d) \in Nat /\ m(d) <= TopPoints /\ n(d) \in Nat /\ m(d) <= n(d)
    OBVIOUS
  <2> DEFINE p == part(d)
  <2>0. 1 \in Nat /\ 1 > 0 /\ TopPoints \in Nat /\ TopPoints * 1 = TopPoints
    BY Scales
  <2>1. p \in SUBSET Rubric
    OBVIOUS
  <2> HIDE DEF p
  <2>2. /\ WeightedMean(p, points, applies, 1) \in Nat
        /\ WeightedMean(p, points, applies, 1) <= TopPoints
    BY <2>0, <2>1, WeightedMeanRange
  <2>3. WeightedMean(p, more, applies, 1) \in Nat
    BY <2>0, <2>1, WeightedMeanRange
  <2>4. WeightedMean(p, points, applies, 1) <= WeightedMean(p, more, applies, 1)
    BY <2>0, <2>1, WeightedMeanMonotone
  <2> QED BY <2>2, <2>3, <2>4 DEF p
<1>5. \A d \in D : /\ f[d] \in Nat /\ h[d] \in Nat
                   /\ f[d] <= 1 * h[d] /\ f[d] <= TopPoints * DrsWeight[d]
  <2> SUFFICES ASSUME NEW d \in D
               PROVE  /\ f[d] \in Nat /\ h[d] \in Nat
                      /\ f[d] <= 1 * h[d] /\ f[d] <= TopPoints * DrsWeight[d]
    OBVIOUS
  <2> DEFINE w == DrsWeight[d]
             p == m(d)
             q == n(d)
  <2>1. w \in Nat /\ p \in Nat /\ p <= TopPoints /\ q \in Nat /\ p <= q
    BY <1>2, <1>4
  <2>2. f[d] = w * p /\ h[d] = w * q
    OBVIOUS
  <2> HIDE DEF f, h, w, p, q
  <2>3. w * p \in Nat /\ w * q \in Nat /\ w * p <= w * q /\ w * p <= TopPoints * w
    BY <2>1, Scales, Products
  <2> QED BY <2>2, <2>3 DEF w
<1>6. sum \in Nat /\ larger \in Nat /\ sum <= larger
  <2> HIDE DEF f, h, D
  <2>1. sum \in Nat /\ larger \in Nat /\ sum <= 1 * larger
    BY <1>2, <1>5, SumAtMost
  <2> QED BY <2>1
<1>7. sum <= TopScore * TopScore
  <2> HIDE DEF f, D
  <2>0. TopPoints \in Nat
    BY Scales
  <2>1. \A d \in D : f[d] \in Nat /\ DrsWeight[d] \in Nat /\ f[d] <= TopPoints * DrsWeight[d]
    BY <1>2, <1>5, Zenon
  <2>2. sum <= TopPoints * SumFunctionOnSet(DrsWeight, D)
    BY <1>2, <2>0, <2>1, SumAtMost
  <2> QED BY <1>3, <1>6, <2>2, Scales
<1> HIDE DEF sum, larger
<1>8. TopScore \in Nat /\ TopScore > 0
  BY Scales
<1>9. PyRound(sum, TopScore) \in Nat /\ PyRound(sum, TopScore) <= TopScore
  BY <1>6, <1>7, <1>8, PyRoundRange
<1>10. PyRound(sum, TopScore) <= PyRound(larger, TopScore)
  BY <1>6, <1>8, PyRoundMonotone
<1> QED BY <1>1, <1>9, <1>10

(* The governor caps, and keeps the order of two scores under one standing of  *)
(* the largest customer or a better one.                                      *)
LEMMA GovernedFacts ==
  ASSUME NEW a, NEW b, NEW x \in Nat, NEW y \in Nat, x <= TopScore, y <= TopScore, x <= y,
         Governed(a, TopScore) <= Governed(b, TopScore)
  PROVE  /\ Governed(a, x) \in Nat /\ Governed(a, x) <= TopScore
         /\ Governed(a, x) <= Governed(b, y)
BY DEF Governed, Least, TopScore

LEMMA DrsFacts ==
  ASSUME NEW a, NEW applies, NEW points \in PointsOf, NEW more \in PointsOf,
         \A c \in Code : points[c] <= more[c], NEW b, Governed(a, TopScore) <= Governed(b, TopScore)
  PROVE  /\ Drs(a, points, applies) \in Nat /\ Drs(a, points, applies) <= TopScore
         /\ Drs(a, points, applies) <= Drs(b, more, applies)
<1> DEFINE x == RawDrs(points, applies)
           y == RawDrs(more, applies)
<1>1. Drs(a, points, applies) = Governed(a, x) /\ Drs(b, more, applies) = Governed(b, y)
  BY DEF Drs, RawDrs
<1>2. x \in Nat /\ x <= TopScore /\ x <= y
  BY RawDrsFacts
<1>3. y \in Nat /\ y <= TopScore
  <2>1. \A c \in Code : more[c] <= more[c]
    BY PointsRange
  <2> QED BY <2>1, RawDrsFacts
<1> HIDE DEF x, y
<1>4. /\ Governed(a, x) \in Nat /\ Governed(a, x) <= TopScore
      /\ Governed(a, x) <= Governed(b, y)
  BY <1>2, <1>3, GovernedFacts
<1> QED BY <1>1, <1>4

(* A projection lifts and stays on the scale.                                 *)
LEMMA LiftedFacts ==
  ASSUME NEW points \in PointsOf, NEW fired \in SUBSET Gaps
  PROVE  /\ Lifted(points, fired) \in PointsOf
         /\ \A c \in Code : points[c] <= Lifted(points, fired)[c]
<1> DEFINE missed(c) == {h \in fired : Below(h.trigger, c)}
           raised(c) == {100 * g.trigger.threshold : g \in missed(c)}
           all(c) == {points[c]} \cup raised(c)
<1>1. Lifted(points, fired) = [c \in Code |-> Max(all(c))]
  BY DEF Lifted
<1>2. ASSUME NEW c \in Code
      PROVE  Max(all(c)) \in 0 .. TopPoints /\ points[c] <= Max(all(c))
  <2>1. \A g \in missed(c) : g.trigger.threshold \in 0 .. 100
    BY RubricAssumption DEF Below, Points
  <2>3. raised(c) \subseteq 0 .. TopPoints
    <3> HIDE DEF missed
    <3> QED BY <2>1 DEF TopPoints
  <2>4. IsFiniteSet(raised(c))
    <3> HIDE DEF raised
    <3>1. IsFiniteSet(0 .. TopPoints)
      <4>1. 0 \in Int /\ TopPoints \in Int
        BY Scales
      <4> QED BY <4>1, FS_Interval
    <3> QED BY <2>3, <3>1, FS_Subset
  <2>5. points[c] \in 0 .. TopPoints
    BY DEF PointsOf
  <2>6. IsFiniteSet(all(c)) /\ all(c) # {} /\ points[c] \in all(c)
    <3> HIDE DEF raised
    <3> QED BY <2>4, FS_Union, FS_Singleton
  <2>7. \A x \in all(c) : x \in 0 .. TopPoints /\ x \in Int
    <3>1. \A x \in 0 .. TopPoints : x \in Int
      OBVIOUS
    <3> HIDE DEF raised
    <3>2. \A x \in all(c) : x = points[c] \/ x \in raised(c)
      OBVIOUS
    <3> HIDE DEF all
    <3> QED BY <2>3, <2>5, <3>1, <3>2, Zenon
  <2> HIDE DEF all
  <2>8. Max(all(c)) \in all(c) /\ \A y \in all(c) : Max(all(c)) >= y
    <3> DEFINE A == all(c)
    <3>1. IsFiniteSet(A) /\ A # {} /\ \A x \in A : x \in Int
      BY <2>6, <2>7
    <3> HIDE DEF A
    <3>2. Max(A) \in A /\ \A y \in A : Max(A) >= y
      BY <3>1, Greatest
    <3> QED BY <3>2 DEF A
  <2>9. Max(all(c)) >= points[c]
    BY <2>6, <2>8
  <2> QED BY <2>5, <2>7, <2>8, <2>9
<1> HIDE DEF all
<1> QED BY <1>1, <1>2 DEF PointsOf
-----------------------------------------------------------------------------
(* The bands give points, or what otherwise applies.                           *)
LEMMA BandPoints ==
  ASSUME NEW bands \in Bands, NEW otherwise \in Points, NEW R, R \subseteq DOMAIN bands
  PROVE  (IF R = {} THEN otherwise ELSE bands[Min(R)][2]) \in Points
<1>1. CASE R = {}
  BY <1>1
<1>2. CASE R # {}
  <2>1. DOMAIN bands = 1 .. Len(bands) /\ Len(bands) \in Nat
    BY DEF Bands
  <2>2. IsFiniteSet(R) /\ \A x \in R : x \in Int
    <3>1. 1 \in Int /\ Len(bands) \in Int
      BY <2>1
    <3>2. IsFiniteSet(1 .. Len(bands))
      BY <3>1, FS_Interval
    <3> QED BY <2>1, <3>2, FS_Subset
  <2>3. Min(R) \in R
    BY <1>2, <2>2, Smallest
  <2>4. bands[Min(R)] \in Int \X Points
    BY <2>1, <2>3 DEF Bands
  <2> QED BY <1>2, <2>4
<1> QED BY <1>1, <1>2

LEMMA BandGtePoints ==
  ASSUME NEW bands \in Bands, NEW otherwise \in Points, NEW n, NEW d
  PROVE  BandGte(n, d, bands, otherwise) \in Points
<1> DEFINE R == {i \in DOMAIN bands : n >= bands[i][1] * d}
<1>1. BandGte(n, d, bands, otherwise) = IF R = {} THEN otherwise ELSE bands[Min(R)][2]
  BY DEF BandGte, FirstBand
<1>2. R \subseteq DOMAIN bands
  OBVIOUS
<1> HIDE DEF R
<1> QED BY <1>1, <1>2, BandPoints

LEMMA BandLtPoints ==
  ASSUME NEW bands \in Bands, NEW otherwise \in Points, NEW v
  PROVE  BandLt(v, bands, otherwise) \in Points
<1> DEFINE R == {i \in DOMAIN bands : v < bands[i][1]}
<1>1. BandLt(v, bands, otherwise) = IF R = {} THEN otherwise ELSE bands[Min(R)][2]
  BY DEF BandLt, FirstBand
<1>2. R \subseteq DOMAIN bands
  OBVIOUS
<1> HIDE DEF R
<1> QED BY <1>1, <1>2, BandPoints

LEMMA GrowthPoints ==
  ASSUME NEW annual
  PROVE  GrowthConsistency(annual) \in Points
<1> DEFINE met == {q \in GrowthRules : Grows(annual, q[2]) /\ DownYears(annual) <= q[3]}
           all == {0} \cup {r[1] : r \in met}
<1>1. GrowthConsistency(annual) = Max(all)
  BY DEF GrowthConsistency
<1>2. all \subseteq Points
  BY DEF GrowthRules, Points
<1>3. IsFiniteSet(all) /\ all # {} /\ \A x \in all : x \in Int
  <2>1. 0 \in Int /\ 100 \in Int /\ \A x \in Points : x \in Int
    BY DEF Points
  <2>2. IsFiniteSet(Points)
    BY <2>1, FS_Interval DEF Points
  <2>3. all # {}
    OBVIOUS
  <2> HIDE DEF all
  <2> QED BY <1>2, <2>1, <2>2, <2>3, FS_Subset
<1> HIDE DEF all
<1> QED BY <1>1, <1>2, <1>3, Greatest

(* Answers that are considered and pass the validation.                       *)
Answers(a) == \A q \in Question : a[q] \in Values[q] /\ DomainOK(q, a[q])

LEMMA NumberAsked ==
  ASSUME NEW a, Answers(a), NEW q \in Question
  PROVE  /\ AnswerType[q] = "numeric" => a[q] \in Nat
         /\ AnswerType[q] = "scale_1_5" => a[q] \in 1 .. 5
<1>1. a[q] \in Values[q] /\ DomainOK(q, a[q])
  BY DEF Answers
<1>2. CASE AnswerType[q] = "scale_1_5"
  BY <1>1, <1>2 DEF DomainOK
<1>3. CASE AnswerType[q] = "numeric"
  <2> DEFINE v == a[q]
  <2>1. v \in Int
    BY <1>1, <1>3, ValuesAssumption DEF Question
  <2>2. v >= IF q = "OPS-FUNC-COUNT" THEN 1 ELSE 0
    BY <1>1, <1>3 DEF DomainOK
  <2> HIDE DEF v
  <2>3. v \in Nat
    BY <2>1, <2>2
  <2> QED BY <1>3, <2>3 DEF v
<1> QED BY <1>2, <1>3

(* The points for contracts that cover v percent, with m months left.          *)
Durable(v, m) == PyRound(10000 * Least(v, 75) * Least(m, 18), 75 * 18)

LEMMA DurabilityPoints ==
  ASSUME NEW v \in Nat, NEW m \in Nat
  PROVE  Durable(v, m) \in 0 .. TopPoints
<1> DEFINE x == Least(v, 75)
           y == Least(m, 18)
           n == 10000 * x * y
           d == 75 * 18
<1>1. x \in Nat /\ y \in Nat /\ x <= 75 /\ y <= 18
  BY DEF Least
<1> HIDE DEF x, y
<1>2. x * y \in Nat /\ x * y <= 75 * 18
  <2>1. x * y \in Nat /\ x * y <= x * 18
    BY <1>1, Products
  <2> QED BY <1>1, <2>1
<1>3. n \in Nat /\ n <= TopPoints * d
  <2> DEFINE z == x * y
  <2>1. z \in Nat /\ z <= 75 * 18 /\ n = 10000 * z
    BY <1>1, <1>2
  <2> HIDE DEF z, n
  <2> QED BY <2>1 DEF TopPoints
<1>4. d \in Nat /\ d > 0
  OBVIOUS
<1> HIDE DEF n, d
<1>5. PyRound(n, d) \in Nat /\ PyRound(n, d) <= TopPoints
  BY <1>3, <1>4, Scales, PyRoundRange
<1> DEFINE p == PyRound(n, d)
<1>6. p \in Nat /\ p <= TopPoints
  BY <1>5
<1> HIDE DEF p
<1>7. p \in 0 .. TopPoints
  BY <1>6, Scales
<1> QED BY <1>7 DEF p, n, d, x, y, Durable
-----------------------------------------------------------------------------
(* Every formula of the rubric gives points on the scale.                      *)
LEMMA Percent ==
  ASSUME NEW p \in Points
  PROVE  100 * p \in 0 .. TopPoints
BY DEF Points, TopPoints

LEMMA SubScorePoints ==
  ASSUME NEW s \in Rubric, NEW a, Answers(a)
  PROVE  HundredPoints(s, a) \in 0 .. TopPoints
<1> DEFINE v == a[s.input[1]]
           L == s.logic
<1>1. /\ s.input # <<>> /\ LogicOK(s) /\ s.input \in Seq(Question)
      /\ DOMAIN s.input = 1 .. Len(s.input) /\ 1 \in DOMAIN s.input
  <2>1. s.input # <<>> /\ LogicOK(s) /\ s.input \in Seq(Question)
    BY RubricAssumption DEF Question
  <2>2. DOMAIN s.input = 1 .. Len(s.input) /\ 1 \in DOMAIN s.input
    BY <2>1
  <2> QED BY <2>1, <2>2
<1>2. s.input[1] \in Question
  BY <1>1
<1>3. CASE s.formula = "band_gte"
  <2> DEFINE p == IF v = Unknown THEN L.unknown
                  ELSE BandGte(v, 1, L.bands, L.bands[Len(L.bands)][2])
  <2>1. HundredPoints(s, a) = 100 * p
    BY <1>3 DEF HundredPoints
  <2>2. L.bands \in Bands /\ L.bands # <<>> /\ L.unknown \in Points
    BY <1>1, <1>3 DEF LogicOK
  <2>3. L.bands[Len(L.bands)][2] \in Points
    BY <2>2 DEF Bands
  <2>4. BandGte(v, 1, L.bands, L.bands[Len(L.bands)][2]) \in Points
    BY <2>2, <2>3, BandGtePoints
  <2>5. p \in Points
    BY <2>2, <2>4
  <2> HIDE DEF p
  <2> QED BY <2>1, <2>5, Percent
<1>4. CASE s.formula = "band_ascending"
  <2> DEFINE p == BandLt(v, L.bands_lt, L.else)
  <2>1. HundredPoints(s, a) = 100 * p
    BY <1>4 DEF HundredPoints
  <2>2. L.bands_lt \in Bands /\ L.else \in Points
    BY <1>1, <1>4 DEF LogicOK
  <2>3. p \in Points
    BY <2>2, BandLtPoints
  <2> HIDE DEF p
  <2> QED BY <2>1, <2>3, Percent
<1>5. CASE s.formula = "select_map"
  <2> DEFINE p == L.map[v]
  <2>1. HundredPoints(s, a) = 100 * p
    BY <1>5 DEF HundredPoints
  <2>2. v \in Values[s.input[1]]
    BY <1>2 DEF Answers
  <2>3. p \in Points
    BY <1>1, <1>5, <2>2 DEF LogicOK
  <2> HIDE DEF p
  <2> QED BY <2>1, <2>3, Percent
<1>6. CASE s.formula = "scale_map"
  <2> DEFINE p == (v - 1) * 25
  <2>1. HundredPoints(s, a) = 100 * p
    BY <1>6 DEF HundredPoints
  <2>2. AnswerType[s.input[1]] = "scale_1_5"
    BY <1>1, <1>6 DEF LogicOK, Asks
  <2>3. v \in 1 .. 5
    BY <1>2, <2>2, NumberAsked
  <2>4. p \in Points
    <3> HIDE DEF v
    <3> QED BY <2>3 DEF Points
  <2> HIDE DEF p
  <2> QED BY <2>1, <2>4, Percent
<1>7. CASE s.formula = "hhi_from_top5"
  <2> DEFINE q == BandLt(Total([i \in DOMAIN v |-> v[i] * v[i]]), L.bands_lt, L.else)
             p == IF v[1] > L.cap[1] THEN Least(q, L.cap[2]) ELSE q
  <2>1. HundredPoints(s, a) = 100 * p
    BY <1>7 DEF HundredPoints
  <2>2. L.bands_lt \in Bands /\ L.else \in Points /\ L.cap[2] \in Points
    BY <1>1, <1>7 DEF LogicOK
  <2>3. q \in Points
    BY <2>2, BandLtPoints
  <2>4. p \in Points
    <3> HIDE DEF q
    <3> QED BY <2>2, <2>3 DEF Least
  <2> HIDE DEF p
  <2> QED BY <2>1, <2>4, Percent
<1>8. CASE s.formula = "durability"
  <2>1. HundredPoints(s, a) = Durable(v, a[s.input[2]])
    BY <1>8 DEF HundredPoints, Durable
  <2>2. Len(s.input) = 2 /\ Asks(s, "numeric")
    BY <1>1, <1>8 DEF LogicOK
  <2>3. 2 \in DOMAIN s.input /\ s.input[2] \in Question
    BY <1>1, <2>2
  <2>4. v \in Nat /\ a[s.input[2]] \in Nat
    BY <1>1, <1>2, <2>2, <2>3, NumberAsked DEF Asks
  <2> HIDE DEF v
  <2> QED BY <2>1, <2>4, DurabilityPoints
<1>9. CASE s.formula = "growth_consistency"
  <2> DEFINE p == GrowthConsistency(v)
  <2>1. HundredPoints(s, a) = 100 * p
    BY <1>9 DEF HundredPoints
  <2>2. p \in Points
    BY GrowthPoints
  <2> HIDE DEF p
  <2> QED BY <2>1, <2>2, Percent
<1>10. CASE s.formula = "cagr_band"
  <2> DEFINE R == {i \in DOMAIN L.bands : Grows(v, L.bands[i][1])}
             p == IF R = {} THEN L.else ELSE L.bands[Min(R)][2]
  <2>1. HundredPoints(s, a) = 100 * p
    BY <1>10 DEF HundredPoints, FirstBand
  <2>2. L.bands \in Bands /\ L.else \in Points
    BY <1>1, <1>10 DEF LogicOK
  <2>3. p \in Points
    <3>1. R \subseteq DOMAIN L.bands
      OBVIOUS
    <3> HIDE DEF R
    <3> QED BY <2>2, <3>1, BandPoints
  <2> HIDE DEF p
  <2> QED BY <2>1, <2>3, Percent
<1>11. CASE s.formula = "depth_ratio"
  <2> DEFINE p == BandGte(100 * v, a[s.input[2]], L.bands, L.else)
  <2>1. HundredPoints(s, a) = 100 * p
    BY <1>11 DEF HundredPoints
  <2>2. L.bands \in Bands /\ L.else \in Points
    BY <1>1, <1>11 DEF LogicOK
  <2>3. p \in Points
    BY <2>2, BandGtePoints
  <2> HIDE DEF p
  <2> QED BY <2>1, <2>3, Percent
<1>12. CASE s.formula = "pipeline_ratio"
  <2> DEFINE n == a[s.input[2]]
             q == BandGte(10 * v * Len(n), Total(n), L.bands, L.else)
             p == IF v <= 0 THEN 0 ELSE q
  <2>1. HundredPoints(s, a) = 100 * p
    BY <1>12 DEF HundredPoints
  <2>2. L.bands \in Bands /\ L.else \in Points
    BY <1>1, <1>12 DEF LogicOK
  <2>3. q \in Points
    BY <2>2, BandGtePoints
  <2>4. p \in Points
    <3> HIDE DEF q
    <3> QED BY <2>3 DEF Points
  <2> HIDE DEF p
  <2> QED BY <2>1, <2>4, Percent
<1>13. CASE s.formula = "top1_band"
  <2> DEFINE q == BandLt(v[1], L.bands_lt, L.else)
             p == IF Anchored(a, L.anchor.gte, L.anchor.months)
                  THEN Most(q, L.anchor.floor) ELSE q
  <2>1. HundredPoints(s, a) = 100 * p
    BY <1>13 DEF HundredPoints
  <2>2. L.bands_lt \in Bands /\ L.else \in Points /\ L.anchor.floor \in Points
    BY <1>1, <1>13 DEF LogicOK
  <2>3. q \in Points
    BY <2>2, BandLtPoints
  <2>4. p \in Points
    <3> HIDE DEF q
    <3> QED BY <2>2, <2>3 DEF Most
  <2> HIDE DEF p
  <2> QED BY <2>1, <2>4, Percent
<1>14. CASE s.formula = "top5_band"
  <2> DEFINE p == BandLt(Total(v), L.bands_lt, L.else)
  <2>1. HundredPoints(s, a) = 100 * p
    BY <1>14 DEF HundredPoints
  <2>2. L.bands_lt \in Bands /\ L.else \in Points
    BY <1>1, <1>14 DEF LogicOK
  <2>3. p \in Points
    BY <2>2, BandLtPoints
  <2> HIDE DEF p
  <2> QED BY <2>1, <2>3, Percent
<1>15. s.formula \in {"band_gte", "band_ascending", "select_map", "scale_map", "hhi_from_top5",
                      "durability", "growth_consistency", "cagr_band", "depth_ratio",
                      "pipeline_ratio", "top1_band", "top5_band"}
  BY <1>1 DEF LogicOK
<1> HIDE DEF v, L
<1> QED BY <1>3, <1>4, <1>5, <1>6, <1>7, <1>8, <1>9, <1>10, <1>11, <1>12, <1>13, <1>14, <1>15
-----------------------------------------------------------------------------
(* What is scored: an answer to every question, from those considered.        *)
Considered(a) == a = [q \in Question |-> a[q]] /\ \A q \in Question : a[q] \in Values[q]

(* The parts of a score.                                                      *)
PointsFor(a) == [c \in Code |-> HundredPoints(CHOOSE s \in Rubric : s.code = c, a)]
AppliesFor(a) == {s.code : s \in {t \in Rubric : Applicable(t, a)}}
DrsFor(a) == Drs(a, PointsFor(a), AppliesFor(a))
FiredFor(a) == {g \in Gaps : Fires(g.trigger, a, PointsFor(a), AppliesFor(a), DrsFor(a))}
OriFor(a) == WeightedMean(Rubric \ Business, PointsFor(a), AppliesFor(a), 10)
ProjectedFor(a) == Drs(a, Lifted(PointsFor(a), FiredFor(a)), AppliesFor(a))

LEMMA ScoreParts ==
  ASSUME NEW a, ~Score(a).rejected
  PROVE  /\ Valid(a)
         /\ Score(a).points = PointsFor(a) /\ Score(a).applies = AppliesFor(a)
         /\ Score(a).drs = DrsFor(a) /\ Score(a).ori = OriFor(a)
         /\ Score(a).gaps = {g.code : g \in FiredFor(a)}
         /\ Score(a).projected = ProjectedFor(a)
<1>1. Valid(a)
  BY DEF Score, Rejected
<1>2. Score(a) = [rejected |-> FALSE, points |-> PointsFor(a), applies |-> AppliesFor(a),
                  drs |-> DrsFor(a), tier |-> Tier(DrsFor(a)), ori |-> OriFor(a),
                  gaps |-> {g.code : g \in FiredFor(a)}, projected |-> ProjectedFor(a)]
  BY <1>1 DEF Score, PointsFor, AppliesFor, DrsFor, OriFor, FiredFor, ProjectedFor, ProjectDrs
<1> QED BY <1>1, <1>2

(* Each part on its scale.                                                    *)
LEMMA PointsForRange ==
  ASSUME NEW a, Considered(a), Valid(a)
  PROVE  PointsFor(a) \in PointsOf
<1>1. Answers(a)
  BY DEF Considered, Valid, Answers
<1>2. ASSUME NEW c \in Code
      PROVE  HundredPoints(CHOOSE s \in Rubric : s.code = c, a) \in 0 .. TopPoints
  <2>1. (CHOOSE s \in Rubric : s.code = c) \in Rubric
    BY DEF Code
  <2> QED BY <1>1, <2>1, SubScorePoints
<1> QED BY <1>2 DEF PointsFor, PointsOf

LEMMA OriFacts ==
  ASSUME NEW points \in PointsOf, NEW more \in PointsOf, NEW applies,
         \A c \in Code : points[c] <= more[c]
  PROVE  /\ WeightedMean(Rubric \ Business, points, applies, 10) \in Nat
         /\ WeightedMean(Rubric \ Business, points, applies, 10) <= TopScore
         /\ WeightedMean(Rubric \ Business, points, applies, 10)
              <= WeightedMean(Rubric \ Business, more, applies, 10)
<1>1. 10 \in Nat /\ 10 > 0 /\ TopScore \in Nat /\ TopScore * 10 = TopPoints
  BY DEF TopScore, TopPoints
<1>2. (Rubric \ Business) \in SUBSET Rubric
  OBVIOUS
<1>3. /\ WeightedMean(Rubric \ Business, points, applies, 10) \in Nat
      /\ WeightedMean(Rubric \ Business, points, applies, 10) <= TopScore
  BY <1>1, <1>2, WeightedMeanRange
<1>4. WeightedMean(Rubric \ Business, points, applies, 10)
        <= WeightedMean(Rubric \ Business, more, applies, 10)
  BY <1>1, <1>2, WeightedMeanMonotone
<1> QED BY <1>3, <1>4

LEMMA NoFewer ==
  ASSUME NEW points \in PointsOf
  PROVE  \A c \in Code : points[c] <= points[c]
BY PointsRange

LEMMA ScoreInRange ==
  ASSUME NEW a, Considered(a), ~Score(a).rejected
  PROVE  /\ Score(a).drs \in Nat /\ Score(a).drs <= TopScore
         /\ Score(a).ori \in Nat /\ Score(a).ori <= TopScore
         /\ Score(a).projected \in Nat /\ Score(a).projected <= TopScore
         /\ Score(a).drs <= Score(a).projected
         /\ Score(a).points \in PointsOf
<1>1. Valid(a)
  BY ScoreParts
<1> DEFINE points == PointsFor(a)
           more == Lifted(points, FiredFor(a))
           applies == AppliesFor(a)
<1>2. points \in PointsOf
  BY <1>1, PointsForRange
<1>3. FiredFor(a) \in SUBSET Gaps
  BY DEF FiredFor
<1>4. more \in PointsOf /\ \A c \in Code : points[c] <= more[c]
  <2> HIDE DEF points
  <2> QED BY <1>2, <1>3, LiftedFacts
<1>5. Governed(a, TopScore) <= Governed(a, TopScore)
  BY Scales DEF Governed, Least
<1>6. /\ Score(a).drs = Drs(a, points, applies) /\ Score(a).projected = Drs(a, more, applies)
      /\ Score(a).ori = WeightedMean(Rubric \ Business, points, applies, 10)
      /\ Score(a).points = points
  BY ScoreParts DEF DrsFor, OriFor, ProjectedFor
<1> HIDE DEF points, more, applies
<1>7. /\ Drs(a, points, applies) \in Nat /\ Drs(a, points, applies) <= TopScore
      /\ Drs(a, points, applies) <= Drs(a, more, applies)
  BY <1>2, <1>4, <1>5, DrsFacts
<1>8. Drs(a, more, applies) \in Nat /\ Drs(a, more, applies) <= TopScore
  BY <1>4, <1>5, NoFewer, DrsFacts
<1>9. /\ WeightedMean(Rubric \ Business, points, applies, 10) \in Nat
      /\ WeightedMean(Rubric \ Business, points, applies, 10) <= TopScore
  BY <1>2, NoFewer, OriFacts
<1> QED BY <1>2, <1>6, <1>7, <1>8, <1>9

-----------------------------------------------------------------------------
(* The outcome is the score of the replies.                                    *)
EngineInv == Considered(replies) /\ outcome = Score(replies)

LEMMA EngineInvInit == EngineInit => EngineInv
<1> SUFFICES ASSUME EngineInit PROVE EngineInv
  OBVIOUS
<1>1. \A q \in Question : Values[q] # {}
  BY ValuesAssumption DEF Question
<1>2. replies = [q \in Question |-> CHOOSE v \in Values[q] : TRUE]
  BY DEF EngineInit
<1>3. Considered(replies)
  BY <1>1, <1>2 DEF Considered
<1> QED BY <1>3 DEF EngineInit, EngineInv

LEMMA EngineInvNext == EngineInv /\ [EngineNext]_engineVars => EngineInv'
<1> SUFFICES ASSUME EngineInv, [EngineNext]_engineVars PROVE EngineInv'
  OBVIOUS
<1>1. ASSUME NEW q \in Question, NEW v \in Values[q], Answer(q, v)
      PROVE  EngineInv'
  <2>1. replies' = [replies EXCEPT ![q] = v] /\ outcome' = Score(replies')
    BY <1>1 DEF Answer
  <2>2. Considered(replies')
    BY <2>1 DEF EngineInv, Considered
  <2> QED BY <2>1, <2>2 DEF EngineInv, Considered
<1>2. CASE UNCHANGED engineVars
  BY <1>2 DEF EngineInv, engineVars, Considered
<1> QED BY <1>1, <1>2 DEF EngineNext

(* The outcome is always the score of the replies as they are.                 *)
THEOREM ScoredAsAnswered == EngineSpec => []EngineInv
<1> QED BY EngineInvInit, EngineInvNext, PTL DEF EngineSpec

(* DRS and ORI stay within 0 and 100, every sub-score too, and a projection is *)
(* never below the score it starts from (scoreFromAnswers, explainFromAnswers). *)
THEOREM InRange == EngineSpec => []ScoresInRange
<1>1. EngineInv => ScoresInRange
  <2> SUFFICES ASSUME EngineInv, ~outcome.rejected
               PROVE  /\ {outcome.drs, outcome.ori} \subseteq 0 .. TopScore
                      /\ outcome.projected \in outcome.drs .. TopScore
                      /\ \A c \in Code : outcome.points[c] \in 0 .. TopPoints
    BY DEF ScoresInRange
  <2>1. /\ outcome.drs \in Nat /\ outcome.drs <= TopScore
        /\ outcome.ori \in Nat /\ outcome.ori <= TopScore
        /\ outcome.projected \in Nat /\ outcome.projected <= TopScore
        /\ outcome.drs <= outcome.projected
        /\ outcome.points \in PointsOf
    BY ScoreInRange DEF EngineInv
  <2> DEFINE x == outcome.drs
             y == outcome.ori
             z == outcome.projected
  <2>2. /\ x \in Nat /\ x <= TopScore /\ y \in Nat /\ y <= TopScore
        /\ z \in Nat /\ z <= TopScore /\ x <= z
    BY <2>1
  <2>3. \A c \in Code : outcome.points[c] \in 0 .. TopPoints
    BY <2>1 DEF PointsOf
  <2> HIDE DEF x, y, z
  <2>4. {x, y} \subseteq 0 .. TopScore /\ z \in x .. TopScore
    BY <2>2, Scales
  <2> QED BY <2>3, <2>4 DEF x, y, z
<1> QED BY <1>1, ScoredAsAnswered, PTL

(* A customer with half of the revenue and no long contract keeps the business *)
(* out of Sale Ready, in its score and in every projection                     *)
(* (concentrationGovernor).                                                   *)
THEOREM Dominant == EngineSpec => []DominantNotSaleable
<1>1. EngineInv => DominantNotSaleable
  <2> SUFFICES ASSUME EngineInv, ~outcome.rejected, replies["REV-TOP5-SHARES"][1] >= 50,
                      ~Anchored(replies, 40, 24)
               PROVE  {Tier(outcome.drs), Tier(outcome.projected)}
                        \cap {"Sale Ready", "Institutional Grade"} = {}
    BY DEF DominantNotSaleable
  <2>1. outcome.drs \in Nat /\ outcome.projected \in Nat
    BY ScoreInRange DEF EngineInv
  <2>2. /\ outcome.drs = Drs(replies, PointsFor(replies), AppliesFor(replies))
        /\ outcome.projected = Drs(replies, Lifted(PointsFor(replies), FiredFor(replies)),
                                   AppliesFor(replies))
    BY ScoreParts DEF EngineInv, DrsFor, ProjectedFor
  <2>3. ASSUME NEW x PROVE Governed(replies, x) = Least(x, 690)
    BY DEF Governed
  <2> DEFINE x == RawDrs(PointsFor(replies), AppliesFor(replies))
             y == RawDrs(Lifted(PointsFor(replies), FiredFor(replies)), AppliesFor(replies))
             Capped(d) == \E u : d = Least(u, 690)
  <2>4. Capped(outcome.drs) /\ Capped(outcome.projected)
    <3>1. outcome.drs = Least(x, 690) /\ outcome.projected = Least(y, 690)
      BY <2>2, <2>3 DEF Drs, RawDrs
    <3> QED BY <3>1
  <2>5. ASSUME NEW d \in Nat, Capped(d)
        PROVE  Tier(d) \notin {"Sale Ready", "Institutional Grade"}
    <3>1. d <= 690
      BY <2>5 DEF Least
    <3> QED BY <3>1 DEF Tier
  <2> HIDE DEF x, y, Capped
  <2>6. Tier(outcome.drs) \notin {"Sale Ready", "Institutional Grade"}
    BY <2>1, <2>4, <2>5
  <2>7. Tier(outcome.projected) \notin {"Sale Ready", "Institutional Grade"}
    BY <2>1, <2>4, <2>5
  <2> QED BY <2>6, <2>7
<1> QED BY <1>1, ScoredAsAnswered, PTL
-----------------------------------------------------------------------------
(* A gap on a sub-score that is open after an improvement was open before it.  *)
LEMMA GapsShrink ==
  ASSUME NEW a, NEW b, PointsFor(a) \in PointsOf, PointsFor(b) \in PointsOf,
         AppliesFor(b) = AppliesFor(a),
         \A c \in Code : PointsFor(a)[c] <= PointsFor(b)[c],
         NEW g \in FiredFor(b), g.trigger.type = "sub_score_below"
  PROVE  g \in FiredFor(a)
<1> DEFINE c == g.trigger.code
           x == PointsFor(a)[c]
           y == PointsFor(b)[c]
           t == 100 * g.trigger.threshold
<1>1. g \in Gaps /\ c \in AppliesFor(b) /\ y < t
  BY DEF FiredFor, Fires, SimpleFires
<1>2. c \in Code
  BY <1>1 DEF AppliesFor, Code
<1>3. x \in Nat /\ y \in Nat /\ x <= y
  BY <1>2, PointsRange
<1>4. t \in Nat
  <2>1. g.trigger.threshold \in Points
    BY <1>1, RubricAssumption
  <2> DEFINE p == g.trigger.threshold
  <2>2. p \in Points
    BY <2>1
  <2> HIDE DEF p
  <2>3. 100 * p \in Nat
    BY <2>2 DEF Points
  <2> QED BY <2>3 DEF p
<1>5. x < t
  <2> HIDE DEF x, y, t
  <2> QED BY <1>1, <1>3, <1>4
<1>6. Fires(g.trigger, a, PointsFor(a), AppliesFor(a), DrsFor(a))
  BY <1>1, <1>5 DEF Fires, SimpleFires
<1> QED BY <1>1, <1>6 DEF FiredFor

(* No fewer points on any sub-score, the same ones counted and the same or a   *)
(* better standing of the largest customer lower neither score and open no gap *)
(* on a sub-score (scoreFromAnswers).                                          *)
THEOREM NeverHurts == EngineSpec => ImprovementNeverHurts
<1> DEFINE Better ==
      /\ replies' # replies /\ ~outcome.rejected /\ ~outcome'.rejected
      /\ outcome'.applies = outcome.applies
      /\ \A c \in Code : outcome'.points[c] >= outcome.points[c]
      /\ Governed(replies', TopScore) >= Governed(replies, TopScore)
           Kept ==
      /\ outcome'.drs >= outcome.drs
      /\ outcome'.ori >= outcome.ori
      /\ \A g \in Gaps : g.trigger.type = "sub_score_below" /\ g.code \in outcome'.gaps
                           => g.code \in outcome.gaps
<1>1. ASSUME EngineInv, EngineInv', Better PROVE Kept
  <2> DEFINE a == replies
             b == replies'
             points == PointsFor(a)
             more == PointsFor(b)
             applies == AppliesFor(a)
  <2>1. /\ Considered(a) /\ Considered(b) /\ outcome = Score(a) /\ outcome' = Score(b)
        /\ ~Score(a).rejected /\ ~Score(b).rejected
    BY <1>1 DEF EngineInv, Considered
  <2>2. /\ outcome.points = points /\ outcome.applies = applies
        /\ outcome.drs = DrsFor(a) /\ outcome.ori = OriFor(a)
        /\ outcome.gaps = {g.code : g \in FiredFor(a)} /\ Valid(a)
    BY <2>1, ScoreParts
  <2>3. /\ outcome'.points = more /\ outcome'.applies = AppliesFor(b)
        /\ outcome'.drs = DrsFor(b) /\ outcome'.ori = OriFor(b)
        /\ outcome'.gaps = {g.code : g \in FiredFor(b)} /\ Valid(b)
    BY <2>1, ScoreParts
  <2>4. points \in PointsOf /\ more \in PointsOf
    BY <2>1, <2>2, <2>3, PointsForRange
  <2>5. AppliesFor(b) = applies
    BY <1>1, <2>2, <2>3
  <2>6. \A c \in Code : points[c] <= more[c]
    <3> SUFFICES ASSUME NEW c \in Code PROVE points[c] <= more[c]
      OBVIOUS
    <3> DEFINE x == points[c]
               y == more[c]
    <3>1. y >= x
      BY <1>1, <2>2, <2>3
    <3>2. x \in Nat /\ y \in Nat
      <4> HIDE DEF points, more
      <4> QED BY <2>4, PointsRange
    <3> HIDE DEF x, y
    <3>3. x <= y
      BY <3>1, <3>2
    <3> QED BY <3>3 DEF x, y
  <2>7. Governed(a, TopScore) <= Governed(b, TopScore)
    <3> DEFINE x == Governed(a, TopScore)
               y == Governed(b, TopScore)
    <3>1. y >= x
      BY <1>1
    <3>2. x \in Nat /\ y \in Nat
      BY Scales DEF Governed, Least
    <3> HIDE DEF x, y
    <3>3. x <= y
      BY <3>1, <3>2
    <3> QED BY <3>3 DEF x, y
  <2>8. outcome.drs = Drs(a, points, applies) /\ outcome'.drs = Drs(b, more, applies)
    BY <2>2, <2>3, <2>5 DEF DrsFor
  <2>9. /\ outcome.ori = WeightedMean(Rubric \ Business, points, applies, 10)
        /\ outcome'.ori = WeightedMean(Rubric \ Business, more, applies, 10)
    BY <2>2, <2>3, <2>5 DEF OriFor
  <2>10. \A g \in Gaps : g.trigger.type = "sub_score_below" /\ g.code \in outcome'.gaps
                           => g.code \in outcome.gaps
    <3> SUFFICES ASSUME NEW g \in Gaps, g.trigger.type = "sub_score_below",
                        g.code \in outcome'.gaps
                 PROVE  g.code \in outcome.gaps
      OBVIOUS
    <3>1. PICK h \in FiredFor(b) : h.code = g.code
      BY <2>3
    <3>2. h = g
      BY <3>1, RubricAssumption DEF FiredFor
    <3>3. g \in FiredFor(a)
      BY <2>4, <2>5, <2>6, <3>1, <3>2, GapsShrink
    <3> QED BY <2>2, <3>3
  <2> HIDE DEF points, more, applies
  <2>11. /\ Drs(a, points, applies) \in Nat
         /\ Drs(a, points, applies) <= Drs(b, more, applies)
    BY <2>4, <2>6, <2>7, DrsFacts
  <2>12. Drs(b, more, applies) \in Nat
    <3>1. Governed(b, TopScore) <= Governed(b, TopScore)
      BY Scales DEF Governed, Least
    <3> QED BY <2>4, <3>1, NoFewer, DrsFacts
  <2>13. /\ WeightedMean(Rubric \ Business, points, applies, 10) \in Nat
         /\ WeightedMean(Rubric \ Business, points, applies, 10)
              <= WeightedMean(Rubric \ Business, more, applies, 10)
    BY <2>4, <2>6, OriFacts
  <2>14. WeightedMean(Rubric \ Business, more, applies, 10) \in Nat
    BY <2>4, NoFewer, OriFacts
  <2>15. outcome'.drs >= outcome.drs
    BY <2>8, <2>11, <2>12
  <2>16. outcome'.ori >= outcome.ori
    BY <2>9, <2>13, <2>14
  <2> QED BY <2>10, <2>15, <2>16
<1>2. EngineInv /\ EngineInv' /\ [EngineNext]_engineVars => [Better => Kept]_engineVars
  <2> HIDE DEF Better, Kept
  <2> QED BY <1>1
<1> QED BY <1>2, ScoredAsAnswered, PTL DEF EngineSpec, ImprovementNeverHurts
-----------------------------------------------------------------------------
(* Math.round keeps the order and moves with whole numbers.                    *)
LEMMA RoundHalfUpInt ==
  ASSUME NEW n \in Int, NEW d \in Nat, d > 0
  PROVE  RoundHalfUp(n, d) \in Int
<1>1. 2 * n + d \in Int /\ 2 * d \in Nat /\ 2 * d > 0
  OBVIOUS
<1> DEFINE x == 2 * n + d
           e == 2 * d
<1> HIDE DEF x, e
<1>2. x \div e \in Int
  BY <1>1, Division DEF x, e
<1> QED BY <1>2 DEF RoundHalfUp, x, e

LEMMA RoundHalfUpMonotone ==
  ASSUME NEW n \in Int, NEW m \in Int, NEW d \in Nat, d > 0, n <= m
  PROVE  RoundHalfUp(n, d) <= RoundHalfUp(m, d)
<1> DEFINE x == 2 * n + d
           y == 2 * m + d
           e == 2 * d
<1>1. x \in Int /\ y \in Int /\ e \in Nat /\ e > 0 /\ x <= y
  OBVIOUS
<1> HIDE DEF x, y, e
<1>2. x \div e <= y \div e
  BY <1>1, QuotientMonotone
<1> QED BY <1>2 DEF RoundHalfUp, x, y, e

LEMMA RoundHalfUpShift ==
  ASSUME NEW n \in Int, NEW k \in Int, NEW d \in Nat, d > 0
  PROVE  RoundHalfUp(n + d * k, d) = RoundHalfUp(n, d) + k
<1> DEFINE x == 2 * n + d
           y == 2 * (n + d * k) + d
           e == 2 * d
           q == x \div e
           r == x % e
           p == y \div e
           o == y % e
<1>1. x \in Int /\ y \in Int /\ e \in Nat /\ e > 0 /\ y = x + e * k
  OBVIOUS
<1> HIDE DEF x, y, e
<1>2. /\ q \in Int /\ r \in 0 .. e - 1 /\ x = e * q + r
      /\ p \in Int /\ o \in 0 .. e - 1 /\ y = e * p + o
  BY <1>1, Division
<1> HIDE DEF q, r, p, o
<1>3. p = q + k
  <2>1. e * (p - q - k) = r - o
    BY <1>1, <1>2
  <2> DEFINE z == p - q - k
  <2>2. z \in Int /\ e * z = r - o /\ r - o < e /\ -e < r - o
    BY <1>1, <1>2, <2>1
  <2> HIDE DEF z
  <2>3. z = 0
    <3>1. CASE z >= 1
      <4>1. e * z >= e
        BY <1>1, <2>2, <3>1
      <4> QED BY <1>1, <1>2, <2>2, <4>1
    <3>2. CASE z <= -1
      <4>1. e * z <= -e
        BY <1>1, <2>2, <3>2
      <4> QED BY <1>1, <1>2, <2>2, <4>1
    <3> QED BY <2>2, <3>1, <3>2
  <2> QED BY <1>1, <1>2, <2>3 DEF z
<1> QED BY <1>3 DEF RoundHalfUp, p, q, x, y, e

(* What is left of an amount after a rate of at most all of it keeps the order. *)
LEMMA RestMonotone ==
  ASSUME NEW x \in Int, NEW y \in Int, x <= y, NEW c \in 0 .. 100
  PROVE  /\ RoundHalfUp(x * c, 100) \in Int /\ RoundHalfUp(y * c, 100) \in Int
         /\ x - RoundHalfUp(x * c, 100) <= y - RoundHalfUp(y * c, 100)
<1> DEFINE k == y - x
           n == x * c
           m == y * c
<1>1. n \in Int /\ m \in Int /\ k \in Nat /\ y = x + k
  OBVIOUS
<1>2. m <= n + 100 * k
  <2>1. m = n + k * c
    OBVIOUS
  <2> HIDE DEF n, m, k
  <2>2. c \in Nat /\ 100 \in Nat /\ c <= 100
    OBVIOUS
  <2>3. k * c <= k * 100 /\ k * c \in Nat
    BY <1>1, <2>2, Products
  <2> QED BY <1>1, <2>1, <2>3
<1> HIDE DEF n, m, k
<1>3. 100 \in Nat /\ 100 > 0 /\ n + 100 * k \in Int
  BY <1>1
<1>4. RoundHalfUp(m, 100) <= RoundHalfUp(n + 100 * k, 100)
  BY <1>1, <1>2, <1>3, RoundHalfUpMonotone
<1>5. RoundHalfUp(n + 100 * k, 100) = RoundHalfUp(n, 100) + k
  BY <1>1, <1>3, RoundHalfUpShift
<1>6. RoundHalfUp(n, 100) \in Int /\ RoundHalfUp(m, 100) \in Int
  BY <1>1, <1>3, RoundHalfUpInt
<1> DEFINE a == RoundHalfUp(n, 100)
           b == RoundHalfUp(m, 100)
<1>7. a \in Int /\ b \in Int /\ b <= a + k
  BY <1>4, <1>5, <1>6
<1> HIDE DEF a, b
<1>8. x - a <= y - b
  BY <1>1, <1>7
<1> QED BY <1>7, <1>8 DEF a, b, n, m

LEMMA MaxZero ==
  ASSUME NEW x \in Int
  PROVE  Max({0, x}) = IF x > 0 THEN x ELSE 0
<1> DEFINE A == {0, x}
<1>1. IsFiniteSet(A) /\ A # {} /\ \A y \in A : y \in Int
  <2>1. A = {0} \cup {x} /\ A # {} /\ \A y \in A : y \in Int
    OBVIOUS
  <2>2. IsFiniteSet({0}) /\ IsFiniteSet({x})
    BY FS_Singleton
  <2>3. IsFiniteSet({0} \cup {x})
    BY <2>2, FS_Union
  <2> QED BY <2>1, <2>3
<1>2. 0 \in A /\ x \in A /\ \A y \in A : y = 0 \/ y = x
  OBVIOUS
<1> HIDE DEF A
<1>3. Max(A) \in A /\ \A y \in A : Max(A) >= y
  BY <1>1, Greatest
<1> DEFINE m == Max(A)
<1>4. (m = 0 \/ m = x) /\ m >= 0 /\ m >= x
  BY <1>2, <1>3
<1> HIDE DEF m
<1>5. m = IF x > 0 THEN x ELSE 0
  BY <1>4
<1> QED BY <1>5 DEF m, A
-----------------------------------------------------------------------------
(* The valuation as a function of what it is computed from: rules r, override   *)
(* o, debt d, tier t, n verified inputs and earnings e.                        *)
BandOf(r, e) ==
  LET fits == {i \in 1 .. Len(r.bands) - 1 : e <= r.bands[i]}
  IN IF fits = {} THEN Len(r.bands) ELSE Min(fits)

UsableBy(r, lane, enabled) == enabled /\ lane.sample >= Max({1, r.floor})

SourceOf(r, o, e) ==
  IF o # NoOverride THEN "override"
  ELSE IF UsableBy(r, OwnBook, r.own) THEN "own_book"
  ELSE IF UsableBy(r, Market[BandOf(r, e)], r.market) THEN "market"
  ELSE "table"

MultipleOf(r, o, e) ==
  CASE SourceOf(r, o, e) = "override" -> o
    [] SourceOf(r, o, e) = "own_book" -> OwnBook.median
    [] SourceOf(r, o, e) = "market" -> Market[BandOf(r, e)].median
    [] SourceOf(r, o, e) = "table" -> r.table[BandOf(r, e)]

FactorOf(r, t) == IF t = NoTier THEN 100 ELSE r.readiness[t]
Scaled(e, m, g) == RoundHalfUp(e * m * g, 1000)
ValueOf(r, o, t, e) == Scaled(e, MultipleOf(r, o, e), FactorOf(r, t))

TierFor(n) ==
  LET pct == RoundHalfUp(100 * n, TotalInputs)
  IN CASE pct >= 67 -> "document_verified"
       [] pct \in 34 .. 66 -> "partly_verified"
       [] OTHER -> "self_reported"

WidthOf(r, t, n) == r.widths[IF t = NoTier THEN "self_reported" ELSE TierFor(n)]

AfterCosts(r, d, v) == v - d - RoundHalfUp(v * r.costs, 100)
AfterTax(r, x) == x - RoundHalfUp(Max({0, x}) * r.tax, 100)
NetOf(r, d, v) == AfterTax(r, AfterCosts(r, d, v))

WorthOf(r, o, d, t, n, e) ==
  LET base == ValueOf(r, o, t, e)
      potential == ValueOf(r, o, Target, e)
  IN [valued |-> TRUE, earnings |-> e, source |-> SourceOf(r, o, e),
      base |-> base, potential |-> potential,
      low |-> RoundHalfUp(base * (100 - WidthOf(r, t, n)), 100),
      high |-> RoundHalfUp(base * (100 + WidthOf(r, t, n)), 100),
      gap |-> Max({0, potential - base}), net |-> NetOf(r, d, base)]

WorthIs ==
  \/ ~recast.started /\ Worth = [valued |-> FALSE]
  \/ /\ recast.started
     /\ \E e \in Int :
          Worth = WorthOf(rules, terms.override, terms.debt, standing, backed, e)

(* A size band is one of those of the rules, and a larger business is in no    *)
(* lower one.                                                                 *)
LEMMA BandFacts ==
  ASSUME NEW r, RulesOK(r), NEW e \in Int, NEW f \in Int, e <= f
  PROVE  /\ BandOf(r, e) \in DOMAIN r.table /\ BandOf(r, e) \in DOMAIN Market
         /\ BandOf(r, e) <= BandOf(r, f)
<1> DEFINE k == Len(r.bands)
           fits(x) == {i \in 1 .. k - 1 : x <= r.bands[i]}
<1>1. /\ k \in Nat /\ k > 0 /\ \A i \in 1 .. k : r.bands[i] \in Int
      /\ DOMAIN r.table = 1 .. k /\ DOMAIN Market = 1 .. k
  <2>1. r.bands \in Seq(Int) \ {<<>>} /\ Len(r.table) = k /\ Len(Market) = k
    BY DEF RulesOK
  <2>2. r.table \in Seq(Nat) /\ Market \in Seq([sample : Nat, median : Nat])
    BY ValuationAssumption DEF RulesOK
  <2> QED BY <2>1, <2>2
<1>2. ASSUME NEW x \in Int
      PROVE  /\ BandOf(r, x) = IF fits(x) = {} THEN k ELSE Min(fits(x))
             /\ BandOf(r, x) \in 1 .. k
             /\ fits(x) # {} => BandOf(r, x) \in fits(x)
             /\ \A i \in fits(x) : BandOf(r, x) <= i
  <2>1. BandOf(r, x) = IF fits(x) = {} THEN k ELSE Min(fits(x))
    BY DEF BandOf
  <2>2. CASE fits(x) = {}
    BY <1>1, <2>1, <2>2
  <2>3. CASE fits(x) # {}
    <3> DEFINE F == fits(x)
    <3>1. F \subseteq 1 .. k
      BY <1>1
    <3>2. IsFiniteSet(1 .. k) /\ \A i \in 1 .. k : i \in Int
      BY <1>1, FS_Interval
    <3>3. F # {} /\ BandOf(r, x) = Min(F)
      BY <2>1, <2>3
    <3> HIDE DEF F
    <3>4. IsFiniteSet(F) /\ \A i \in F : i \in Int
      BY <3>1, <3>2, FS_Subset
    <3>5. Min(F) \in F /\ \A i \in F : Min(F) =< i
      BY <3>3, <3>4, Smallest
    <3> QED BY <2>1, <3>1, <3>3, <3>5 DEF F
  <2> QED BY <2>1, <2>2, <2>3
<1>3. BandOf(r, e) \in 1 .. k /\ BandOf(r, f) \in 1 .. k
  BY <1>2
<1>4. CASE fits(f) = {}
  <2>1. BandOf(r, f) = k
    BY <1>2, <1>4
  <2> QED BY <1>1, <1>3, <2>1
<1>5. CASE fits(f) # {}
  <2> DEFINE b == BandOf(r, f)
  <2>1. b \in fits(f)
    BY <1>2, <1>5
  <2>2. b \in fits(e)
    BY <1>1, <2>1
  <2>3. BandOf(r, e) <= b
    <3> HIDE DEF b, fits
    <3> QED BY <1>2, <2>2
  <2> QED BY <1>1, <1>3, <2>3
<1> QED BY <1>1, <1>3, <1>4, <1>5

(* From the same source, which is not the market, a larger business has no      *)
(* smaller multiple.                                                          *)
LEMMA MultipleFacts ==
  ASSUME NEW r, RulesOK(r), NEW o \in Override \cup {NoOverride},
         NEW e \in Int, NEW f \in Int, e <= f
  PROVE  /\ MultipleOf(r, o, e) \in Nat
         /\ SourceOf(r, o, e) = SourceOf(r, o, f) /\ SourceOf(r, o, e) # "market"
              => MultipleOf(r, o, e) <= MultipleOf(r, o, f)
<1>1. /\ BandOf(r, e) \in DOMAIN r.table /\ BandOf(r, e) \in DOMAIN Market
      /\ BandOf(r, e) <= BandOf(r, f)
  BY BandFacts
<1>2. BandOf(r, f) \in DOMAIN r.table
  BY BandFacts
<1>3. OwnBook.median \in Nat /\ Override \subseteq Nat
  BY ValuationAssumption
<1>4. Market[BandOf(r, e)].median \in Nat
  <2> DEFINE Row == [sample : Nat, median : Nat]
  <2>1. Market \in Seq(Row)
    BY ValuationAssumption
  <2>2. \A x \in Row : x.median \in Nat
    OBVIOUS
  <2> HIDE DEF Row
  <2>3. \A i \in DOMAIN Market : Market[i] \in Row
    BY <2>1
  <2> QED BY <1>1, <2>2, <2>3
<1>5. r.table[BandOf(r, e)] \in Nat /\ r.table[BandOf(r, f)] \in Nat
  <2>1. r.table \in Seq(Nat)
    BY DEF RulesOK
  <2>2. \A i \in DOMAIN r.table : r.table[i] \in Nat
    BY <2>1
  <2> QED BY <1>1, <1>2, <2>2
<1>6. r.table[BandOf(r, e)] <= r.table[BandOf(r, f)]
  BY <1>1, <1>2 DEF RulesOK
<1>7. SourceOf(r, o, e) = "override" => o \in Nat
  BY <1>3 DEF SourceOf
<1>8. SourceOf(r, o, e) \in {"override", "own_book", "market", "table"}
  BY DEF SourceOf
<1>9. MultipleOf(r, o, e) \in Nat
  BY <1>3, <1>4, <1>5, <1>7, <1>8 DEF MultipleOf
<1>10. ASSUME SourceOf(r, o, e) = SourceOf(r, o, f), SourceOf(r, o, e) # "market"
       PROVE  MultipleOf(r, o, e) <= MultipleOf(r, o, f)
  BY <1>3, <1>5, <1>6, <1>7, <1>8, <1>10 DEF MultipleOf
<1> QED BY <1>9, <1>10
-----------------------------------------------------------------------------
(* The tiers and their ranks.                                                 *)
LEMMA TierRanks ==
  /\ DOMAIN TierOrder = 1 .. 5 /\ Target = TierOrder[5]
  /\ \A k \in DOMAIN TierOrder : TierOrder[k] # NoTier /\ Rank(TierOrder[k]) = k
<1>1. DOMAIN TierOrder = 1 .. 5 /\ \A k \in 1 .. 5 : k = 1 \/ k = 2 \/ k = 3 \/ k = 4 \/ k = 5
  BY DEF TierOrder
<1>2. /\ TierOrder[1] = "Not Saleable (Yet)" /\ TierOrder[2] = "High Risk"
      /\ TierOrder[3] = "Needs Work" /\ TierOrder[4] = "Sale Ready"
      /\ TierOrder[5] = "Institutional Grade"
  BY DEF TierOrder
<1>3. \A k \in 1 .. 5 : TierOrder[k] # NoTier
  BY <1>1, <1>2 DEF NoTier
<1>4. \A k, i \in 1 .. 5 : TierOrder[i] = TierOrder[k] => i = k
  BY <1>1, <1>2
<1>5. \A k \in 1 .. 5 : Rank(TierOrder[k]) = k
  BY <1>1, <1>4 DEF Rank
<1> QED BY <1>1, <1>2, <1>3, <1>5 DEF Target

(* A tier's factor, by its rank.                                              *)
LEMMA FactorFacts ==
  ASSUME NEW r, RulesOK(r), NEW i \in DOMAIN TierOrder, NEW j \in DOMAIN TierOrder, i <= j
  PROVE  /\ FactorOf(r, TierOrder[i]) \in Nat
         /\ FactorOf(r, TierOrder[i]) <= FactorOf(r, TierOrder[j])
<1>1. \A k \in DOMAIN TierOrder : TierOrder[k] # NoTier
  BY TierRanks
<1> QED BY <1>1 DEF RulesOK, FactorOf

(* The enterprise value grows with the earnings, the multiple and the tier.    *)
LEMMA ValueMonotone ==
  ASSUME NEW e \in Nat, NEW f \in Nat, e <= f, NEW m \in Nat, NEW n \in Nat, m <= n,
         NEW g \in Nat, NEW h \in Nat, g <= h
  PROVE  Scaled(e, m, g) <= Scaled(f, n, h) /\ Scaled(e, m, g) \in Nat
<1>1. e * m \in Nat /\ f * n \in Nat /\ e * m <= f * n
  <2>1. e * m \in Nat /\ e * m <= e * n /\ e * n \in Nat
    BY Products
  <2>2. n * e <= n * f /\ n * f \in Nat
    BY Products
  <2> QED BY <2>1, <2>2
<1> DEFINE x == e * m
           y == f * n
<1>2. x \in Nat /\ y \in Nat /\ x <= y
  BY <1>1
<1> HIDE DEF x, y
<1>3. x * g \in Nat /\ y * h \in Nat /\ x * g <= y * h
  <2>1. x * g \in Nat /\ x * g <= x * h /\ x * h \in Nat
    BY <1>2, Products
  <2>2. h * x <= h * y /\ h * y \in Nat
    BY <1>2, Products
  <2> QED BY <1>2, <2>1, <2>2
<1> DEFINE a == x * g
           b == y * h
<1>4. a \in Nat /\ b \in Nat /\ a <= b
  BY <1>3
<1> HIDE DEF a, b
<1>5. RoundHalfUp(a, 1000) <= RoundHalfUp(b, 1000)
  <2>1. 1000 \in Nat /\ 1000 > 0 /\ a \in Int /\ b \in Int
    BY <1>4
  <2> QED BY <1>4, <2>1, RoundHalfUpMonotone, SMT
<1>6. RoundHalfUp(a, 1000) \in Nat
  BY <1>4 DEF RoundHalfUp
<1> QED BY <1>5, <1>6 DEF a, b, x, y, Scaled

(* The range of a value is narrower, its low end higher, when more is verified. *)
LEMMA TierForFacts ==
  ASSUME NEW r, RulesOK(r), NEW n \in Nat, NEW k \in Nat, n <= k
  PROVE  /\ r.widths[TierFor(n)] \in 0 .. 100 /\ r.widths[TierFor(k)] \in 0 .. 100
         /\ r.widths[TierFor(k)] <= r.widths[TierFor(n)]
<1> DEFINE x == RoundHalfUp(100 * n, TotalInputs)
           y == RoundHalfUp(100 * k, TotalInputs)
<1>1. x \in Int /\ y \in Int /\ x <= y
  <2> DEFINE p == 100 * n
             q == 100 * k
  <2>1. p \in Int /\ q \in Int /\ p <= q /\ TotalInputs \in Nat /\ TotalInputs > 0
    BY DEF TotalInputs
  <2> HIDE DEF p, q
  <2>2. RoundHalfUp(p, TotalInputs) <= RoundHalfUp(q, TotalInputs)
    BY <2>1, RoundHalfUpMonotone
  <2>3. RoundHalfUp(p, TotalInputs) \in Int /\ RoundHalfUp(q, TotalInputs) \in Int
    BY <2>1, RoundHalfUpInt
  <2> QED BY <2>2, <2>3 DEF p, q
<1>2. /\ TierFor(n) = CASE x >= 67 -> "document_verified"
                        [] x \in 34 .. 66 -> "partly_verified"
                        [] OTHER -> "self_reported"
      /\ TierFor(k) = CASE y >= 67 -> "document_verified"
                        [] y \in 34 .. 66 -> "partly_verified"
                        [] OTHER -> "self_reported"
  BY DEF TierFor
<1> DEFINE W == r.widths
           S == W["self_reported"]
           P == W["partly_verified"]
           D == W["document_verified"]
<1>3. S \in 0 .. 100 /\ P \in 0 .. S /\ D \in 0 .. P
  BY DEF RulesOK
<1> HIDE DEF x, y, S, P, D
<1>4. /\ W[TierFor(n)] = IF x >= 67 THEN D ELSE IF x >= 34 THEN P ELSE S
      /\ W[TierFor(k)] = IF y >= 67 THEN D ELSE IF y >= 34 THEN P ELSE S
  <2>1. /\ x >= 67 => TierFor(n) = "document_verified"
        /\ x < 67 /\ x >= 34 => TierFor(n) = "partly_verified"
        /\ x < 34 => TierFor(n) = "self_reported"
    BY <1>1, <1>2
  <2>2. /\ y >= 67 => TierFor(k) = "document_verified"
        /\ y < 67 /\ y >= 34 => TierFor(k) = "partly_verified"
        /\ y < 34 => TierFor(k) = "self_reported"
    BY <1>1, <1>2
  <2> HIDE DEF W
  <2> QED BY <1>1, <2>1, <2>2 DEF S, P, D
<1> DEFINE u == W[TierFor(n)]
           v == W[TierFor(k)]
<1>5. /\ u = IF x >= 67 THEN D ELSE IF x >= 34 THEN P ELSE S
      /\ v = IF y >= 67 THEN D ELSE IF y >= 34 THEN P ELSE S
  BY <1>4
<1> HIDE DEF u, v
<1>6. u \in 0 .. 100 /\ v \in 0 .. 100 /\ v <= u
  BY <1>1, <1>3, <1>5
<1> QED BY <1>6 DEF u, v, W

LEMMA LowMonotone ==
  ASSUME NEW b \in Nat, NEW c \in Nat, b <= c, NEW u \in 0 .. 100, NEW v \in 0 .. 100, v <= u
  PROVE  RoundHalfUp(b * (100 - u), 100) <= RoundHalfUp(c * (100 - v), 100)
<1> DEFINE p == 100 - u
           q == 100 - v
<1>1. p \in Nat /\ q \in Nat /\ p <= q
  OBVIOUS
<1> HIDE DEF p, q
<1>2. b * p \in Nat /\ b * p <= b * q /\ b * q \in Nat
  BY <1>1, Products
<1>3. q * b <= q * c /\ q * c \in Nat
  BY <1>1, Products
<1> DEFINE x == b * p
           y == c * q
<1>4. x \in Int /\ y \in Int /\ x <= y
  BY <1>1, <1>2, <1>3
<1> HIDE DEF x, y
<1>5. 100 \in Nat /\ 100 > 0
  OBVIOUS
<1>6. RoundHalfUp(x, 100) <= RoundHalfUp(y, 100)
  BY <1>4, <1>5, RoundHalfUpMonotone
<1> QED BY <1>6 DEF x, y, p, q

(* What the owner keeps grows with the value and shrinks with the debt.        *)
LEMMA NetMonotone ==
  ASSUME NEW r, RulesOK(r), NEW v \in Int, NEW w \in Int, v <= w,
         NEW d \in Nat, NEW l \in Nat, l <= d
  PROVE  NetOf(r, d, v) <= NetOf(r, l, w)
<1>1. r.costs \in 0 .. 100 /\ r.tax \in 0 .. 100
  BY DEF RulesOK
<1> DEFINE x == AfterCosts(r, d, v)
           y == AfterCosts(r, l, w)
<1>2. x \in Int /\ y \in Int /\ x <= y
  <2> DEFINE c == r.costs
             a == RoundHalfUp(v * c, 100)
             b == RoundHalfUp(w * c, 100)
  <2>1. c \in 0 .. 100
    BY <1>1
  <2> HIDE DEF c
  <2>2. a \in Int /\ b \in Int /\ v - a <= w - b
    BY <2>1, RestMonotone
  <2>3. x = v - d - a /\ y = w - l - b
    BY DEF AfterCosts, c
  <2> HIDE DEF x, y, a, b
  <2> QED BY <2>2, <2>3
<1> HIDE DEF x, y
<1> DEFINE p == IF x > 0 THEN x ELSE 0
           q == IF y > 0 THEN y ELSE 0
           t == r.tax
           a == RoundHalfUp(p * t, 100)
           b == RoundHalfUp(q * t, 100)
<1>3. AfterTax(r, x) = x - a /\ AfterTax(r, y) = y - b
  BY <1>2, MaxZero DEF AfterTax
<1>4. p \in Int /\ q \in Int /\ p <= q /\ t \in 0 .. 100
  BY <1>1, <1>2
<1>5. a \in Int /\ b \in Int /\ p - a <= q - b
  <2> HIDE DEF p, q, t
  <2> QED BY <1>4, RestMonotone
<1>6. x <= 0 => a = 0
  <2>1. x <= 0 => p * t = 0
    BY <1>2, <1>4
  <2>2. RoundHalfUp(0, 100) = 0
    BY DEF RoundHalfUp
  <2> HIDE DEF p, t
  <2> QED BY <2>1, <2>2
<1>7. y <= 0 => b = 0
  <2>1. y <= 0 => q * t = 0
    BY <1>2, <1>4
  <2>2. RoundHalfUp(0, 100) = 0
    BY DEF RoundHalfUp
  <2> HIDE DEF q, t
  <2> QED BY <2>1, <2>2
<1>8. x - a <= y - b
  <2>1. p = (IF x > 0 THEN x ELSE 0) /\ q = (IF y > 0 THEN y ELSE 0)
    OBVIOUS
  <2> HIDE DEF p, q, a, b
  <2> QED BY <1>2, <1>5, <1>6, <1>7, <2>1
<1> QED BY <1>3, <1>8 DEF NetOf, x, y
-----------------------------------------------------------------------------
(* The valuation page's rows keep their kinds of value.                        *)
LEMMA ValuationTypesInit == ValuationInit => ValuationTypeOK
<1> SUFFICES ASSUME ValuationInit PROVE ValuationTypeOK
  OBVIOUS
<1>1. Min(ReportedEbitda) \in ReportedEbitda
  <2>1. \A x \in ReportedEbitda : x \in Int
    BY ValuationAssumption
  <2> QED BY <2>1, ValuationAssumption, Smallest
<1>2. [b \in DOMAIN Amount |-> "none"] \in Addbacks
  BY DEF Addbacks
<1>3. recast \in [started : BOOLEAN, reported : ReportedEbitda, addbacks : Addbacks]
  BY <1>1, <1>2 DEF ValuationInit
<1>4. terms \in Terms /\ termsCopy \in Terms
  BY DEF ValuationInit, Terms
<1>5. 0 \in Backed
  BY ValuationAssumption
<1> QED BY <1>3, <1>4, <1>5 DEF ValuationInit, ValuationTypeOK, DrsTier

LEMMA ValuationTypesNext == ValuationTypeOK /\ [ValuationNext]_valuationVars => ValuationTypeOK'
<1> SUFFICES ASSUME ValuationTypeOK, [ValuationNext]_valuationVars PROVE ValuationTypeOK'
  OBVIOUS
<1> USE DEF ValuationTypeOK
<1>1. ASSUME NEW n \in ReportedEbitda, StartRecast(n) \/ UpdateReported(n)
      PROVE  ValuationTypeOK'
  BY <1>1 DEF StartRecast, UpdateReported
<1>2. ASSUME NEW b \in DOMAIN Amount, NEW j \in Likelihood \cup {"none"}, SetAddback(b, j)
      PROVE  ValuationTypeOK'
  <2> DEFINE a == [recast.addbacks EXCEPT ![b] = j]
  <2>1. a \in Addbacks
    BY DEF Addbacks
  <2>2. recast' = [recast EXCEPT !.addbacks = a]
    BY <1>2 DEF SetAddback
  <2> HIDE DEF a
  <2>3. recast' \in [started : BOOLEAN, reported : ReportedEbitda, addbacks : Addbacks]
    BY <2>1, <2>2
  <2> QED BY <1>2, <2>3 DEF SetAddback
<1>3. ASSUME NEW row \in Terms, SaveInput(row) PROVE ValuationTypeOK'
  BY <1>3 DEF SaveInput
<1>4. CASE ReloadTerms
  BY <1>4 DEF ReloadTerms
<1>5. ASSUME NEW i \in DOMAIN TierOrder, NEW n \in Backed, Assessed(TierOrder[i], n)
      PROVE  ValuationTypeOK'
  BY <1>5 DEF Assessed, DrsTier
<1>6. CASE UNCHANGED valuationVars
  BY <1>6 DEF valuationVars
<1> QED BY <1>1, <1>2, <1>3, <1>4, <1>5, <1>6 DEF ValuationNext

THEOREM ValuationTypes == ValuationSpec => []ValuationTypeOK
<1> QED BY ValuationTypesInit, ValuationTypesNext, PTL DEF ValuationSpec

-----------------------------------------------------------------------------
(* The page shows that function of the state.                                  *)
LEMMA EarningsInt ==
  ASSUME ValuationTypeOK
  PROVE  Earnings \in Int
<1> DEFINE S == {b \in DOMAIN Amount : recast.addbacks[b] \in DefensibleBy}
<1>1. IsFiniteSet(S) /\ \A b \in S : Amount[b] \in Int
  <2>1. S \subseteq DOMAIN Amount
    OBVIOUS
  <2> HIDE DEF S
  <2> QED BY <2>1, ValuationAssumption, FS_Subset
<1> HIDE DEF S
<1>2. SumFunctionOnSet(Amount, S) \in Int
  BY <1>1, SumInt
<1>3. recast.reported \in Int
  BY ValuationAssumption DEF ValuationTypeOK
<1> DEFINE x == recast.reported
           y == SumFunctionOnSet(Amount, S)
<1>4. x \in Int /\ y \in Int
  BY <1>2, <1>3
<1> HIDE DEF x, y
<1>5. x + y \in Int
  BY <1>4
<1> QED BY <1>5 DEF Earnings, x, y, S

LEMMA WorthStands == ValuationTypeOK => WorthIs
<1> SUFFICES ASSUME ValuationTypeOK PROVE WorthIs
  OBVIOUS
<1> DEFINE e == Earnings
           o == terms.override
           d == terms.debt
           base == ValueOf(rules, o, standing, e)
           potential == ValueOf(rules, o, Target, e)
<1>1. CASE ~recast.started
  BY <1>1 DEF Worth, WorthIs
<1>2. CASE recast.started
  <2>1. e \in Int
    BY EarningsInt
  <2>2. \A x : SizeBand(x) = BandOf(rules, x)
    BY DEF SizeBand, BandOf
  <2>3. \A x : Source(x) = SourceOf(rules, o, x)
    BY <2>2 DEF Source, SourceOf, Usable, UsableBy
  <2>4. \A x : Multiple(x) = MultipleOf(rules, o, x)
    BY <2>2, <2>3 DEF Multiple, MultipleOf
  <2>5. \A t : ReadinessFactor(t) = FactorOf(rules, t)
    BY DEF ReadinessFactor, FactorOf
  <2>6. EnterpriseValue(e, standing) = base /\ EnterpriseValue(e, Target) = potential
    BY <2>4, <2>5 DEF EnterpriseValue, ValueOf, Scaled
  <2>7. NetProceeds(base) = NetOf(rules, d, base)
    BY DEF NetProceeds, NetOf, AfterTax, AfterCosts
  <2>8. Width = WidthOf(rules, standing, backed)
    BY DEF Width, WidthOf, VerificationTier, TierFor
  <2>9. Worth = WorthOf(rules, o, d, standing, backed, e)
    BY <1>2, <2>3, <2>6, <2>7, <2>8 DEF Worth, WorthOf
  <2> HIDE DEF e
  <2> QED BY <1>2, <2>1, <2>9 DEF WorthIs
<1> QED BY <1>1, <1>2
-----------------------------------------------------------------------------
(* The better business is worth no less.                                       *)
LEMMA WorthMonotone ==
  ASSUME NEW r, RulesOK(r), NEW o \in Override \cup {NoOverride},
         NEW d \in Nat, NEW l \in Nat, l <= d,
         NEW i \in DOMAIN TierOrder, NEW j \in DOMAIN TierOrder, i <= j,
         NEW n \in Nat, NEW k \in Nat, n <= k, NEW e \in Nat, NEW f \in Nat, e <= f,
         SourceOf(r, o, e) = SourceOf(r, o, f), SourceOf(r, o, e) # "market",
         NEW now, now = WorthOf(r, o, d, TierOrder[i], n, e),
         NEW then, then = WorthOf(r, o, l, TierOrder[j], k, f)
  PROVE  /\ now.base <= then.base /\ now.low <= then.low /\ now.net <= then.net
         /\ TierOrder[j] = Target /\ f = e => then.base = now.potential /\ then.base - now.base = now.gap
<1> DEFINE t == TierOrder[i]
           s == TierOrder[j]
           b == ValueOf(r, o, t, e)
           c == ValueOf(r, o, s, f)
           p == ValueOf(r, o, Target, e)
<1>1. /\ MultipleOf(r, o, e) \in Nat /\ MultipleOf(r, o, f) \in Nat
      /\ MultipleOf(r, o, e) <= MultipleOf(r, o, f)
  <2>1. /\ MultipleOf(r, o, e) \in Nat
        /\ MultipleOf(r, o, e) <= MultipleOf(r, o, f)
    BY MultipleFacts
  <2>2. e \in Int /\ f \in Int /\ f <= f
    OBVIOUS
  <2>3. MultipleOf(r, o, f) \in Nat
    BY <2>2, MultipleFacts
  <2> QED BY <2>1, <2>3
<1>2. FactorOf(r, t) \in Nat /\ FactorOf(r, s) \in Nat /\ FactorOf(r, t) <= FactorOf(r, s)
  <2>1. j <= j
    BY TierRanks
  <2> QED BY <2>1, FactorFacts
<1>3. b \in Nat /\ c \in Nat /\ b <= c
  <2>1. b \in Nat /\ b <= c
    <3> HIDE DEF t, s
    <3> QED BY <1>1, <1>2, ValueMonotone DEF ValueOf
  <2>2. c \in Nat
    <3> HIDE DEF t, s
    <3>1. /\ f <= f /\ MultipleOf(r, o, f) <= MultipleOf(r, o, f)
          /\ FactorOf(r, s) <= FactorOf(r, s)
      BY <1>1, <1>2
    <3> QED BY <1>1, <1>2, <3>1, ValueMonotone DEF ValueOf
  <2> QED BY <2>1, <2>2
<1>4. /\ WidthOf(r, t, n) \in 0 .. 100 /\ WidthOf(r, s, k) \in 0 .. 100
      /\ WidthOf(r, s, k) <= WidthOf(r, t, n)
  <2>1. WidthOf(r, t, n) = r.widths[TierFor(n)] /\ WidthOf(r, s, k) = r.widths[TierFor(k)]
    BY TierRanks DEF WidthOf
  <2> HIDE DEF t, s
  <2> QED BY <2>1, TierForFacts
<1>5. /\ now.base = b /\ now.potential = p /\ now.gap = Max({0, p - b})
      /\ now.low = RoundHalfUp(b * (100 - WidthOf(r, t, n)), 100) /\ now.net = NetOf(r, d, b)
      /\ then.base = c /\ then.low = RoundHalfUp(c * (100 - WidthOf(r, s, k)), 100)
      /\ then.net = NetOf(r, l, c)
  BY DEF WorthOf
<1>6. TierOrder[j] = Target /\ f = e => c = p
  OBVIOUS
<1> HIDE DEF b, c, p, t, s
<1>7. RoundHalfUp(b * (100 - WidthOf(r, t, n)), 100) <= RoundHalfUp(c * (100 - WidthOf(r, s, k)), 100)
  BY <1>3, <1>4, LowMonotone
<1>8. NetOf(r, d, b) <= NetOf(r, l, c)
  <2>1. b \in Int /\ c \in Int
    BY <1>3
  <2> QED BY <1>3, <2>1, NetMonotone
<1>9. ASSUME TierOrder[j] = Target, f = e PROVE then.base = now.potential /\ then.base - now.base = now.gap
  <2>1. c = p
    BY <1>6, <1>9
  <2>2. c - b \in Int /\ c - b >= 0
    BY <1>3
  <2>3. Max({0, c - b}) = c - b
    BY <2>2, MaxZero
  <2> QED BY <1>5, <2>1, <2>3
<1> QED BY <1>3, <1>5, <1>7, <1>8, <1>9

(* Earning no less, no less ready, no less verified and owing no more, a        *)
(* business is worth no less, at the low end too, and leaves its owner no less, *)
(* across every limit and rounding; and reaching the target with the same      *)
(* earnings is worth what was promised for it (computeValuation).              *)
THEOREM Pays == ValuationSpec => ImprovementPays
<1> DEFINE Improved ==
      /\ terms'.override = terms.override /\ terms'.debt <= terms.debt
      /\ standing # NoTier /\ Rank(standing) <= Rank(standing')
      /\ backed <= backed'
           Paid(now, then) ==
      /\ now.valued /\ 0 <= now.earnings /\ now.earnings <= then.earnings
      /\ now.source = then.source /\ now.source # "market"
      => /\ now.base <= then.base /\ now.low <= then.low /\ now.net <= then.net
         /\ standing' = Target /\ then.earnings = now.earnings
              => then.base = now.potential /\ then.base - now.base = now.gap
           Kept == \A now \in {Worth}, then \in {Worth'} : Paid(now, then)
<1>1. ASSUME ValuationTypeOK, ValuationTypeOK', WorthIs, WorthIs', ValuationNext, Improved
      PROVE  Kept
  <2> SUFFICES ASSUME NEW now, now = Worth, NEW then, then = Worth', now.valued,
                      0 <= now.earnings, now.earnings <= then.earnings,
                      now.source = then.source, now.source # "market"
               PROVE  /\ now.base <= then.base /\ now.low <= then.low /\ now.net <= then.net
                      /\ standing' = Target /\ then.earnings = now.earnings
                           => then.base = now.potential /\ then.base - now.base = now.gap
    OBVIOUS
  <2>1. rules' = rules /\ (recast.started => recast'.started)
    <3>1. ASSUME NEW m \in ReportedEbitda, StartRecast(m) \/ UpdateReported(m)
          PROVE  rules' = rules /\ (recast.started => recast'.started)
      BY <1>1, <3>1 DEF StartRecast, UpdateReported, ValuationTypeOK
    <3>2. ASSUME NEW x \in DOMAIN Amount, NEW y, SetAddback(x, y)
          PROVE  rules' = rules /\ (recast.started => recast'.started)
      BY <1>1, <3>2 DEF SetAddback, ValuationTypeOK
    <3>3. ASSUME NEW row, SaveInput(row) \/ ReloadTerms
          PROVE  rules' = rules /\ (recast.started => recast'.started)
      BY <3>3 DEF SaveInput, ReloadTerms
    <3>4. ASSUME NEW t, NEW m, Assessed(t, m)
          PROVE  rules' = rules /\ (recast.started => recast'.started)
      BY <3>4 DEF Assessed
    <3> QED BY <1>1, <3>1, <3>2, <3>3, <3>4 DEF ValuationNext
  <2>2. standing' # NoTier
    <3>1. standing' = standing \/ \E i \in DOMAIN TierOrder : standing' = TierOrder[i]
      BY <1>1 DEF ValuationNext, StartRecast, UpdateReported, SetAddback, SaveInput, ReloadTerms,
         Assessed
    <3> QED BY <1>1, <3>1, TierRanks
  <2>3. /\ RulesOK(rules) /\ terms.override \in Override \cup {NoOverride}
        /\ terms.debt \in Nat /\ terms'.debt \in Nat /\ backed \in Nat /\ backed' \in Nat
    <3>1. \A x \in Terms : x.override \in Override \cup {NoOverride} /\ x.debt \in Nat
      <4>1. \A x \in Terms : x.override \in Override \cup {NoOverride} /\ x.debt \in Debt \cup {0}
        BY DEF Terms
      <4>2. \A y \in Debt \cup {0} : y \in Nat
        BY ValuationAssumption
      <4> QED BY <4>1, <4>2
    <3>2. terms \in Terms /\ terms' \in Terms /\ rules \in RulesVersion
      BY <1>1 DEF ValuationTypeOK
    <3>3. backed \in Backed /\ backed' \in Backed
      BY <1>1 DEF ValuationTypeOK
    <3>4. \A x \in Backed : x \in Nat
      BY ValuationAssumption
    <3> QED BY <3>1, <3>2, <3>3, <3>4, ValuationAssumption
  <2>4. PICK i \in DOMAIN TierOrder : standing = TierOrder[i]
    BY <1>1 DEF ValuationTypeOK, DrsTier
  <2>5. PICK j \in DOMAIN TierOrder : standing' = TierOrder[j]
    BY <1>1, <2>2 DEF ValuationTypeOK, DrsTier
  <2>6. i <= j
    BY <1>1, <2>4, <2>5, TierRanks
  <2>7. PICK e \in Int : now = WorthOf(rules, terms.override, terms.debt, standing, backed, e)
    BY <1>1 DEF WorthIs
  <2>8. PICK f \in Int : then = WorthOf(rules', terms'.override, terms'.debt, standing', backed', f)
    <3>1. recast.started
      BY <1>1 DEF WorthIs
    <3> QED BY <1>1, <2>1, <3>1 DEF WorthIs
  <2>9. /\ now.earnings = e /\ now.source = SourceOf(rules, terms.override, e)
        /\ then.earnings = f /\ then.source = SourceOf(rules, terms.override, f)
    BY <1>1, <2>1, <2>7, <2>8 DEF WorthOf
  <2>10. e \in Nat /\ f \in Nat /\ e <= f
    BY <2>9
  <2> DEFINE o == terms.override
             d == terms.debt
             l == terms'.debt
             n == backed
             k == backed'
             r == rules
  <2>11. /\ RulesOK(r) /\ o \in Override \cup {NoOverride} /\ d \in Nat /\ l \in Nat /\ l <= d
         /\ n \in Nat /\ k \in Nat /\ n <= k
         /\ SourceOf(r, o, e) = SourceOf(r, o, f) /\ SourceOf(r, o, e) # "market"
         /\ now = WorthOf(r, o, d, TierOrder[i], n, e)
         /\ then = WorthOf(r, o, l, TierOrder[j], k, f)
    BY <1>1, <2>1, <2>3, <2>4, <2>5, <2>7, <2>8, <2>9
  <2> HIDE DEF o, d, l, n, k, r
  <2>12. /\ now.base <= then.base /\ now.low <= then.low /\ now.net <= then.net
         /\ TierOrder[j] = Target /\ f = e => then.base = now.potential /\ then.base - now.base = now.gap
    BY <2>6, <2>10, <2>11, WorthMonotone
  <2> QED BY <2>5, <2>9, <2>12
<1>2. ValuationTypeOK /\ ValuationTypeOK' /\ WorthIs /\ WorthIs' /\ [ValuationNext]_valuationVars
        => [Improved => Kept]_valuationVars
  <2> HIDE DEF Improved, Kept
  <2> QED BY <1>1
<1>3. ValuationSpec => []ValuationTypeOK /\ []WorthIs
  BY ValuationTypes, WorthStands, PTL
<1> QED BY <1>2, <1>3, PTL DEF ValuationSpec, ImprovementPays
=============================================================================
