-------------------------- MODULE RateLimiterProofs --------------------------
(***************************************************************************)
(* Proofs about RateLimiter for any finite set of connections and any      *)
(* rates, sizes, chunks and burst window.                                  *)
(***************************************************************************)
EXTENDS RateLimiter, FiniteSetTheorems, TLAPS

-----------------------------------------------------------------------------
(* Induction over numbers and over the subsets of a finite set, each by    *)
(* looking at a smallest exception.                                        *)

\* A set that has 0 and with a number its successor has every number.
LEMMA NumberInduction ==
    ASSUME NEW T, 0 \in T, \A n \in Nat : n \in T => n + 1 \in T
    PROVE  Nat \subseteq T
<1> DEFINE B == Nat \ T
<1> SUFFICES ASSUME B # {}
             PROVE  FALSE
  OBVIOUS
<1>1. PICK x \in B : \A y \in B : ~(<<y, x>> \in OpToRel(<, Nat))
  BY NatLessThanWellFounded, WFMin, Zenon
<1>2. \A y \in B : ~(y < x)
  BY <1>1 DEF OpToRel
<1>3. x - 1 \in Nat /\ x - 1 \notin B
  BY <1>2
<1> QED
  BY <1>3

\* An element of a nonempty set: the one a sum takes next.
Pick(s) == CHOOSE x \in s : TRUE

\* The element is in the set.
LEMMA PickIn ==
    ASSUME NEW s, s # {}
    PROVE  Pick(s) \in s
BY DEF Pick

\* A set that has the empty set and that has a subset of S when it has that
\* subset less one element has every subset of S.
LEMMA SubsetInduction ==
    ASSUME NEW S, IsFiniteSet(S), NEW T, {} \in T,
           \A s \in SUBSET S : s # {} /\ s \ {Pick(s)} \in T => s \in T
    PROVE  SUBSET S \subseteq T
<1> DEFINE B == (SUBSET S) \ T
<1> SUFFICES ASSUME B # {}
             PROVE  FALSE
  OBVIOUS
<1>1. PICK s \in B : \A y \in B : ~(<<y, s>> \in StrictSubsetOrdering(S))
  <2>1. B \subseteq FiniteSubsetsOf(S)
    BY FS_Subset DEF FiniteSubsetsOf
  <2> QED
    BY <2>1, FS_StrictSubsetOrderingWellFounded, WFMin
<1>2. s \in SUBSET S /\ s \notin T
  OBVIOUS
<1>3. s # {}
  BY <1>2, Zenon
<1>4. Pick(s) \in s
  BY <1>3, PickIn
<1>5. s \ {Pick(s)} \notin B
  <2>1. <<s \ {Pick(s)}, s>> \in StrictSubsetOrdering(S)
    BY <1>2, <1>4 DEF StrictSubsetOrdering
  <2> HIDE DEF B
  <2> QED
    BY <1>1, <2>1, Zenon
<1>6. s \ {Pick(s)} \in SUBSET S
  OBVIOUS
<1>7. s \ {Pick(s)} \in T
  BY <1>5, <1>6
<1> QED
  BY <1>2, <1>3, <1>7

-----------------------------------------------------------------------------
(* Sums.                                                                   *)

\* g[s] is the sum of f over the subset s of its domain.
Totals(f, g) ==
    g = [s \in SUBSET DOMAIN f |-> IF s = {} THEN 0 ELSE f[Pick(s)] + g[s \ {Pick(s)}]]

\* The totals exist: they are defined for sets of n elements after those of
\* fewer.
LEMMA TotalsExist ==
    ASSUME NEW S, IsFiniteSet(S), NEW f \in [S -> Nat]
    PROVE  \E g \in [SUBSET S -> Nat] : Totals(f, g)
<1> DEFINE Good(g, n) == \A s \in SUBSET S : Cardinality(s) <= n =>
                           g[s] = IF s = {} THEN 0 ELSE f[Pick(s)] + g[s \ {Pick(s)}]
           Defined(n) == \E g \in [SUBSET S -> Nat] : Good(g, n)
<1> HIDE DEF Good, Defined
<1>a. \A s \in SUBSET S : /\ Cardinality(s) \in Nat /\ Cardinality(s) <= Cardinality(S)
                          /\ Cardinality(s) = 0 => s = {}
  BY FS_Subset, FS_CardinalityType, FS_EmptySet
<1>b. \A s \in SUBSET S : s # {} => /\ Pick(s) \in S /\ s \ {Pick(s)} \in SUBSET S
                                     /\ Cardinality(s \ {Pick(s)}) = Cardinality(s) - 1
  BY FS_Subset, FS_RemoveElement, PickIn
<1>1. Defined(0)
  <2> DEFINE g == [s \in SUBSET S |-> 0]
  <2>1. g \in [SUBSET S -> Nat]
    OBVIOUS
  <2>2. ASSUME NEW s \in SUBSET S, Cardinality(s) <= 0
        PROVE  s = {} /\ g[s] = 0
    <3>1. Cardinality(s) \in Nat
      BY <1>a
    <3>2. Cardinality(s) = 0
      BY <2>2, <3>1
    <3> QED
      BY <1>a, <3>2
  <2>3. Good(g, 0)
    BY <2>2 DEF Good
  <2> QED
    BY <2>1, <2>3 DEF Defined
<1>2. ASSUME NEW m \in Nat, Defined(m)
      PROVE  Defined(m + 1)
  <2>0. PICK n \in Nat \ {0} : n = m + 1 /\ m = n - 1
    OBVIOUS
  <2>1. PICK h \in [SUBSET S -> Nat] : Good(h, n - 1)
    BY <1>2, <2>0 DEF Defined
  <2> DEFINE g == [s \in SUBSET S |-> IF Cardinality(s) = n THEN f[Pick(s)] + h[s \ {Pick(s)}]
                                      ELSE h[s]]
  <2>2. g \in [SUBSET S -> Nat]
    <3>1. ASSUME NEW s \in SUBSET S, Cardinality(s) = n
          PROVE  f[Pick(s)] + h[s \ {Pick(s)}] \in Nat
      <4>1. s # {}
        BY <3>1, FS_EmptySet
      <4>2. Pick(s) \in S /\ s \ {Pick(s)} \in SUBSET S
        BY <1>b, <4>1
      <4>3. f[Pick(s)] \in Nat /\ h[s \ {Pick(s)}] \in Nat
        BY <4>2
      <4> QED
        BY <4>3
    <3> QED
      BY <3>1
  <2>3. ASSUME NEW s \in SUBSET S, Cardinality(s) <= n, s # {}
        PROVE  g[s] = f[Pick(s)] + g[s \ {Pick(s)}]
    <3>1. Cardinality(s) \in Nat
      BY <1>a
    <3>2. s \ {Pick(s)} \in SUBSET S /\ Cardinality(s \ {Pick(s)}) = Cardinality(s) - 1
      BY <1>b, <2>3
    <3>3. g[s \ {Pick(s)}] = h[s \ {Pick(s)}]
      BY <2>3, <3>1, <3>2
    <3>4. CASE Cardinality(s) = n
      BY <3>3, <3>4
    <3>5. CASE Cardinality(s) # n
      <4>1. Cardinality(s) <= n - 1
        BY <2>3, <3>1, <3>5
      <4>2. h[s] = f[Pick(s)] + h[s \ {Pick(s)}]
        <5> HIDE DEF g
        <5> QED
          BY <2>1, <2>3, <4>1 DEF Good
      <4> QED
        BY <3>3, <3>5, <4>2
    <3> QED
      BY <3>4, <3>5
  <2>4. g[{}] = 0
    <3>1. Cardinality({}) = 0
      BY FS_EmptySet
    <3>2. h[{}] = 0
      BY <2>1, <3>1 DEF Good
    <3> QED
      BY <3>1, <3>2
  <2>5. Good(g, n)
    <3> HIDE DEF g
    <3> QED
      BY <2>3, <2>4 DEF Good
  <2> HIDE DEF g
  <2> QED
    BY <2>0, <2>2, <2>5 DEF Defined
<1>3. \A n \in Nat : Defined(n)
  <2> DEFINE T == {n \in Nat : Defined(n)}
  <2>1. 0 \in T /\ \A n \in Nat : n \in T => n + 1 \in T
    BY <1>1, <1>2
  <2> HIDE DEF T
  <2>2. Nat \subseteq T
    BY <2>1, NumberInduction
  <2> QED
    BY <2>2 DEF T
<1>4. PICK g \in [SUBSET S -> Nat] : Good(g, Cardinality(S))
  <2>1. Cardinality(S) \in Nat
    BY FS_CardinalityType
  <2> QED
    BY <1>3, <2>1 DEF Defined
<1>5. \A s \in SUBSET S : g[s] = IF s = {} THEN 0 ELSE f[Pick(s)] + g[s \ {Pick(s)}]
  BY <1>a, <1>4 DEF Good
<1>6. g = [s \in SUBSET S |-> g[s]]
  OBVIOUS
<1>7. DOMAIN f = S
  OBVIOUS
<1> QED
  BY <1>5, <1>6, <1>7 DEF Totals

\* Sum is a total of its argument.
LEMMA SumIsTotal ==
    ASSUME NEW S, IsFiniteSet(S), NEW f \in [S -> Nat]
    PROVE  \E g : Totals(f, g) /\ Sum(f) = g[S]
<1> DEFINE g == CHOOSE h : Totals(f, h)
<1>1. Sum(f) = g[DOMAIN f]
  BY DEF Sum, MapThenSumSet, MapThenFoldSet, Totals, Pick
<1>2. Totals(f, g)
  BY TotalsExist
<1>3. DOMAIN f = S
  OBVIOUS
<1> QED
  BY <1>1, <1>2, <1>3

\* What a total is for a subset.
LEMMA TotalOf ==
    ASSUME NEW S, NEW f \in [S -> Nat], NEW g, Totals(f, g)
    PROVE  /\ g[{}] = 0
           /\ \A s \in SUBSET S : s # {} =>
                g[s] = f[Pick(s)] + g[s \ {Pick(s)}] /\ Pick(s) \in s
<1>1. \A s \in SUBSET S : g[s] = IF s = {} THEN 0 ELSE f[Pick(s)] + g[s \ {Pick(s)}]
  BY DEF Totals
<1>2. {} \in SUBSET S
  OBVIOUS
<1> QED
  BY <1>1, <1>2, PickIn

\* The sum of natural numbers is one.
LEMMA TotalIsNat ==
    ASSUME NEW S, IsFiniteSet(S), NEW f \in [S -> Nat], NEW g, Totals(f, g)
    PROVE  \A s \in SUBSET S : g[s] \in Nat
<1> DEFINE T == {s \in SUBSET S : g[s] \in Nat}
<1>1. /\ g[{}] = 0
      /\ \A s \in SUBSET S : s # {} =>
           g[s] = f[Pick(s)] + g[s \ {Pick(s)}] /\ Pick(s) \in s
  BY TotalOf
<1>2. {} \in T
  BY <1>1
<1>3. ASSUME NEW s \in SUBSET S, s # {}, s \ {Pick(s)} \in T
      PROVE  s \in T
  <2>1. g[s] = f[Pick(s)] + g[s \ {Pick(s)}] /\ Pick(s) \in s
    BY <1>1, <1>3
  <2> QED
    BY <1>3, <2>1
<1> HIDE DEF T
<1>4. SUBSET S \subseteq T
  BY <1>2, <1>3, SubsetInduction
<1> QED
  BY <1>4 DEF T

\* Changing one term changes the sum by the difference.
LEMMA TotalChanges ==
    ASSUME NEW S, IsFiniteSet(S), NEW f \in [S -> Nat], NEW h \in [S -> Nat],
           NEW g, Totals(f, g), NEW k, Totals(h, k),
           NEW c \in S, \A x \in S \ {c} : h[x] = f[x]
    PROVE  \A s \in SUBSET S : k[s] = g[s] + IF c \in s THEN h[c] - f[c] ELSE 0
<1> DEFINE T == {s \in SUBSET S : k[s] = g[s] + IF c \in s THEN h[c] - f[c] ELSE 0}
<1>1. {} \in T
  <2>1. g[{}] = 0 /\ k[{}] = 0
    BY TotalOf
  <2> QED
    BY <2>1
<1>2. ASSUME NEW s \in SUBSET S, s # {}, s \ {Pick(s)} \in T
      PROVE  s \in T
  <2>1. PICK p : p = Pick(s)
    OBVIOUS
  <2>2. g[s] = f[p] + g[s \ {p}] /\ p \in s
    <3> HIDE DEF T
    <3>1. \A t \in SUBSET S : t # {} => g[t] = f[Pick(t)] + g[t \ {Pick(t)}] /\ Pick(t) \in t
      BY TotalOf
    <3> QED
      BY <1>2, <2>1, <3>1
  <2>3. k[s] = h[p] + k[s \ {p}]
    <3> HIDE DEF T
    <3>1. \A t \in SUBSET S : t # {} => k[t] = h[Pick(t)] + k[t \ {Pick(t)}]
      BY TotalOf
    <3> QED
      BY <1>2, <2>1, <3>1
  <2>4. s \ {p} \in SUBSET S
    OBVIOUS
  <2>5. g[s \ {p}] \in Nat /\ k[s \ {p}] \in Nat
    BY <2>4, TotalIsNat
  <2>6. k[s \ {p}] = g[s \ {p}] + IF c \in s \ {p} THEN h[c] - f[c] ELSE 0
    BY <1>2, <2>1
  <2>7. f[p] \in Nat /\ h[p] \in Nat /\ f[c] \in Nat /\ h[c] \in Nat
    BY <2>2
  <2>8. CASE p = c
    BY <2>2, <2>3, <2>5, <2>6, <2>7, <2>8
  <2>9. CASE p # c
    BY <2>2, <2>3, <2>5, <2>6, <2>7, <2>9
  <2> QED
    BY <2>8, <2>9
<1> HIDE DEF T
<1>3. SUBSET S \subseteq T
  BY <1>1, <1>2, SubsetInduction
<1> QED
  BY <1>3 DEF T

\* A sum of smaller terms is smaller.
LEMMA TotalGrows ==
    ASSUME NEW S, IsFiniteSet(S), NEW f \in [S -> Nat], NEW h \in [S -> Nat],
           NEW g, Totals(f, g), NEW k, Totals(h, k), \A x \in S : f[x] <= h[x]
    PROVE  \A s \in SUBSET S : g[s] <= k[s]
<1> DEFINE T == {s \in SUBSET S : g[s] <= k[s]}
<1>1. {} \in T
  <2>1. g[{}] = 0 /\ k[{}] = 0
    BY TotalOf
  <2> QED
    BY <2>1
<1>2. ASSUME NEW s \in SUBSET S, s # {}, s \ {Pick(s)} \in T
      PROVE  s \in T
  <2>1. PICK p : p = Pick(s)
    OBVIOUS
  <2>2. g[s] = f[p] + g[s \ {p}] /\ p \in s
    <3> HIDE DEF T
    <3>1. \A t \in SUBSET S : t # {} => g[t] = f[Pick(t)] + g[t \ {Pick(t)}] /\ Pick(t) \in t
      BY TotalOf
    <3> QED
      BY <1>2, <2>1, <3>1
  <2>3. k[s] = h[p] + k[s \ {p}]
    <3> HIDE DEF T
    <3>1. \A t \in SUBSET S : t # {} => k[t] = h[Pick(t)] + k[t \ {Pick(t)}]
      BY TotalOf
    <3> QED
      BY <1>2, <2>1, <3>1
  <2>4. s \ {p} \in SUBSET S
    OBVIOUS
  <2>5. g[s \ {p}] \in Nat /\ k[s \ {p}] \in Nat
    BY <2>4, TotalIsNat
  <2>6. f[p] \in Nat /\ h[p] \in Nat /\ f[p] <= h[p]
    BY <2>2
  <2>7. g[s \ {p}] <= k[s \ {p}]
    BY <1>2, <2>1
  <2> QED
    BY <2>2, <2>3, <2>5, <2>6, <2>7
<1> HIDE DEF T
<1>3. SUBSET S \subseteq T
  BY <1>1, <1>2, SubsetInduction
<1> QED
  BY <1>3 DEF T

\* A sum of terms up to b is at most b times their number.
LEMMA TotalBound ==
    ASSUME NEW S, IsFiniteSet(S), NEW f \in [S -> Nat], NEW g, Totals(f, g),
           NEW b \in Nat, \A x \in S : f[x] <= b
    PROVE  \A s \in SUBSET S : g[s] <= Cardinality(s) * b
<1> DEFINE T == {s \in SUBSET S : g[s] <= Cardinality(s) * b}
<1>1. {} \in T
  <2>1. g[{}] = 0 /\ Cardinality({}) = 0
    BY TotalOf, FS_EmptySet
  <2> QED
    BY <2>1
<1>2. ASSUME NEW s \in SUBSET S, s # {}, s \ {Pick(s)} \in T
      PROVE  s \in T
  <2>1. PICK p : p = Pick(s)
    OBVIOUS
  <2>2. g[s] = f[p] + g[s \ {p}] /\ p \in s
    <3> HIDE DEF T
    <3>1. \A t \in SUBSET S : t # {} => g[t] = f[Pick(t)] + g[t \ {Pick(t)}] /\ Pick(t) \in t
      BY TotalOf
    <3> QED
      BY <1>2, <2>1, <3>1
  <2>3. s \ {p} \in SUBSET S
    OBVIOUS
  <2>4. g[s \ {p}] \in Nat /\ f[p] \in Nat /\ f[p] <= b
    BY <2>2, <2>3, TotalIsNat
  <2>5. g[s \ {p}] <= Cardinality(s \ {p}) * b
    BY <1>2, <2>1
  <2>6. Cardinality(s \ {p}) = Cardinality(s) - 1 /\ Cardinality(s) \in Nat
    BY <2>2, FS_Subset, FS_RemoveElement, FS_CardinalityType
  <2>7. (Cardinality(s) - 1) * b = Cardinality(s) * b - b
    BY <2>6
  <2>8. Cardinality(s) * b \in Nat
    BY <2>6
  <2> QED
    BY <2>2, <2>4, <2>5, <2>6, <2>7, <2>8
<1> HIDE DEF T
<1>3. SUBSET S \subseteq T
  BY <1>1, <1>2, SubsetInduction
<1> QED
  BY <1>3 DEF T

\* If two terms are together at most b above a third, so are their sums, b for
\* every term.
LEMMA TotalTrade ==
    ASSUME NEW S, IsFiniteSet(S), NEW b \in Nat,
           NEW f \in [S -> Nat], NEW e \in [S -> Nat], NEW h \in [S -> Nat],
           NEW g, Totals(f, g), NEW d, Totals(e, d), NEW k, Totals(h, k),
           \A x \in S : f[x] + e[x] <= h[x] + b
    PROVE  \A s \in SUBSET S : g[s] + d[s] <= k[s] + Cardinality(s) * b
<1> DEFINE T == {s \in SUBSET S : g[s] + d[s] <= k[s] + Cardinality(s) * b}
<1>1. {} \in T
  <2>1. g[{}] = 0 /\ d[{}] = 0 /\ k[{}] = 0 /\ Cardinality({}) = 0
    BY TotalOf, FS_EmptySet
  <2> QED
    BY <2>1
<1>2. ASSUME NEW s \in SUBSET S, s # {}, s \ {Pick(s)} \in T
      PROVE  s \in T
  <2>1. PICK p : p = Pick(s)
    OBVIOUS
  <2>2. g[s] = f[p] + g[s \ {p}] /\ p \in s
    <3> HIDE DEF T
    <3>1. \A t \in SUBSET S : t # {} => g[t] = f[Pick(t)] + g[t \ {Pick(t)}] /\ Pick(t) \in t
      BY TotalOf
    <3> QED
      BY <1>2, <2>1, <3>1
  <2>3. d[s] = e[p] + d[s \ {p}]
    <3> HIDE DEF T
    <3>1. \A t \in SUBSET S : t # {} => d[t] = e[Pick(t)] + d[t \ {Pick(t)}]
      BY TotalOf
    <3> QED
      BY <1>2, <2>1, <3>1
  <2>4. k[s] = h[p] + k[s \ {p}]
    <3> HIDE DEF T
    <3>1. \A t \in SUBSET S : t # {} => k[t] = h[Pick(t)] + k[t \ {Pick(t)}]
      BY DEF Totals
    <3> QED
      BY <1>2, <2>1, <3>1
  <2>5. s \ {p} \in SUBSET S
    OBVIOUS
  <2>6. g[s \ {p}] \in Nat /\ d[s \ {p}] \in Nat /\ k[s \ {p}] \in Nat
    BY <2>5, TotalIsNat
  <2>7. f[p] \in Nat /\ e[p] \in Nat /\ h[p] \in Nat /\ f[p] + e[p] <= h[p] + b
    BY <2>2
  <2>8. g[s \ {p}] + d[s \ {p}] <= k[s \ {p}] + Cardinality(s \ {p}) * b
    BY <1>2, <2>1
  <2>9. Cardinality(s \ {p}) = Cardinality(s) - 1 /\ Cardinality(s) \in Nat
    BY <2>2, FS_Subset, FS_RemoveElement, FS_CardinalityType
  <2>10. (Cardinality(s) - 1) * b = Cardinality(s) * b - b
    BY <2>9
  <2>11. Cardinality(s) * b \in Nat
    BY <2>9
  <2> QED
    BY <2>2, <2>3, <2>4, <2>6, <2>7, <2>8, <2>9, <2>10, <2>11
<1> HIDE DEF T
<1>3. SUBSET S \subseteq T
  BY <1>1, <1>2, SubsetInduction
<1> QED
  BY <1>3 DEF T

\* The same for sums.
LEMMA SumTrade ==
    ASSUME NEW S, IsFiniteSet(S), NEW b \in Nat,
           NEW f \in [S -> Nat], NEW e \in [S -> Nat], NEW h \in [S -> Nat],
           \A x \in S : f[x] + e[x] <= h[x] + b
    PROVE  Sum(f) + Sum(e) <= Sum(h) + Cardinality(S) * b
<1>1. PICK g : Totals(f, g) /\ Sum(f) = g[S]
  BY SumIsTotal
<1>2. PICK d : Totals(e, d) /\ Sum(e) = d[S]
  BY SumIsTotal
<1>3. PICK k : Totals(h, k) /\ Sum(h) = k[S]
  BY SumIsTotal
<1>4. \A s \in SUBSET S : g[s] + d[s] <= k[s] + Cardinality(s) * b
  BY <1>1, <1>2, <1>3, TotalTrade
<1> QED
  BY <1>1, <1>2, <1>3, <1>4

\* The facts about totals, for Sum.
LEMMA SumFacts ==
    ASSUME NEW S, IsFiniteSet(S), NEW f \in [S -> Nat]
    PROVE  /\ Sum(f) \in Nat
           /\ \A b \in Nat : (\A x \in S : f[x] <= b) => Sum(f) <= Cardinality(S) * b
           /\ \A h \in [S -> Nat] : (\A x \in S : f[x] <= h[x]) => Sum(f) <= Sum(h)
           /\ \A h \in [S -> Nat], c \in S :
                (\A x \in S \ {c} : h[x] = f[x]) => Sum(h) = Sum(f) + h[c] - f[c]
<1>1. PICK g : Totals(f, g) /\ Sum(f) = g[S]
  BY SumIsTotal
<1>2. Sum(f) \in Nat
  BY <1>1, TotalIsNat
<1>3. ASSUME NEW b \in Nat, \A x \in S : f[x] <= b
      PROVE  Sum(f) <= Cardinality(S) * b
  BY <1>1, <1>3, TotalBound
<1>4. ASSUME NEW h \in [S -> Nat], \A x \in S : f[x] <= h[x]
      PROVE  Sum(f) <= Sum(h)
  <2>1. PICK k : Totals(h, k) /\ Sum(h) = k[S]
    BY SumIsTotal
  <2> QED
    BY <1>1, <1>4, <2>1, TotalGrows
<1>5. ASSUME NEW h \in [S -> Nat], NEW c \in S, \A x \in S \ {c} : h[x] = f[x]
      PROVE  Sum(h) = Sum(f) + h[c] - f[c]
  <2>1. PICK k : Totals(h, k) /\ Sum(h) = k[S]
    BY SumIsTotal
  <2>2. k[S] = g[S] + (h[c] - f[c])
    BY <1>1, <1>5, <2>1, TotalChanges
  <2> QED
    BY <1>1, <1>2, <2>1, <2>2
<1> QED
  BY <1>2, <1>3, <1>4, <1>5

-----------------------------------------------------------------------------
(* Largest and smallest elements.                                          *)

\* A finite nonempty set of integers has a largest and a smallest element.
LEMMA MaxMin ==
    ASSUME NEW S \in SUBSET Int, IsFiniteSet(S), S # {}
    PROVE  /\ Max(S) \in S /\ \A y \in S : y <= Max(S)
           /\ Min(S) \in S /\ \A y \in S : Min(S) <= y
<1> DEFINE Ends(s) == /\ \E x \in s : \A y \in s : x >= y
                      /\ \E x \in s : \A y \in s : x =< y
           T == {s \in SUBSET S : s # {} => Ends(s)}
<1>1. {} \in T
  OBVIOUS
<1>2. ASSUME NEW s \in SUBSET S, s # {}, s \ {Pick(s)} \in T
      PROVE  s \in T
  <2>1. PICK p : p = Pick(s)
    OBVIOUS
  <2>2. p \in s /\ p \in Int
    BY <1>2, <2>1, PickIn
  <2>3. CASE s \ {p} = {}
    <3>1. \A y \in s : y = p
      BY <2>3
    <3> QED
      BY <2>2, <3>1
  <2>4. CASE s \ {p} # {}
    <3>1. Ends(s \ {p})
      BY <1>2, <2>1, <2>4
    <3>2. PICK x \in s \ {p} : \A y \in s \ {p} : x >= y
      BY <3>1
    <3>3. PICK z \in s \ {p} : \A y \in s \ {p} : z =< y
      BY <3>1
    <3>4. x \in Int /\ z \in Int /\ x \in s /\ z \in s
      OBVIOUS
    <3>5. \E m \in s : \A y \in s : m >= y
      <4>1. CASE x >= p
        BY <2>2, <3>2, <3>4, <4>1
      <4>2. CASE p >= x
        <5>1. \A y \in s : p >= y
          BY <2>2, <3>2, <3>4, <4>2
        <5> QED
          BY <2>2, <5>1
      <4> QED
        BY <2>2, <3>4, <4>1, <4>2
    <3>6. \E m \in s : \A y \in s : m =< y
      <4>1. CASE z =< p
        BY <2>2, <3>3, <3>4, <4>1
      <4>2. CASE p =< z
        <5>1. \A y \in s : p =< y
          BY <2>2, <3>3, <3>4, <4>2
        <5> QED
          BY <2>2, <5>1
      <4> QED
        BY <2>2, <3>4, <4>1, <4>2
    <3> QED
      BY <3>5, <3>6
  <2> QED
    BY <2>3, <2>4
<1> HIDE DEF T
<1>3. SUBSET S \subseteq T
  BY <1>1, <1>2, SubsetInduction
<1>4. Ends(S)
  BY <1>3 DEF T
<1>5. Max(S) \in S /\ \A y \in S : Max(S) >= y
  BY <1>4 DEF Max
<1>6. Min(S) \in S /\ \A y \in S : Min(S) =< y
  BY <1>4 DEF Min
<1> QED
  BY <1>5, <1>6

\* The larger and the smaller of two integers.
LEMMA MaxMinOfTwo ==
    ASSUME NEW a \in Int, NEW b \in Int
    PROVE  /\ Max({a, b}) = IF a >= b THEN a ELSE b
           /\ Min({a, b}) = IF a <= b THEN a ELSE b
<1>1. {a, b} \in SUBSET Int /\ IsFiniteSet({a, b}) /\ {a, b} # {}
  <2>1. {a, b} = {a} \cup {b}
    OBVIOUS
  <2>2. IsFiniteSet({a} \cup {b})
    BY FS_Singleton, FS_AddElement
  <2> QED
    BY <2>1, <2>2
<1>2. /\ Max({a, b}) \in {a, b} /\ \A y \in {a, b} : y <= Max({a, b})
      /\ Min({a, b}) \in {a, b} /\ \A y \in {a, b} : Min({a, b}) <= y
  BY <1>1, MaxMin
<1> QED
  BY <1>2

\* The bounds the properties are stated with.
LEMMA Bounds ==
    /\ Max(Rates) \in Nat \ {0} /\ Min(Rates) \in Nat \ {0}
    /\ \A r \in Rates : r \in Nat \ {0} /\ r <= Max(Rates) /\ Min(Rates) <= r
    /\ \A r \in Rates : Burst(r) \in Nat \ {0} /\ Burst(r) <= MaxBurst
    /\ MaxBurst \in Nat
    /\ MaxSize \in Nat /\ \A n \in Sizes : n \in Nat \ {0} /\ n <= MaxSize
    /\ AllSizes \in Nat
    /\ Allowance \in Nat /\ Allowance = AllSizes + Max(Rates) - 1
<1>1. Rates \in SUBSET Int /\ Sizes \in SUBSET Int
  BY LimiterAssumption
<1>2. /\ Max(Rates) \in Rates /\ Min(Rates) \in Rates
      /\ \A r \in Rates : r <= Max(Rates) /\ Min(Rates) <= r
  BY <1>1, LimiterAssumption, MaxMin
<1>3. MaxSize \in Sizes /\ \A n \in Sizes : n <= MaxSize
  BY <1>1, LimiterAssumption, MaxMin DEF MaxSize
<1>4. \A r \in Rates : Burst(r) \in Nat \ {0}
  <2> TAKE r \in Rates
  <2>1. r * Window \in Nat /\ MaxChunk \in Nat \ {0}
    BY LimiterAssumption
  <2>2. Burst(r) = IF r * Window >= MaxChunk THEN r * Window ELSE MaxChunk
    BY <2>1, MaxMinOfTwo DEF Burst
  <2> QED
    BY <2>1, <2>2
<1>5. MaxBurst \in {Burst(r) : r \in Rates} /\ \A b \in {Burst(r) : r \in Rates} : b <= MaxBurst
  <2>1. IsFiniteSet({Burst(r) : r \in Rates})
    <3>1. [r \in Rates |-> Burst(r)] \in Surjection(Rates, {Burst(r) : r \in Rates})
      BY DEF Surjection
    <3> QED
      BY <3>1, LimiterAssumption, FS_Surjection
  <2> DEFINE Bursts == {Burst(r) : r \in Rates}
  <2>2. Max(Bursts) = MaxBurst /\ IsFiniteSet(Bursts)
    BY <2>1 DEF MaxBurst
  <2>3. \A b \in Bursts : b \in Int
    BY <1>4
  <2>4. Bursts # {}
    BY LimiterAssumption
  <2> HIDE DEF Bursts
  <2>5. MaxBurst \in Bursts /\ \A b \in Bursts : b <= MaxBurst
    <3>1. Bursts \in SUBSET Int
      BY <2>3
    <3> QED
      BY <2>2, <2>4, <3>1, MaxMin
  <2> QED
    BY <2>5 DEF Bursts
<1>6. Cardinality(Conns) \in Nat /\ MaxSize \in Nat
  BY <1>3, LimiterAssumption, FS_CardinalityType
<1>7. AllSizes \in Nat
  BY <1>6 DEF AllSizes
<1>8. Allowance \in Nat /\ Allowance = AllSizes + Max(Rates) - 1
  <2>1. Max(Rates) \in Nat \ {0}
    BY <1>2, LimiterAssumption
  <2> QED
    BY <1>7, <2>1 DEF Allowance
<1> QED
  BY <1>2, <1>3, <1>4, <1>5, <1>6, <1>7, <1>8, LimiterAssumption

-----------------------------------------------------------------------------
(* The inductive invariant.                                                *)

\* What the bucket holds when nothing caps it.
Balance == tokens + age * rate

\* The tokens reserved by the connections that sleep for more than t ticks.
Owed(t) == Sum([c \in Conns |-> IF conn[c].sleep > t THEN conn[c].charged ELSE 0])

\* A limiter that is not closed has a rate.
RateInv == IF closed THEN rate = 0 ELSE rate \in Rates

\* No operation is charged for more than its size: what is charged is what
\* the rounds so far took out of it.
ConnInv ==
    \A c \in Conns :
        /\ conn[c].charged + conn[c].remaining
             <= conn[c].size + IF conn[c].pc = Asleep THEN conn[c].chunk ELSE 0
        /\ conn[c].remaining = 0 => conn[c].charged = 0 /\ conn[c].size = 0
        /\ conn[c].pc \in {Checked, Asleep} => conn[c].remaining > 0
        /\ conn[c].pc # Asleep => conn[c].sleep = 0

\* What a connection may have ended after Close, by where it stands.
LateInv ==
    \A c \in Conns :
        /\ ~closed \/ conn[c].pc \in {Checked, Asleep} => late[c] = 0
        /\ conn[c].pc = Idle => late[c] <= 1
        /\ late[c] <= 2

\* Of the operation in record w, the bytes that no reservation will pay for any
\* more: those of finished rounds, of the chunk slept for, and of a chunk that
\* was checked what exceeds the burst b it will be reserved at.
TakenBy(w, b) ==
    w.size - w.remaining + IF w.pc = Asleep THEN w.chunk
                           ELSE IF w.pc = Checked /\ w.chunk > b THEN w.chunk - b ELSE 0

TakenTerms == [c \in Conns |-> TakenBy(conn[c], CurBurst)]

Taken == Sum(TakenTerms)

\* The bytes that passed beyond the rate, those of operations under way that
\* nothing will pay for any more, and what the bucket holds come from one
\* burst and one operation of every connection.
ExcessInv == ~closed => excess + Taken + Refreshed <= AllSizes + MaxBurst

\* The debt that will be left in t ticks is reserved by connections that will
\* still sleep then, up to less than one tick.
DebtInv ==
    ~closed => \A t \in Nat : -Balance <= t * rate + (rate - 1) + Owed(t)

\* No sleep is a whole tick longer than one operation of every connection.
SleepInv == \A c \in Conns : conn[c].sleep * Min(Rates) < AllSizes + Min(Rates)

\* The parts that are about one connection or the limiter alone.
LocalInv == TypeOK /\ RateInv /\ ConnInv /\ LateInv

Inv == LocalInv /\ ExcessInv /\ DebtInv /\ SleepInv

-----------------------------------------------------------------------------
(* What a state of the bucket is, and what one step of a connection does   *)
(* to its record.                                                          *)

\* The bucket, when it is brought up to date.
LEMMA Bucket ==
    ASSUME TypeOK, RateInv
    PROVE  /\ rate \in Nat /\ tokens \in Int /\ age \in Nat /\ age * rate \in Nat
           /\ Balance \in Int /\ tokens <= Balance
           /\ CurBurst \in Nat /\ (~closed => CurBurst > 0 /\ CurBurst <= MaxBurst /\ rate > 0)
           /\ Refreshed = IF CurBurst <= Balance THEN CurBurst ELSE Balance
           /\ Refreshed \in Int /\ tokens <= Refreshed
<1>1. rate \in Nat /\ tokens \in Int /\ age \in Nat /\ (~closed => rate \in Rates)
  BY Bounds DEF TypeOK, RateInv
<1>2. age * rate \in Nat
  BY <1>1
<1>3. Balance \in Int /\ tokens <= Balance
  BY <1>1, <1>2 DEF Balance
<1>4. CurBurst \in Nat /\ (~closed => CurBurst > 0 /\ CurBurst <= MaxBurst /\ rate > 0)
  BY <1>1, Bounds DEF CurBurst
<1>5. Refreshed = IF CurBurst <= Balance THEN CurBurst ELSE Balance
  <2>1. Min({CurBurst, Balance}) = IF CurBurst <= Balance THEN CurBurst ELSE Balance
    <3>1. CurBurst \in Int /\ Balance \in Int
      BY <1>3, <1>4
    <3> QED
      BY <3>1, MaxMinOfTwo
  <2>2. Refreshed = Min({CurBurst, Balance})
    BY DEF Refreshed, Balance
  <2> QED
    BY <2>1, <2>2
<1>6. tokens <= CurBurst
  BY DEF TypeOK
<1> QED
  BY <1>1, <1>2, <1>3, <1>4, <1>5, <1>6

\* The record of a connection.
LEMMA Record ==
    ASSUME TypeOK, NEW c \in Conns
    PROVE  /\ conn[c] \in ConnRec
           /\ conn[c].pc \in {Idle, Checked, Asleep, Dead} /\ conn[c].kind \in {"read", "write"}
           /\ conn[c].size \in Sizes \cup {0} /\ conn[c].size \in Nat
           /\ conn[c].remaining \in Nat /\ conn[c].chunk \in Nat
           /\ conn[c].charged \in Nat /\ conn[c].sleep \in Nat
           /\ conn[c].chunk <= conn[c].remaining /\ conn[c].remaining <= conn[c].size
           /\ late[c] \in Nat
<1>1. conn[c] \in ConnRec /\ late[c] \in Nat
  BY DEF TypeOK
<1>2. conn[c].chunk <= conn[c].remaining /\ conn[c].remaining <= conn[c].size
  BY DEF TypeOK
<1>3. /\ conn[c].pc \in {Idle, Checked, Asleep, Dead} /\ conn[c].kind \in {"read", "write"}
      /\ conn[c].size \in Sizes \cup {0}
      /\ conn[c].remaining \in Nat /\ conn[c].chunk \in Nat
      /\ conn[c].charged \in Nat /\ conn[c].sleep \in Nat
  BY <1>1 DEF ConnRec
<1>4. conn[c].size \in Nat
  BY <1>3, Bounds
<1> QED
  BY <1>1, <1>2, <1>3, <1>4

\* A step that gives one connection a new record.
Sets(c, w) ==
    /\ w \in ConnRec /\ conn'[c] = w
    /\ conn' \in [Conns -> ConnRec] /\ \A d \in Conns \ {c} : conn'[d] = conn[d]

\* An EXCEPT at one connection is such a step.
LEMMA SetsRecord ==
    ASSUME TypeOK, NEW c \in Conns, NEW w \in ConnRec, conn' = [conn EXCEPT ![c] = w]
    PROVE  Sets(c, w)
BY DEF TypeOK, Sets

\* The record between two operations.
LEMMA IdleRecord ==
    /\ IdleConn \in ConnRec
    /\ [IdleConn EXCEPT !.pc = Dead] \in ConnRec
    /\ \A k \in {"read", "write"}, n \in Sizes :
         [IdleConn EXCEPT !.kind = k, !.size = n, !.remaining = n] \in ConnRec
BY Bounds DEF IdleConn, ConnRec

\* Begin: a new operation, of which nothing is charged.
LEMMA BeginSets ==
    ASSUME TypeOK, NEW c \in Conns, NEW k \in {"read", "write"}, NEW n \in Sizes, Begin(c, k, n)
    PROVE  \E w : /\ Sets(c, w)
                  /\ w.pc = Idle /\ w.size = n /\ w.remaining = n /\ w.chunk = 0
                  /\ w.charged = 0 /\ w.sleep = 0
<1> DEFINE w == [IdleConn EXCEPT !.kind = k, !.size = n, !.remaining = n]
<1>1. w \in ConnRec
  BY IdleRecord
<1>2. Sets(c, w)
  <2> HIDE DEF w
  <2>1. conn' = [conn EXCEPT ![c] = w]
    BY DEF Begin, w
  <2> QED
    BY <1>1, <2>1, SetsRecord
<1>3. /\ w.pc = Idle /\ w.size = n /\ w.remaining = n /\ w.chunk = 0
      /\ w.charged = 0 /\ w.sleep = 0
  BY DEF IdleConn
<1> HIDE DEF w
<1> QED
  BY <1>2, <1>3

\* WaitClosed: the connection is given up, and nothing stays reserved for it.
LEMMA WaitClosedSets ==
    ASSUME TypeOK, NEW c \in Conns, WaitClosed(c)
    PROVE  \E w : /\ Sets(c, w)
                  /\ w.pc = Dead /\ w.size = 0 /\ w.remaining = 0 /\ w.chunk = 0
                  /\ w.charged = 0 /\ w.sleep = 0
<1> DEFINE w == [IdleConn EXCEPT !.pc = Dead]
<1>1. w \in ConnRec
  BY IdleRecord
<1>2. Sets(c, w)
  <2> HIDE DEF w
  <2>1. conn' = [conn EXCEPT ![c] = w]
    BY DEF WaitClosed, w
  <2> QED
    BY <1>1, <2>1, SetsRecord
<1>3. /\ w.pc = Dead /\ w.size = 0 /\ w.remaining = 0 /\ w.chunk = 0
      /\ w.charged = 0 /\ w.sleep = 0
  BY DEF IdleConn
<1> HIDE DEF w
<1> QED
  BY <1>2, <1>3

\* Check: only the chunk changes, to at most what remains.
LEMMA CheckSets ==
    ASSUME TypeOK, RateInv, NEW c \in Conns, Check(c)
    PROVE  \E w : /\ Sets(c, w)
                  /\ w.pc = Checked /\ w.size = conn[c].size /\ w.remaining = conn[c].remaining
                  /\ w.charged = conn[c].charged /\ w.sleep = conn[c].sleep
                  /\ w.chunk <= w.remaining /\ w.chunk <= CurBurst
<1> DEFINE m == Min({conn[c].remaining, CurBurst})
           w == [conn[c] EXCEPT !.pc = Checked, !.chunk = m]
<1>0. m \in Nat /\ m <= conn[c].remaining /\ m <= CurBurst
  <2>1. conn[c].remaining \in Nat /\ CurBurst \in Nat
    BY Record, Bucket
  <2>2. m = IF conn[c].remaining <= CurBurst THEN conn[c].remaining ELSE CurBurst
    <3>1. conn[c].remaining \in Int /\ CurBurst \in Int
      BY <2>1
    <3> QED
      BY <3>1, MaxMinOfTwo
  <2> QED
    BY <2>1, <2>2
<1>1. w \in ConnRec /\ conn[c] \in ConnRec
  <2> HIDE DEF m
  <2>1. conn[c] \in ConnRec
    BY Record
  <2> QED
    BY <1>0, <2>1 DEF ConnRec
<1>2. conn' = [conn EXCEPT ![c] = w]
  BY DEF Check, TypeOK
<1>3. /\ w.pc = Checked /\ w.size = conn[c].size /\ w.remaining = conn[c].remaining
      /\ w.charged = conn[c].charged /\ w.sleep = conn[c].sleep /\ w.chunk = m
  BY <1>1 DEF ConnRec
<1> HIDE DEF w, m
<1>4. Sets(c, w)
  BY <1>1, <1>2, SetsRecord
<1> QED
  BY <1>0, <1>3, <1>4

\* Reserve: at most the chunk is charged, and the sleep is what is lacking,
\* truncated to ticks.
LEMMA ReserveSets ==
    ASSUME TypeOK, RateInv, NEW c \in Conns, Reserve(c)
    PROVE  \E need, w :
             /\ need \in Nat
             /\ Sets(c, w)
             /\ need <= conn[c].chunk
             /\ need = IF conn[c].chunk <= CurBurst THEN conn[c].chunk ELSE CurBurst
             /\ tokens' = Refreshed - need
             /\ w.pc = Asleep /\ w.size = conn[c].size /\ w.remaining = conn[c].remaining
             /\ w.chunk = conn[c].chunk /\ w.charged = conn[c].charged + need
             /\ w.sleep \in Nat
             /\ w.sleep * rate <= Max({0, need - Refreshed})
             /\ Max({0, need - Refreshed}) < (w.sleep + 1) * rate
<1> DEFINE need == Min({conn[c].chunk, CurBurst})
           lack == Max({0, need - Refreshed})
           w == [conn[c] EXCEPT !.pc = Asleep, !.charged = conn[c].charged + need,
                                !.sleep = lack \div rate]
<1>0. /\ need \in Nat /\ need <= conn[c].chunk
      /\ need = IF conn[c].chunk <= CurBurst THEN conn[c].chunk ELSE CurBurst
  <2>1. conn[c].chunk \in Nat /\ CurBurst \in Nat
    BY Record, Bucket
  <2>2. need = IF conn[c].chunk <= CurBurst THEN conn[c].chunk ELSE CurBurst
    <3>1. conn[c].chunk \in Int /\ CurBurst \in Int
      BY <2>1
    <3> QED
      BY <3>1, MaxMinOfTwo
  <2> QED
    BY <2>1, <2>2
<1>1. lack \in Nat /\ rate \in Nat \ {0}
  <2> HIDE DEF need
  <2>1. ~closed /\ Refreshed \in Int /\ rate \in Nat /\ (~closed => rate > 0)
    BY Bucket DEF Reserve
  <2>2. 0 \in Int /\ need - Refreshed \in Int
    BY <1>0, <2>1
  <2>3. lack = IF 0 >= need - Refreshed THEN 0 ELSE need - Refreshed
    BY <2>2, MaxMinOfTwo
  <2> QED
    BY <2>1, <2>2, <2>3
<1>2. tokens' = Refreshed - need /\ conn' = [conn EXCEPT ![c] = w]
  BY DEF Reserve, TypeOK
<1> HIDE DEF need, lack
<1>3. /\ lack \div rate \in Nat /\ (lack \div rate) * rate <= lack
      /\ lack < ((lack \div rate) + 1) * rate
  BY <1>1
<1>4. conn[c] \in ConnRec /\ conn[c].charged + need \in Nat
  BY <1>0, Record
<1>5. w \in ConnRec
  BY <1>3, <1>4 DEF ConnRec
<1>6. /\ w.pc = Asleep /\ w.size = conn[c].size /\ w.remaining = conn[c].remaining
      /\ w.chunk = conn[c].chunk /\ w.charged = conn[c].charged + need
      /\ w.sleep = lack \div rate
  BY <1>4 DEF ConnRec
<1> HIDE DEF w
<1>7. Sets(c, w)
  BY <1>2, <1>5, SetsRecord
<1>8. lack = Max({0, need - Refreshed})
  BY DEF lack
<1> QED
  BY <1>0, <1>2, <1>3, <1>6, <1>7, <1>8

\* Wake: the chunk is taken off what remains.
LEMMA WakeSets ==
    ASSUME TypeOK, NEW c \in Conns, Wake(c)
    PROVE  \E w : /\ Sets(c, w)
                  /\ w.pc = Idle /\ w.size = conn[c].size
                  /\ w.remaining = conn[c].remaining - conn[c].chunk /\ w.chunk = 0
                  /\ w.charged = conn[c].charged /\ w.sleep = 0
<1> DEFINE rest == conn[c].remaining - conn[c].chunk
           w == [conn[c] EXCEPT !.pc = Idle, !.chunk = 0, !.remaining = rest]
<1>1. conn[c] \in ConnRec /\ rest \in Nat /\ conn[c].sleep = 0
  BY Record DEF Wake
<1>2. conn' = [conn EXCEPT ![c] = w]
  BY DEF Wake, TypeOK
<1> HIDE DEF rest
<1>3. w \in ConnRec
  BY <1>1 DEF ConnRec
<1>4. /\ w.pc = Idle /\ w.size = conn[c].size /\ w.remaining = rest /\ w.chunk = 0
      /\ w.charged = conn[c].charged /\ w.sleep = 0
  BY <1>1 DEF ConnRec
<1> HIDE DEF w
<1>5. Sets(c, w)
  BY <1>2, <1>3, SetsRecord
<1> QED
  BY <1>4, <1>5 DEF rest

\* Pass: nothing stays reserved.
LEMMA PassSets ==
    ASSUME TypeOK, NEW c \in Conns, Pass(c)
    PROVE  \E w : /\ Sets(c, w)
                  /\ w.pc = Idle /\ w.size = 0 /\ w.remaining = 0 /\ w.chunk = 0
                  /\ w.charged = 0 /\ w.sleep = 0
<1>1. Sets(c, IdleConn)
  BY IdleRecord, SetsRecord DEF Pass
<1> QED
  BY <1>1 DEF IdleConn

\* Time leaves everything but the sleep of a connection.
LEMMA TickSets ==
    ASSUME TypeOK, Tick
    PROVE  /\ conn' \in [Conns -> ConnRec]
           /\ \A c \in Conns :
                /\ conn'[c].pc = conn[c].pc /\ conn'[c].size = conn[c].size
                /\ conn'[c].remaining = conn[c].remaining /\ conn'[c].chunk = conn[c].chunk
                /\ conn'[c].charged = conn[c].charged
                /\ conn'[c].sleep \in Nat
                /\ conn'[c].sleep = IF conn[c].sleep = 0 THEN 0 ELSE conn[c].sleep - 1
<1>1. ASSUME NEW c \in Conns
      PROVE  LET z == IF conn[c].sleep = 0 THEN 0 ELSE conn[c].sleep - 1
             IN  z \in Nat /\ Max({0, conn[c].sleep - 1}) = z
  BY Record, MaxMinOfTwo
<1>2. conn' = [c \in Conns |->
                 [conn[c] EXCEPT !.sleep = IF conn[c].sleep = 0 THEN 0 ELSE conn[c].sleep - 1]]
  BY <1>1 DEF Tick
<1>3. ASSUME NEW c \in Conns
      PROVE  /\ conn'[c] \in ConnRec
             /\ conn'[c].pc = conn[c].pc /\ conn'[c].size = conn[c].size
             /\ conn'[c].remaining = conn[c].remaining /\ conn'[c].chunk = conn[c].chunk
             /\ conn'[c].charged = conn[c].charged
             /\ conn'[c].sleep \in Nat
             /\ conn'[c].sleep = IF conn[c].sleep = 0 THEN 0 ELSE conn[c].sleep - 1
  <2>1. conn[c] \in ConnRec /\ conn[c].sleep \in Nat
    BY Record
  <2>2. conn'[c] = [conn[c] EXCEPT !.sleep = IF conn[c].sleep = 0 THEN 0 ELSE conn[c].sleep - 1]
    BY <1>2
  <2> QED
    BY <2>1, <2>2 DEF ConnRec
<1>4. conn' \in [Conns -> ConnRec]
  BY <1>2, <1>3
<1> QED
  BY <1>3, <1>4

-----------------------------------------------------------------------------
(* LocalInv is inductive.                                                  *)

\* The new record of a connection has to fulfil its own part.
LEMMA RecordKeeps ==
    ASSUME TypeOK, ConnInv, NEW c \in Conns, NEW w, Sets(c, w),
           w.chunk <= w.remaining, w.remaining <= w.size,
           w.charged + w.remaining <= w.size + IF w.pc = Asleep THEN w.chunk ELSE 0,
           w.remaining = 0 => w.charged = 0 /\ w.size = 0,
           w.pc \in {Checked, Asleep} => w.remaining > 0,
           w.pc # Asleep => w.sleep = 0
    PROVE  /\ conn' \in [Conns -> ConnRec]
           /\ \A d \in Conns : /\ conn'[d].chunk <= conn'[d].remaining
                               /\ conn'[d].remaining <= conn'[d].size
           /\ ConnInv'
<1>1. conn' \in [Conns -> ConnRec] /\ conn'[c] = w /\ \A d \in Conns \ {c} : conn'[d] = conn[d]
  BY DEF Sets
<1>2. \A d \in Conns : /\ conn'[d].chunk <= conn'[d].remaining
                        /\ conn'[d].remaining <= conn'[d].size
  BY <1>1 DEF TypeOK
<1>3. ConnInv'
  BY <1>1 DEF ConnInv
<1> QED
  BY <1>1, <1>2, <1>3

\* A step that leaves the limiter alone leaves its burst alone.
LEMMA SameBurst ==
    ASSUME UNCHANGED <<rate, closed>>
    PROVE  CurBurst' = CurBurst /\ (RateInv => RateInv')
BY DEF CurBurst, RateInv

\* A step of a connection that does not end an operation.
LEMMA LateKeeps ==
    ASSUME TypeOK, LateInv, NEW c \in Conns, NEW w, Sets(c, w), UNCHANGED <<closed, late>>,
           w.pc \in {Checked, Asleep} => ~closed,
           w.pc = Idle => late[c] <= 1
    PROVE  LateInv'
<1>1. conn'[c] = w /\ \A d \in Conns \ {c} : conn'[d] = conn[d]
  BY DEF Sets
<1> QED
  BY <1>1 DEF LateInv

\* NewRateLimiter establishes LocalInv.
LEMMA LocalInit ==
    Init => LocalInv
<1> SUFFICES ASSUME Init
             PROVE  LocalInv
  OBVIOUS
<1>1. rate \in Rates /\ tokens = 0 /\ closed = FALSE /\ age = 0 /\ excess = 0
  BY DEF Init
<1>2. \A c \in Conns : conn[c] = IdleConn /\ late[c] = 0
  BY DEF Init
<1>3. conn \in [Conns -> ConnRec] /\ late \in [Conns -> Nat]
  BY IdleRecord DEF Init
<1>4. \A c \in Conns : /\ conn[c].pc = Idle /\ conn[c].size = 0 /\ conn[c].remaining = 0
                       /\ conn[c].chunk = 0 /\ conn[c].charged = 0 /\ conn[c].sleep = 0
  BY <1>2 DEF IdleConn
<1>5. CurBurst \in Nat
  BY <1>1, Bounds DEF CurBurst
<1>6. TypeOK
  <2>1. \A c \in Conns : conn[c].chunk <= conn[c].remaining /\ conn[c].remaining <= conn[c].size
    BY <1>4
  <2>2. /\ rate \in Rates \cup {0} /\ tokens \in Int /\ tokens <= CurBurst
        /\ age \in Nat /\ excess \in Nat
    BY <1>1, <1>5
  <2>3. closed \in BOOLEAN
    BY <1>1, Zenon
  <2> QED
    BY <1>3, <2>1, <2>2, <2>3 DEF TypeOK
<1>7. RateInv
  BY <1>1 DEF RateInv
<1>8. ConnInv
  BY <1>4, LimiterAssumption DEF ConnInv
<1>9. LateInv
  BY <1>2 DEF LateInv
<1> QED
  BY <1>6, <1>7, <1>8, <1>9 DEF LocalInv

\* Time: sleeps get shorter, nothing else changes for a connection.
LEMMA LocalTick ==
    ASSUME LocalInv, Tick
    PROVE  LocalInv'
<1> USE DEF LocalInv
<1>1. UNCHANGED <<rate, tokens, closed, late>> /\ CurBurst' = CurBurst /\ RateInv'
  BY SameBurst DEF Tick
<1>2. age' \in Nat
  BY Bucket DEF Tick
<1>3. excess' \in Nat
  <2>1. 0 \in Int /\ excess - rate \in Int
    BY Bucket DEF TypeOK
  <2>2. Max({0, excess - rate}) = IF 0 >= excess - rate THEN 0 ELSE excess - rate
    BY <2>1, MaxMinOfTwo
  <2> QED
    BY <2>1, <2>2 DEF Tick
<1>4. /\ conn' \in [Conns -> ConnRec]
      /\ \A c \in Conns : /\ conn'[c].chunk <= conn'[c].remaining
                          /\ conn'[c].remaining <= conn'[c].size
  BY TickSets DEF TypeOK
<1>5. TypeOK'
  BY <1>1, <1>2, <1>3, <1>4 DEF TypeOK
<1>6. ConnInv'
  BY TickSets DEF ConnInv
<1>7. LateInv'
  BY <1>1, TickSets DEF LateInv
<1> QED
  BY <1>1, <1>5, <1>6, <1>7

\* SetRate keeps the tokens within the new burst.
LEMMA LocalSetRate ==
    ASSUME LocalInv, NEW r \in Rates, SetRate(r)
    PROVE  LocalInv'
<1> USE DEF LocalInv
<1>1. UNCHANGED <<closed, conn, late>> /\ ~closed /\ rate' = r /\ age' = 0
  BY DEF SetRate
<1>2. CurBurst' = Burst(r) /\ Burst(r) \in Nat
  BY <1>1, Bounds DEF CurBurst
<1>3. tokens' \in Int /\ tokens' <= Burst(r)
  BY <1>2, Bucket DEF SetRate
<1>4. excess' \in Nat
  <2>1. 0 \in Int /\ excess - Allowance \in Int
    BY Bounds DEF TypeOK
  <2>2. Max({0, excess - Allowance}) \in Nat
    BY <2>1, MaxMinOfTwo
  <2> QED
    BY <2>2 DEF SetRate
<1>5. TypeOK'
  BY <1>1, <1>2, <1>3, <1>4 DEF TypeOK
<1>6. RateInv' /\ ConnInv' /\ LateInv'
  BY <1>1 DEF RateInv, ConnInv, LateInv
<1> QED
  BY <1>5, <1>6

\* Close: from now on late counts.
LEMMA LocalClose ==
    ASSUME LocalInv, Close
    PROVE  LocalInv'
<1> USE DEF LocalInv
<1>1. UNCHANGED <<age, conn, excess, late>> /\ ~closed /\ closed' = TRUE /\ rate' = 0 /\ tokens' = 0
  BY DEF Close
<1>2. CurBurst' = 0
  BY <1>1 DEF CurBurst
<1>3. TypeOK'
  BY <1>1, <1>2 DEF TypeOK
<1>4. RateInv' /\ ConnInv'
  BY <1>1 DEF RateInv, ConnInv
<1>5. LateInv'
  BY <1>1 DEF LateInv
<1> QED
  BY <1>3, <1>4, <1>5

\* A new operation starts uncharged.
LEMMA LocalBegin ==
    ASSUME LocalInv, NEW c \in Conns, NEW k \in {"read", "write"}, NEW n \in Sizes, Begin(c, k, n)
    PROVE  LocalInv'
<1> USE DEF LocalInv
<1>1. UNCHANGED <<rate, tokens, closed, age, excess, late>> /\ conn[c].pc = Idle
  BY DEF Begin
<1>2. CurBurst' = CurBurst /\ RateInv'
  BY <1>1, SameBurst
<1>3. PICK w : /\ Sets(c, w)
               /\ w.pc = Idle /\ w.size = n /\ w.remaining = n /\ w.chunk = 0
               /\ w.charged = 0 /\ w.sleep = 0
  BY BeginSets
<1>4. n \in Nat \ {0}
  BY Bounds
<1>5. /\ conn' \in [Conns -> ConnRec]
      /\ \A d \in Conns : /\ conn'[d].chunk <= conn'[d].remaining
                          /\ conn'[d].remaining <= conn'[d].size
      /\ ConnInv'
  BY <1>3, <1>4, LimiterAssumption, RecordKeeps
<1>6. LateInv'
  BY <1>1, <1>3, LateKeeps, LimiterAssumption DEF LateInv
<1>7. TypeOK'
  BY <1>1, <1>2, <1>5 DEF TypeOK
<1> QED
  BY <1>2, <1>5, <1>6, <1>7

\* The connection dies, with its last read counted.
LEMMA LocalWaitClosed ==
    ASSUME LocalInv, NEW c \in Conns, WaitClosed(c)
    PROVE  LocalInv'
<1> USE DEF LocalInv
<1>1. /\ UNCHANGED <<rate, tokens, closed, age, excess>> /\ closed
      /\ conn[c].pc \in {Idle, Checked}
      /\ late' = [late EXCEPT ![c] = IF conn[c].kind = "read" THEN @ + 1 ELSE @]
  BY DEF WaitClosed
<1>2. CurBurst' = CurBurst /\ RateInv'
  BY <1>1, SameBurst
<1>3. PICK w : /\ Sets(c, w)
               /\ w.pc = Dead /\ w.size = 0 /\ w.remaining = 0 /\ w.chunk = 0
               /\ w.charged = 0 /\ w.sleep = 0
  BY WaitClosedSets
<1>4. /\ conn' \in [Conns -> ConnRec]
      /\ \A d \in Conns : /\ conn'[d].chunk <= conn'[d].remaining
                          /\ conn'[d].remaining <= conn'[d].size
      /\ ConnInv'
  BY <1>3, LimiterAssumption, RecordKeeps
<1>5. late \in [Conns -> Nat] /\ late[c] <= 1
  BY <1>1 DEF LateInv, TypeOK
<1>6. late' \in [Conns -> Nat] /\ late'[c] <= 2 /\ \A d \in Conns \ {c} : late'[d] = late[d]
  BY <1>1, <1>5
<1>7. conn'[c].pc = Dead /\ \A d \in Conns \ {c} : conn'[d] = conn[d]
  BY <1>3 DEF Sets
<1>8. LateInv'
  BY <1>1, <1>6, <1>7, LimiterAssumption DEF LateInv
<1>9. TypeOK'
  BY <1>1, <1>2, <1>4, <1>6 DEF TypeOK
<1> QED
  BY <1>2, <1>4, <1>8, <1>9

\* The chunk is at most what remains.
LEMMA LocalCheck ==
    ASSUME LocalInv, NEW c \in Conns, Check(c)
    PROVE  LocalInv'
<1> USE DEF LocalInv
<1>1. /\ UNCHANGED <<rate, tokens, closed, age, excess, late>> /\ ~closed
      /\ conn[c].pc = Idle /\ conn[c].remaining > 0
  BY DEF Check
<1>2. CurBurst' = CurBurst /\ RateInv'
  BY <1>1, SameBurst
<1>3. PICK w : /\ Sets(c, w)
               /\ w.pc = Checked /\ w.size = conn[c].size /\ w.remaining = conn[c].remaining
               /\ w.charged = conn[c].charged /\ w.sleep = conn[c].sleep
               /\ w.chunk <= w.remaining
  BY CheckSets
<1>4. /\ conn[c].charged + conn[c].remaining <= conn[c].size + 0 /\ conn[c].sleep = 0
      /\ conn[c].remaining \in Nat /\ conn[c].remaining <= conn[c].size
  BY <1>1, LimiterAssumption, Record DEF ConnInv
<1>5. /\ conn' \in [Conns -> ConnRec]
      /\ \A d \in Conns : /\ conn'[d].chunk <= conn'[d].remaining
                          /\ conn'[d].remaining <= conn'[d].size
      /\ ConnInv'
  <2>1. w.charged + w.remaining <= w.size + IF w.pc = Asleep THEN w.chunk ELSE 0
    BY <1>3, <1>4, LimiterAssumption
  <2> QED
    BY <1>1, <1>3, <1>4, <2>1, RecordKeeps
<1>6. LateInv'
  BY <1>1, <1>3, LateKeeps, LimiterAssumption
<1>7. TypeOK'
  BY <1>1, <1>2, <1>5 DEF TypeOK
<1> QED
  BY <1>2, <1>5, <1>6, <1>7

\* What is charged is at most the chunk, which remains until the sleep ends.
LEMMA LocalReserve ==
    ASSUME LocalInv, NEW c \in Conns, Reserve(c)
    PROVE  LocalInv'
<1> USE DEF LocalInv
<1>1. /\ UNCHANGED <<rate, closed, excess, late>> /\ ~closed /\ age' = 0
      /\ conn[c].pc = Checked
  BY DEF Reserve
<1>2. CurBurst' = CurBurst /\ RateInv'
  BY <1>1, SameBurst
<1>3. PICK need, w :
             /\ need \in Nat
             /\ Sets(c, w)
             /\ need <= conn[c].chunk
             /\ tokens' = Refreshed - need
             /\ w.pc = Asleep /\ w.size = conn[c].size /\ w.remaining = conn[c].remaining
             /\ w.chunk = conn[c].chunk /\ w.charged = conn[c].charged + need
  BY ReserveSets
<1>4. /\ conn[c].charged + conn[c].remaining <= conn[c].size + 0
      /\ conn[c].remaining > 0
      /\ conn[c].remaining \in Nat /\ conn[c].remaining <= conn[c].size
      /\ conn[c].charged \in Nat /\ conn[c].chunk \in Nat /\ conn[c].size \in Nat
      /\ conn[c].chunk <= conn[c].remaining
  BY <1>1, LimiterAssumption, Record DEF ConnInv
<1>5. /\ conn' \in [Conns -> ConnRec]
      /\ \A d \in Conns : /\ conn'[d].chunk <= conn'[d].remaining
                          /\ conn'[d].remaining <= conn'[d].size
      /\ ConnInv'
  <2>1. w.charged + w.remaining <= w.size + IF w.pc = Asleep THEN w.chunk ELSE 0
    BY <1>3, <1>4
  <2>2. w.remaining # 0 /\ w.remaining > 0
    BY <1>3, <1>4
  <2> QED
    BY <1>3, <1>4, <2>1, <2>2, RecordKeeps
<1>6. LateInv'
  BY <1>1, <1>3, LateKeeps, LimiterAssumption
<1>7. tokens' \in Int /\ tokens' <= CurBurst
  BY <1>3, Bucket
<1>8. TypeOK'
  BY <1>1, <1>2, <1>5, <1>7 DEF TypeOK
<1> QED
  BY <1>2, <1>5, <1>6, <1>8

\* The chunk that was slept for no longer remains, and more does.
LEMMA LocalWake ==
    ASSUME LocalInv, NEW c \in Conns, Wake(c)
    PROVE  LocalInv'
<1> USE DEF LocalInv
<1>1. /\ UNCHANGED <<rate, tokens, closed, age, excess, late>>
      /\ conn[c].pc = Asleep /\ conn[c].remaining # conn[c].chunk
  BY DEF Wake
<1>2. CurBurst' = CurBurst /\ RateInv'
  BY <1>1, SameBurst
<1>3. PICK w : /\ Sets(c, w)
               /\ w.pc = Idle /\ w.size = conn[c].size
               /\ w.remaining = conn[c].remaining - conn[c].chunk /\ w.chunk = 0
               /\ w.charged = conn[c].charged /\ w.sleep = 0
  BY WakeSets
<1>4. /\ conn[c].charged + conn[c].remaining <= conn[c].size + conn[c].chunk
      /\ conn[c].remaining \in Nat /\ conn[c].remaining <= conn[c].size
      /\ conn[c].charged \in Nat /\ conn[c].chunk \in Nat /\ conn[c].size \in Nat
      /\ conn[c].chunk <= conn[c].remaining
  BY <1>1, Record DEF ConnInv
<1>5. /\ conn' \in [Conns -> ConnRec]
      /\ \A d \in Conns : /\ conn'[d].chunk <= conn'[d].remaining
                          /\ conn'[d].remaining <= conn'[d].size
      /\ ConnInv'
  <2>1. w.charged + w.remaining <= w.size + IF w.pc = Asleep THEN w.chunk ELSE 0
    BY <1>3, <1>4, LimiterAssumption
  <2>2. w.remaining # 0 /\ w.remaining > 0 /\ w.chunk <= w.remaining /\ w.remaining <= w.size
    BY <1>1, <1>3, <1>4
  <2> QED
    BY <1>3, <2>1, <2>2, RecordKeeps
<1>6. LateInv'
  <2>1. late[c] = 0
    BY <1>1 DEF LateInv
  <2> QED
    BY <1>1, <1>3, <2>1, LateKeeps, LimiterAssumption
<1>7. TypeOK'
  BY <1>1, <1>2, <1>5 DEF TypeOK
<1> QED
  BY <1>2, <1>5, <1>6, <1>7

\* A connection that sleeps has ended nothing since Close: this is its first.
LEMMA LocalPass ==
    ASSUME LocalInv, NEW c \in Conns, Pass(c)
    PROVE  LocalInv'
<1> USE DEF LocalInv
<1>1. /\ UNCHANGED <<rate, tokens, closed, age>>
      /\ conn[c].pc = Asleep /\ excess' = excess + conn[c].size
      /\ late' = [late EXCEPT ![c] = IF closed THEN @ + 1 ELSE @]
  BY DEF Pass
<1>2. CurBurst' = CurBurst /\ RateInv'
  BY <1>1, SameBurst
<1>3. PICK w : /\ Sets(c, w)
               /\ w.pc = Idle /\ w.size = 0 /\ w.remaining = 0 /\ w.chunk = 0
               /\ w.charged = 0 /\ w.sleep = 0
  BY PassSets
<1>4. /\ conn' \in [Conns -> ConnRec]
      /\ \A d \in Conns : /\ conn'[d].chunk <= conn'[d].remaining
                          /\ conn'[d].remaining <= conn'[d].size
      /\ ConnInv'
  BY <1>3, LimiterAssumption, RecordKeeps
<1>5. late \in [Conns -> Nat] /\ late[c] = 0
  BY <1>1 DEF LateInv, TypeOK
<1>6. /\ late' \in [Conns -> Nat] /\ \A d \in Conns \ {c} : late'[d] = late[d]
      /\ late'[c] = IF closed THEN 1 ELSE 0
  BY <1>1, <1>5
<1>7. conn'[c].pc = Idle /\ \A d \in Conns \ {c} : conn'[d] = conn[d]
  BY <1>3 DEF Sets
<1>8. LateInv'
  BY <1>1, <1>6, <1>7, LimiterAssumption DEF LateInv
<1>9. excess' \in Nat
  BY <1>1, Record DEF TypeOK
<1>10. TypeOK'
  BY <1>1, <1>2, <1>4, <1>6, <1>9 DEF TypeOK
<1> QED
  BY <1>2, <1>4, <1>8, <1>10

\* Packets leave the connections alone.
LEMMA LocalPacket ==
    ASSUME LocalInv, NEW n \in Sizes, PacketPasses(n) \/ PacketDropped(n)
    PROVE  LocalInv'
<1> USE DEF LocalInv
<1>1. UNCHANGED <<rate, closed, conn, late>> /\ age' = 0
  BY DEF PacketPasses, PacketDropped
<1>2. CurBurst' = CurBurst /\ RateInv'
  BY <1>1, SameBurst
<1>3. tokens' \in Int /\ tokens' <= CurBurst
  BY Bounds, Bucket DEF PacketPasses, PacketDropped
<1>4. excess' \in Nat
  BY Bounds DEF PacketPasses, PacketDropped, TypeOK
<1>5. TypeOK'
  BY <1>1, <1>2, <1>3, <1>4 DEF TypeOK
<1>6. ConnInv' /\ LateInv'
  BY <1>1 DEF ConnInv, LateInv
<1> QED
  BY <1>2, <1>5, <1>6

-----------------------------------------------------------------------------
(* What is reserved, in all and by the connections that sleep for long.    *)

\* The terms of Outstanding and of Owed.
Charges == [c \in Conns |-> conn[c].charged]
Debts(t) == [c \in Conns |-> IF conn[c].sleep > t THEN conn[c].charged ELSE 0]

\* The sums are the sums of these terms, before and after a step.
LEMMA SumsAre ==
    /\ Outstanding = Sum(Charges) /\ Outstanding' = Sum(Charges')
    /\ \A t : Owed(t) = Sum(Debts(t)) /\ Owed(t)' = Sum(Debts(t)')
<1>1. Outstanding = Sum(Charges) /\ Outstanding' = Sum(Charges')
  BY DEF Outstanding, Charges
<1>2. \A t : Owed(t) = Sum(Debts(t)) /\ Owed(t)' = Sum(Debts(t)')
  BY DEF Owed, Debts
<1> QED
  BY <1>1, <1>2

\* They are natural numbers, and what the connections have reserved is at
\* most one operation of each.
LEMMA SumsBound ==
    ASSUME TypeOK, ConnInv
    PROVE  /\ Outstanding \in Nat /\ Outstanding <= AllSizes
           /\ \A t \in Nat : Owed(t) \in Nat /\ Owed(t) <= Outstanding
<1>1. \A c \in Conns : conn[c].charged \in Nat /\ conn[c].charged <= MaxSize
  <2> TAKE c \in Conns
  <2>1. /\ conn[c].charged \in Nat /\ conn[c].charged <= conn[c].size
        /\ conn[c].size \in Sizes \cup {0}
    BY Record DEF ConnInv
  <2> QED
    BY <2>1, Bounds
<1>2. Charges \in [Conns -> Nat] /\ \A c \in Conns : Charges[c] <= MaxSize
  BY <1>1 DEF Charges
<1>3. IsFiniteSet(Conns) /\ MaxSize \in Nat
  BY LimiterAssumption, Bounds
<1>4. Sum(Charges) \in Nat /\ Sum(Charges) <= Cardinality(Conns) * MaxSize
  BY <1>2, <1>3, SumFacts
<1>5. ASSUME NEW t \in Nat
      PROVE  Sum(Debts(t)) \in Nat /\ Sum(Debts(t)) <= Sum(Charges)
  <2>1. Debts(t) \in [Conns -> Nat] /\ \A c \in Conns : Debts(t)[c] <= Charges[c]
    BY <1>1 DEF Debts, Charges
  <2> QED
    BY <1>2, <1>3, <2>1, SumFacts
<1> QED
  BY <1>4, <1>5, SumsAre DEF AllSizes

\* A new record of one connection changes one term.
LEMMA SumsChange ==
    ASSUME TypeOK, NEW c \in Conns, NEW w, Sets(c, w)
    PROVE  /\ Outstanding' = Outstanding + w.charged - conn[c].charged
           /\ \A t \in Nat :
                Owed(t)' = Owed(t) + (IF w.sleep > t THEN w.charged ELSE 0)
                                   - (IF conn[c].sleep > t THEN conn[c].charged ELSE 0)
<1>1. /\ conn'[c] = w /\ \A d \in Conns \ {c} : conn'[d] = conn[d]
      /\ \A d \in Conns : conn[d].charged \in Nat /\ conn'[d].charged \in Nat
  BY DEF Sets, TypeOK, ConnRec
<1>2. IsFiniteSet(Conns)
  BY LimiterAssumption
<1>3. /\ Charges \in [Conns -> Nat] /\ Charges' \in [Conns -> Nat]
      /\ \A d \in Conns \ {c} : Charges'[d] = Charges[d]
      /\ Charges'[c] = w.charged /\ Charges[c] = conn[c].charged
  BY <1>1 DEF Charges
<1>4. Sum(Charges') = Sum(Charges) + Charges'[c] - Charges[c]
  BY <1>2, <1>3, SumFacts
<1>5. ASSUME NEW t \in Nat
      PROVE  Sum(Debts(t)') = Sum(Debts(t)) + (IF w.sleep > t THEN w.charged ELSE 0)
                                            - (IF conn[c].sleep > t THEN conn[c].charged ELSE 0)
  <2>1. /\ Debts(t) \in [Conns -> Nat] /\ Debts(t)' \in [Conns -> Nat]
        /\ \A d \in Conns \ {c} : Debts(t)'[d] = Debts(t)[d]
    BY <1>1 DEF Debts
  <2>2. /\ Debts(t)'[c] = IF w.sleep > t THEN w.charged ELSE 0
        /\ Debts(t)[c] = IF conn[c].sleep > t THEN conn[c].charged ELSE 0
    BY <1>1 DEF Debts
  <2>3. Sum(Debts(t)') = Sum(Debts(t)) + Debts(t)'[c] - Debts(t)[c]
    BY <1>2, <2>1, SumFacts
  <2> QED
    BY <2>2, <2>3
<1> QED
  BY <1>3, <1>4, <1>5, SumsAre

\* A step that leaves the connections alone leaves the sums alone.
LEMMA SumsStay ==
    ASSUME UNCHANGED conn
    PROVE  Outstanding' = Outstanding /\ \A t : Owed(t)' = Owed(t)
<1>1. Charges' = Charges /\ \A t : Debts(t)' = Debts(t)
  BY DEF Charges, Debts
<1> QED
  BY <1>1, SumsAre

\* A tick later, those who sleep for more than t ticks are those who slept
\* for more than t + 1.
LEMMA SumsTick ==
    ASSUME TypeOK, Tick
    PROVE  Outstanding' = Outstanding /\ \A t \in Nat : Owed(t)' = Owed(t + 1)
<1>1. \A c \in Conns : conn'[c].charged = conn[c].charged
  BY TickSets
<1>2. Charges' = Charges
  BY <1>1 DEF Charges
<1>3. ASSUME NEW t \in Nat, NEW c \in Conns
      PROVE  conn'[c].sleep > t <=> conn[c].sleep > t + 1
  <2>1. /\ conn[c].sleep \in Nat
        /\ conn'[c].sleep = IF conn[c].sleep = 0 THEN 0 ELSE conn[c].sleep - 1
    BY Record, TickSets
  <2> QED
    BY <2>1
<1>4. ASSUME NEW t \in Nat
      PROVE  Debts(t)' = Debts(t + 1)
  BY <1>1, <1>3 DEF Debts
<1> QED
  BY <1>2, <1>4, SumsAre

-----------------------------------------------------------------------------
(* What is taken.                                                          *)

\* What the bucket holds is capped by its burst, also after a step.
Capped ==
    CurBurst \in Nat /\ Refreshed = IF CurBurst <= Balance THEN CurBurst ELSE Balance

\* Lemma Bucket as a formula.
LEMMA BucketCapped ==
    TypeOK /\ RateInv => Capped
BY Bucket DEF Capped

\* Lemma Bucket for the state after a step.
LEMMA BucketNext ==
    ASSUME TypeOK', RateInv'
    PROVE  /\ Refreshed' = IF CurBurst' <= Balance' THEN CurBurst' ELSE Balance'
           /\ CurBurst' \in Nat
<1>1. Capped'
  BY BucketCapped, PTL
<1> QED
  BY <1>1 DEF Capped

\* The bytes of one operation that are taken are among its bytes.
LEMMA TakenByBound ==
    ASSUME NEW w \in ConnRec, NEW b \in Nat, w.chunk <= w.remaining, w.remaining <= w.size
    PROVE  TakenBy(w, b) \in Nat /\ TakenBy(w, b) <= w.size
<1>1. w.chunk \in Nat /\ w.remaining \in Nat /\ w.size \in Nat
  BY Bounds DEF ConnRec
<1> QED
  BY <1>1 DEF TakenBy

\* The sum is a natural number, between what is reserved and one operation of
\* every connection.
LEMMA TakenBound ==
    ASSUME TypeOK, RateInv, ConnInv
    PROVE  /\ TakenTerms \in [Conns -> Nat]
           /\ Taken \in Nat /\ Outstanding <= Taken /\ Taken <= AllSizes
<1>1. CurBurst \in Nat
  BY Bucket
<1>2. ASSUME NEW c \in Conns
      PROVE  /\ TakenBy(conn[c], CurBurst) \in Nat /\ TakenBy(conn[c], CurBurst) <= MaxSize
             /\ conn[c].charged \in Nat /\ conn[c].charged <= TakenBy(conn[c], CurBurst)
  <2>1. TakenBy(conn[c], CurBurst) \in Nat /\ TakenBy(conn[c], CurBurst) <= conn[c].size
    BY <1>1, Record, TakenByBound
  <2>2. conn[c].size <= MaxSize /\ conn[c].size \in Nat /\ MaxSize \in Nat
    BY Record, Bounds
  <2>3. /\ conn[c].charged \in Nat /\ conn[c].remaining \in Nat /\ conn[c].chunk \in Nat
        /\ conn[c].charged + conn[c].remaining
             <= conn[c].size + IF conn[c].pc = Asleep THEN conn[c].chunk ELSE 0
    BY Record DEF ConnInv
  <2>4. conn[c].charged <= TakenBy(conn[c], CurBurst)
    BY <1>1, <2>2, <2>3 DEF TakenBy
  <2> QED
    BY <2>1, <2>2, <2>3, <2>4
<1>3. /\ TakenTerms \in [Conns -> Nat] /\ \A c \in Conns : TakenTerms[c] <= MaxSize
      /\ Charges \in [Conns -> Nat] /\ \A c \in Conns : Charges[c] <= TakenTerms[c]
  BY <1>2 DEF TakenTerms, Charges
<1>4. IsFiniteSet(Conns) /\ MaxSize \in Nat
  BY LimiterAssumption, Bounds
<1>5. Sum(TakenTerms) \in Nat /\ Sum(TakenTerms) <= Cardinality(Conns) * MaxSize
  BY <1>3, <1>4, SumFacts
<1>6. Sum(Charges) <= Sum(TakenTerms)
  BY <1>3, <1>4, SumFacts
<1> QED
  BY <1>3, <1>5, <1>6, SumsAre DEF Taken, AllSizes

\* Lemma TakenBound as a formula.
TakenBounded == TakenTerms \in [Conns -> Nat] /\ Taken \in Nat /\ Taken <= AllSizes

\* It holds where the parts of the invariant do.
LEMMA TakenIsBounded ==
    TypeOK /\ RateInv /\ ConnInv => TakenBounded
BY TakenBound DEF TakenBounded

\* Lemma TakenBound for the state after a step.
LEMMA TakenNext ==
    ASSUME TypeOK', RateInv', ConnInv'
    PROVE  TakenTerms' \in [Conns -> Nat] /\ Taken' \in Nat /\ Taken' <= AllSizes
<1>1. TakenBounded'
  BY TakenIsBounded, PTL
<1> QED
  BY <1>1 DEF TakenBounded

\* A new record of one connection changes one term.
LEMMA TakenChange ==
    ASSUME LocalInv, LocalInv', NEW c \in Conns, NEW w, Sets(c, w), CurBurst' = CurBurst
    PROVE  Taken' = Taken + TakenBy(w, CurBurst) - TakenBy(conn[c], CurBurst)
<1>1. TakenTerms \in [Conns -> Nat] /\ TakenTerms' \in [Conns -> Nat]
  BY TakenBound, TakenNext DEF LocalInv
<1>2. TakenTerms' = [d \in Conns |-> TakenBy(conn'[d], CurBurst)]
  BY DEF TakenTerms, TakenBy
<1>3. /\ \A d \in Conns \ {c} : TakenTerms'[d] = TakenTerms[d]
      /\ TakenTerms'[c] = TakenBy(w, CurBurst)
      /\ TakenTerms[c] = TakenBy(conn[c], CurBurst)
  <2> HIDE DEF TakenBy
  <2> QED
    BY <1>2 DEF TakenTerms, Sets
<1>4. Sum(TakenTerms') = Sum(TakenTerms) + TakenTerms'[c] - TakenTerms[c]
  BY <1>1, <1>3, LimiterAssumption, SumFacts
<1> QED
  BY <1>3, <1>4 DEF Taken

\* A step that leaves the records alone, up to their sleeps, leaves the sum
\* alone.
LEMMA TakenStays ==
    ASSUME CurBurst' = CurBurst,
           \A c \in Conns : /\ conn'[c].pc = conn[c].pc /\ conn'[c].size = conn[c].size
                            /\ conn'[c].remaining = conn[c].remaining
                            /\ conn'[c].chunk = conn[c].chunk
    PROVE  Taken' = Taken
<1>1. TakenTerms' = TakenTerms
  BY DEF TakenTerms, TakenBy
<1> QED
  BY <1>1 DEF Taken

\* However the burst changes, what is then taken and what sleepers owe is at
\* most one operation of every connection more than what was taken: a
\* connection either sleeps or has a checked chunk.
LEMMA TakenRerated ==
    ASSUME LocalInv, LocalInv', UNCHANGED conn
    PROVE  Taken' + Owed(0) <= Taken + AllSizes
<1>1. TypeOK /\ RateInv /\ ConnInv /\ TypeOK' /\ RateInv' /\ ConnInv'
  BY DEF LocalInv
<1>2. CurBurst \in Nat /\ CurBurst' \in Nat
  BY <1>1, Bucket, BucketNext
<1>3. TakenTerms \in [Conns -> Nat] /\ TakenTerms' \in [Conns -> Nat]
  BY <1>1, TakenBound, TakenNext
<1>4. ASSUME NEW c \in Conns
      PROVE  /\ Debts(0)[c] \in Nat
             /\ TakenTerms'[c] + Debts(0)[c] <= TakenTerms[c] + MaxSize
  <2>1. /\ conn[c].pc \in {Idle, Checked, Asleep, Dead}
        /\ conn[c].remaining \in Nat /\ conn[c].chunk \in Nat /\ conn[c].charged \in Nat
        /\ conn[c].size \in Nat /\ conn[c].sleep \in Nat
        /\ conn[c].chunk <= conn[c].remaining /\ conn[c].remaining <= conn[c].size
    BY <1>1, Record
  <2>2. conn[c].size <= MaxSize /\ MaxSize \in Nat
    BY <1>1, Record, Bounds
  <2>3. /\ TakenTerms[c] = TakenBy(conn[c], CurBurst)
        /\ TakenTerms'[c] = TakenBy(conn[c], CurBurst')
        /\ Debts(0)[c] = IF conn[c].sleep > 0 THEN conn[c].charged ELSE 0
    BY DEF TakenTerms, TakenBy, Debts
  <2>4. CASE conn[c].pc = Asleep
    <3>1. conn[c].charged <= conn[c].size
      BY <1>1, <2>1, <2>4 DEF ConnInv
    <3> QED
      BY <2>1, <2>2, <2>3, <2>4, <3>1 DEF TakenBy
  <2>5. CASE conn[c].pc # Asleep
    <3>1. conn[c].sleep = 0
      BY <1>1, <2>5 DEF ConnInv
    <3> QED
      BY <1>2, <2>1, <2>2, <2>3, <2>5, <3>1 DEF TakenBy
  <2> QED
    BY <2>4, <2>5
<1>5. Debts(0) \in [Conns -> Nat]
  BY <1>4 DEF Debts
<1>6. Sum(TakenTerms') + Sum(Debts(0)) <= Sum(TakenTerms) + Cardinality(Conns) * MaxSize
  BY <1>3, <1>4, <1>5, LimiterAssumption, Bounds, SumTrade
<1> QED
  BY <1>6, SumsAre DEF Taken, AllSizes

-----------------------------------------------------------------------------
(* The accounts of the bucket.                                             *)

\* What the bucket holds after a step that brings it up to date.
LEMMA AfterRefresh ==
    ASSUME LocalInv', UNCHANGED <<rate, closed>>, age' = 0
    PROVE  Balance' = tokens' /\ Refreshed' <= tokens' /\ Refreshed' \in Int
<1>1. TypeOK' /\ RateInv'
  BY DEF LocalInv
<1>2. rate' \in Nat /\ tokens' \in Int
  BY <1>1, Bounds DEF TypeOK, RateInv
<1>3. Balance' = tokens' + 0 * rate'
  BY DEF Balance
<1>4. Balance' = tokens'
  <2>1. PICK x \in Int, y \in Nat : x = tokens' /\ y = rate'
    BY <1>2
  <2>2. Balance' = x + 0 * y
    BY <1>3, <2>1
  <2>3. x + 0 * y = x
    OBVIOUS
  <2> QED
    BY <2>1, <2>2, <2>3
<1>5. /\ Refreshed' = IF CurBurst' <= Balance' THEN CurBurst' ELSE Balance'
      /\ CurBurst' \in Nat
  BY <1>1, BucketNext
<1> QED
  BY <1>2, <1>4, <1>5

\* A step that leaves the bucket alone.
LEMMA SameBucket ==
    ASSUME UNCHANGED <<rate, tokens, closed, age>>
    PROVE  Balance' = Balance /\ Refreshed' = Refreshed
BY DEF Balance, Refreshed, CurBurst

\* An empty bucket balances.
LEMMA AccountInit ==
    Init => ExcessInv /\ DebtInv /\ SleepInv
<1> SUFFICES ASSUME Init
             PROVE  ExcessInv /\ DebtInv /\ SleepInv
  OBVIOUS
<1>1. TypeOK /\ RateInv /\ ConnInv
  BY LocalInit DEF LocalInv
<1>2. rate \in Rates /\ tokens = 0 /\ ~closed /\ age = 0 /\ excess = 0 /\ rate \in Nat \ {0}
  BY Bounds DEF Init
<1>3. \A c \in Conns : conn[c].charged = 0 /\ conn[c].sleep = 0
  BY DEF Init, IdleConn
<1>4. Balance = 0
  BY <1>2 DEF Balance
<1>5. Taken <= AllSizes /\ Taken \in Nat /\ \A t \in Nat : Owed(t) \in Nat
  BY <1>1, SumsBound, TakenBound
<1>6. ExcessInv
  BY <1>1, <1>2, <1>4, <1>5, Bucket, Bounds DEF ExcessInv
<1>7. DebtInv
  <2>1. \A t \in Nat : t * rate \in Nat
    BY <1>2
  <2> QED
    BY <1>2, <1>4, <1>5, <2>1 DEF DebtInv
<1>8. SleepInv
  BY <1>3, Bounds DEF SleepInv
<1> QED
  BY <1>6, <1>7, <1>8

\* Time: the bucket gains at most what excess loses, or excess is 0 and the
\* bucket is no fuller than a burst; the debt of t + 1 becomes that of t.
LEMMA AccountTick ==
    ASSUME Inv, LocalInv', Tick
    PROVE  ExcessInv' /\ DebtInv' /\ SleepInv'
<1>1. /\ TypeOK /\ RateInv /\ ConnInv /\ ExcessInv /\ DebtInv /\ SleepInv
      /\ TypeOK' /\ RateInv' /\ ConnInv'
  BY DEF Inv, LocalInv
<1>2. UNCHANGED <<rate, tokens, closed>> /\ CurBurst' = CurBurst
  BY SameBurst DEF Tick
<1>3. /\ rate \in Nat /\ tokens \in Int /\ age \in Nat /\ Balance \in Int
      /\ Refreshed = IF CurBurst <= Balance THEN CurBurst ELSE Balance
      /\ CurBurst \in Nat /\ (~closed => CurBurst <= MaxBurst /\ rate > 0)
  BY <1>1, Bucket
<1>4. Balance' = IF Balance < CurBurst THEN Balance + rate ELSE Balance
  <2>1. age' = IF Balance < CurBurst THEN age + 1 ELSE age
    BY DEF Tick, Balance
  <2>2. (age + 1) * rate = age * rate + rate
    BY <1>3
  <2>3. age * rate \in Nat
    BY <1>3
  <2> QED
    BY <1>2, <1>3, <2>1, <2>2, <2>3 DEF Balance
<1>5. Refreshed' = IF CurBurst' <= Balance' THEN CurBurst' ELSE Balance'
  BY <1>1, BucketNext
<1>6. ExcessInv'
  <2> SUFFICES ASSUME ~closed
               PROVE  excess' + Taken' + Refreshed' <= AllSizes + MaxBurst
    BY <1>2 DEF ExcessInv
  <2>1. excess \in Nat /\ excess' = IF excess <= rate THEN 0 ELSE excess - rate
    <3>1. excess \in Nat /\ 0 \in Int /\ excess - rate \in Int
      BY <1>1, <1>3 DEF TypeOK
    <3>2. Max({0, excess - rate}) = IF 0 >= excess - rate THEN 0 ELSE excess - rate
      BY <3>1, MaxMinOfTwo
    <3> QED
      BY <1>3, <3>1, <3>2 DEF Tick
  <2>2. Taken' = Taken /\ Taken \in Nat /\ Taken <= AllSizes
    BY <1>1, <1>2, TakenBound, TakenStays, TickSets
  <2>3. /\ Refreshed' <= Refreshed + rate /\ Refreshed' <= MaxBurst
        /\ Refreshed \in Int /\ Refreshed' \in Int
    BY <1>2, <1>3, <1>4, <1>5, Bounds
  <2>4. excess + Taken + Refreshed <= AllSizes + MaxBurst
    BY <1>1 DEF ExcessInv
  <2>5. AllSizes \in Nat /\ MaxBurst \in Nat
    BY Bounds
  <2>6. PICK f \in Int : f = Refreshed'
    BY <2>3
  <2>7. f <= Refreshed + rate /\ f <= MaxBurst /\ Refreshed \in Int
    BY <2>3, <2>6
  <2>8. PICK e \in Nat : e = excess' /\ e = IF excess <= rate THEN 0 ELSE excess - rate
    BY <1>3, <2>1
  <2>9. e + Taken + f <= AllSizes + MaxBurst
    <3>1. CASE excess <= rate
      BY <2>2, <2>5, <2>7, <2>8, <3>1
    <3>2. CASE ~(excess <= rate)
      BY <1>3, <2>1, <2>2, <2>4, <2>5, <2>7, <2>8, <3>2
    <3> QED
      BY <3>1, <3>2
  <2> QED
    BY <2>2, <2>6, <2>8, <2>9
<1>7. DebtInv'
  <2> SUFFICES ASSUME ~closed, NEW t \in Nat
               PROVE  -Balance' <= t * rate + (rate - 1) + Owed(t)'
    BY <1>2 DEF DebtInv
  <2>1. Owed(t)' = Owed(t + 1) /\ Owed(t + 1) \in Nat
    BY <1>1, SumsTick, SumsBound
  <2>2. -Balance <= (t + 1) * rate + (rate - 1) + Owed(t + 1)
    BY <1>1 DEF DebtInv
  <2>3. (t + 1) * rate = t * rate + rate /\ t * rate \in Nat
    BY <1>3
  <2> QED
    BY <1>3, <1>4, <2>1, <2>2, <2>3
<1>8. SleepInv'
  <2> SUFFICES ASSUME NEW c \in Conns
               PROVE  conn'[c].sleep * Min(Rates) < AllSizes + Min(Rates)
    BY DEF SleepInv
  <2>1. conn[c].sleep * Min(Rates) < AllSizes + Min(Rates)
    BY <1>1 DEF SleepInv
  <2>2. /\ conn[c].sleep \in Nat /\ conn'[c].sleep \in Nat
        /\ conn'[c].sleep = IF conn[c].sleep = 0 THEN 0 ELSE conn[c].sleep - 1
    BY <1>1, Record, TickSets
  <2>3. (conn[c].sleep - 1) * Min(Rates) = conn[c].sleep * Min(Rates) - Min(Rates)
    BY <2>2, Bounds
  <2>4. conn[c].sleep * Min(Rates) \in Nat
    BY <2>2, Bounds
  <2> QED
    BY <2>1, <2>2, <2>3, <2>4, Bounds
<1> QED
  BY <1>6, <1>7, <1>8

\* SetRate leaves no debt; what it forgives, and what checked chunks will no
\* longer be charged for, is at most the allowance.
LEMMA AccountSetRate ==
    ASSUME Inv, LocalInv', NEW r \in Rates, SetRate(r)
    PROVE  ExcessInv' /\ DebtInv' /\ SleepInv'
<1>1. /\ TypeOK /\ RateInv /\ ConnInv /\ ExcessInv /\ DebtInv /\ SleepInv
      /\ TypeOK' /\ RateInv' /\ ConnInv'
  BY DEF Inv, LocalInv
<1>2. UNCHANGED <<closed, conn, late>> /\ ~closed /\ rate' = r /\ age' = 0 /\ r \in Nat \ {0}
  BY Bounds DEF SetRate
<1>3. /\ tokens \in Int /\ tokens <= Refreshed /\ Refreshed \in Int /\ Balance \in Int
      /\ Refreshed = IF CurBurst <= Balance THEN CurBurst ELSE Balance
      /\ CurBurst \in Nat /\ rate \in Nat
  BY <1>1, Bucket
<1>4. CurBurst' = Burst(r) /\ Burst(r) \in Nat /\ Burst(r) <= MaxBurst
  BY <1>2, Bounds DEF CurBurst
<1>5. /\ tokens' = IF tokens < 0 \/ tokens > Burst(r) THEN 0 ELSE tokens
      /\ tokens' \in Nat
  BY <1>3, <1>4 DEF SetRate
<1>6. Balance' = tokens'
  <2>1. age' * rate' = 0
    BY <1>2
  <2> QED
    BY <1>5, <2>1 DEF Balance
<1>7. Refreshed' = IF CurBurst' <= Balance' THEN CurBurst' ELSE Balance'
  BY <1>1, BucketNext
<1>8. /\ Taken \in Nat /\ Taken' \in Nat /\ Taken' <= AllSizes
      /\ Taken' + Owed(0) <= Taken + AllSizes /\ Owed(0) \in Nat
  <2>1. Taken \in Nat /\ Taken' \in Nat /\ Taken' <= AllSizes
    BY <1>1, TakenBound, TakenNext
  <2>2. Taken' + Owed(0) <= Taken + AllSizes
    BY <1>2, TakenRerated DEF Inv
  <2> QED
    BY <1>1, <2>1, <2>2, SumsBound
<1>9. ExcessInv'
  <2>1. excess \in Nat /\ 0 \in Int /\ excess - Allowance \in Int
    BY <1>1, Bounds DEF TypeOK
  <2>2. excess' = IF 0 >= excess - Allowance THEN 0 ELSE excess - Allowance
    BY <2>1, MaxMinOfTwo DEF SetRate
  <2>3. excess + Taken + Refreshed <= AllSizes + MaxBurst
    BY <1>1, <1>2 DEF ExcessInv
  <2>4. PICK f \in Nat : f = Refreshed' /\ f = tokens' /\ f <= MaxBurst
    BY <1>4, <1>5, <1>6, <1>7, Bounds
  <2>5. f + Taken' <= Refreshed + Taken + Allowance
    <3>1. -Balance <= 0 * rate + (rate - 1) + Owed(0)
      BY <1>1, <1>2 DEF DebtInv
    <3>2. -Balance <= (rate - 1) + Owed(0)
      BY <1>3, <1>8, <3>1
    <3>3. rate <= Max(Rates) /\ Max(Rates) \in Nat
      BY <1>1, <1>2, Bounds DEF RateInv
    <3>4. Taken' <= Taken + AllSizes
      BY <1>8, Bounds
    <3>5. CASE 0 <= Refreshed
      <4>1. f <= Refreshed
        BY <1>3, <1>5, <2>4, <3>5
      <4> QED
        BY <1>3, <1>8, <2>4, <3>3, <3>4, <4>1, Bounds
    <3>6. CASE Refreshed < 0
      <4>1. f = 0 /\ Refreshed = Balance
        BY <1>3, <1>5, <2>4, <3>6
      <4> QED
        BY <1>3, <1>8, <3>2, <3>3, <4>1, Bounds
    <3> QED
      BY <1>3, <3>5, <3>6
  <2>6. PICK u \in Nat : u = Taken' /\ u <= AllSizes
    BY <1>8
  <2>7. PICK x \in Nat : x = excess' /\ x = IF 0 >= excess - Allowance THEN 0
                                                          ELSE excess - Allowance
    BY <2>1, <2>2
  <2>8. x + u + f <= AllSizes + MaxBurst
    <3>1. CASE 0 >= excess - Allowance
      <4>1. x = 0
        BY <2>7, <3>1
      <4>2. PICK a \in Nat, b \in Nat : a = AllSizes /\ b = MaxBurst
        BY Bounds
      <4>3. u <= a /\ f <= b
        BY <2>4, <2>6, <4>2
      <4>4. x + u + f <= a + b
        BY <4>1, <4>3
      <4> QED
        BY <4>2, <4>4
    <3>2. CASE ~(0 >= excess - Allowance)
      BY <1>3, <1>8, <2>1, <2>3, <2>4, <2>5, <2>6, <2>7, <3>2, Bounds
    <3> QED
      BY <3>1, <3>2
  <2> QED
    BY <2>4, <2>6, <2>7, <2>8 DEF ExcessInv
<1>10. DebtInv'
  <2> SUFFICES ASSUME NEW t \in Nat
               PROVE  -Balance' <= t * r + (r - 1) + Owed(t)'
    BY <1>2 DEF DebtInv
  <2>1. Owed(t)' = Owed(t) /\ Owed(t) \in Nat
    BY <1>1, <1>2, SumsBound, SumsStay
  <2>2. t * r \in Nat
    BY <1>2
  <2> QED
    BY <1>2, <1>5, <1>6, <2>1, <2>2
<1>11. SleepInv'
  BY <1>1, <1>2 DEF SleepInv
<1> QED
  BY <1>9, <1>10, <1>11

\* A closed limiter owes nothing.
LEMMA AccountClosed ==
    ASSUME Inv, closed', \A c \in Conns : conn'[c].sleep = conn[c].sleep \/ conn'[c].sleep = 0
    PROVE  ExcessInv' /\ DebtInv' /\ SleepInv'
<1>1. ExcessInv' /\ DebtInv'
  BY DEF ExcessInv, DebtInv
<1>2. SleepInv'
  BY Bounds DEF Inv, SleepInv
<1> QED
  BY <1>1, <1>2

\* A step that does not reserve, by a connection that sleeps no more: what it
\* had reserved passes or stays.
LEMMA AccountStep ==
    ASSUME Inv, LocalInv', NEW c \in Conns, NEW w, Sets(c, w),
           UNCHANGED <<rate, tokens, closed, age>>,
           conn[c].sleep = 0, w.sleep = 0,
           excess' + TakenBy(w, CurBurst) = excess + TakenBy(conn[c], CurBurst)
    PROVE  ExcessInv' /\ DebtInv' /\ SleepInv'
<1>1. /\ TypeOK /\ RateInv /\ ConnInv /\ ExcessInv /\ DebtInv /\ SleepInv /\ TypeOK'
  BY DEF Inv, LocalInv
<1>2. Balance' = Balance /\ Refreshed' = Refreshed /\ Refreshed \in Int
  BY <1>1, SameBucket, Bucket
<1>3. /\ TakenBy(w, CurBurst) \in Nat /\ TakenBy(conn[c], CurBurst) \in Nat
      /\ excess \in Nat /\ excess' \in Nat
  <2>1. w \in ConnRec /\ w.chunk <= w.remaining /\ w.remaining <= w.size
    BY <1>1 DEF Sets, TypeOK
  <2>2. CurBurst \in Nat
    BY <1>1, Bucket
  <2> QED
    BY <1>1, <2>1, <2>2, Record, TakenByBound DEF TypeOK
<1>4. Taken \in Nat /\ Taken' = Taken + TakenBy(w, CurBurst) - TakenBy(conn[c], CurBurst)
  BY <1>1, TakenBound, TakenChange, SameBurst DEF Inv
<1>5. ExcessInv'
  <2>1. PICK x \in Nat, a \in Nat, b \in Nat :
          /\ x = excess' /\ a = TakenBy(w, CurBurst) /\ b = TakenBy(conn[c], CurBurst)
          /\ x + a = excess + b /\ Taken' = Taken + a - b
    BY <1>3, <1>4
  <2>2. excess + Taken + Refreshed = x + (Taken + a - b) + Refreshed
    BY <1>2, <1>3, <1>4, <2>1
  <2>3. ~closed => x + (Taken + a - b) + Refreshed <= AllSizes + MaxBurst
    BY <1>1, <2>2 DEF ExcessInv
  <2> QED
    BY <1>2, <2>1, <2>3 DEF ExcessInv
<1>6. ASSUME NEW t \in Nat
      PROVE  Owed(t)' = Owed(t)
  <2>1. ~(0 > t) /\ Owed(t) \in Nat
    BY <1>1, SumsBound
  <2> QED
    BY <1>1, <2>1, SumsChange
<1>7. DebtInv'
  BY <1>1, <1>2, <1>6 DEF DebtInv
<1>8. SleepInv'
  BY <1>1, Bounds DEF SleepInv, Sets
<1> QED
  BY <1>5, <1>7, <1>8

\* The bound on what is reserved, also after a step.
Bounded == Outstanding <= AllSizes

\* Lemma SumsBound as a formula.
LEMMA ReservedBounded ==
    TypeOK /\ ConnInv => Bounded
BY SumsBound DEF Bounded

\* Lemma SumsBound for the state after a step.
LEMMA ReservedNext ==
    ASSUME TypeOK', ConnInv'
    PROVE  Outstanding' <= AllSizes
<1>1. Bounded'
  BY ReservedBounded, PTL
<1> QED
  BY <1>1 DEF Bounded

\* Products grow with their factors.
LEMMA ProductGrows ==
    ASSUME NEW a \in Nat, NEW b \in Nat, NEW r \in Nat, a <= b
    PROVE  a * r <= b * r /\ r * a <= r * b
<1>1. PICK d \in Nat : b = a + d
  <2>1. b - a \in Nat /\ b = a + (b - a)
    OBVIOUS
  <2> QED
    BY <2>1
<1>2. (a + d) * r = a * r + d * r /\ r * (a + d) = r * a + r * d
  OBVIOUS
<1>3. d * r \in Nat /\ r * d \in Nat /\ a * r \in Nat /\ r * a \in Nat
  OBVIOUS
<1> QED
  BY <1>1, <1>2, <1>3

\* A reservation that lacks tokens sleeps until its debt is less than a tick:
\* what is lacking beyond t + 1 ticks is its own if it sleeps for more than t.
LEMMA AccountReserve ==
    ASSUME Inv, LocalInv', NEW c \in Conns, Reserve(c)
    PROVE  ExcessInv' /\ DebtInv' /\ SleepInv'
<1>1. /\ TypeOK /\ RateInv /\ ConnInv /\ ExcessInv /\ DebtInv /\ SleepInv
      /\ TypeOK' /\ RateInv' /\ ConnInv'
  BY DEF Inv, LocalInv
<1>2. UNCHANGED <<rate, closed, excess>> /\ age' = 0 /\ ~closed /\ conn[c].pc = Checked
  BY DEF Reserve
<1>3. PICK need, w :
             /\ need \in Nat
             /\ Sets(c, w)
             /\ need = IF conn[c].chunk <= CurBurst THEN conn[c].chunk ELSE CurBurst
             /\ w.pc = Asleep /\ w.size = conn[c].size /\ w.remaining = conn[c].remaining
             /\ w.chunk = conn[c].chunk
             /\ tokens' = Refreshed - need
             /\ w.charged = conn[c].charged + need
             /\ w.sleep \in Nat
             /\ w.sleep * rate <= Max({0, need - Refreshed})
             /\ Max({0, need - Refreshed}) < (w.sleep + 1) * rate
  BY <1>1, ReserveSets
<1>4. /\ Refreshed \in Int /\ Balance \in Int /\ CurBurst \in Nat /\ rate \in Nat \ {0}
      /\ Refreshed = IF CurBurst <= Balance THEN CurBurst ELSE Balance
      /\ need \in Nat
  BY <1>1, <1>2, <1>3, Bucket
<1>5. conn[c].sleep = 0 /\ conn[c].charged \in Nat
  BY <1>1, <1>2, Record, LimiterAssumption DEF ConnInv
<1>6. PICK f \in Int : f = Refreshed' /\ f <= Refreshed - need
  BY <1>2, <1>3, AfterRefresh
<1>7. Balance' = Refreshed - need
  BY <1>2, <1>3, AfterRefresh
<1>8. PICK lack \in Nat : /\ lack = IF 0 >= need - Refreshed THEN 0 ELSE need - Refreshed
                          /\ w.sleep * rate <= lack /\ lack < (w.sleep + 1) * rate
  <2>1. 0 \in Int /\ need - Refreshed \in Int
    BY <1>4
  <2>2. Max({0, need - Refreshed}) = IF 0 >= need - Refreshed THEN 0 ELSE need - Refreshed
    BY <2>1, MaxMinOfTwo
  <2> QED
    BY <1>3, <2>1, <2>2
<1>9. Outstanding' = Outstanding + need /\ Outstanding \in Nat
  BY <1>1, <1>3, <1>5, SumsBound, SumsChange
<1>10. \A t \in Nat : -Balance <= t * rate + (rate - 1) + Owed(t) /\ Owed(t) \in Nat
  BY <1>1, <1>2, SumsBound DEF DebtInv
<1>11. ExcessInv'
  <2>1. excess + Taken + Refreshed <= AllSizes + MaxBurst /\ excess \in Nat /\ Taken \in Nat
    BY <1>1, <1>2, TakenBound DEF ExcessInv, TypeOK
  <2>2. Taken' = Taken + need
    <3>1. Taken' = Taken + TakenBy(w, CurBurst) - TakenBy(conn[c], CurBurst)
      BY <1>2, <1>3, TakenChange, SameBurst DEF Inv
    <3>2. /\ conn[c].chunk \in Nat /\ conn[c].remaining \in Nat /\ conn[c].size \in Nat
          /\ Checked # Asleep
      BY <1>1, Record, LimiterAssumption
    <3>3. TakenBy(w, CurBurst) = conn[c].size - conn[c].remaining + conn[c].chunk
      BY <1>3 DEF TakenBy
    <3>4. TakenBy(conn[c], CurBurst)
            = conn[c].size - conn[c].remaining
                + IF conn[c].chunk > CurBurst THEN conn[c].chunk - CurBurst ELSE 0
      BY <1>2, <3>2 DEF TakenBy
    <3>5. PICK a \in Int, b \in Int :
            /\ a = TakenBy(w, CurBurst) /\ b = TakenBy(conn[c], CurBurst) /\ a = b + need
      BY <1>3, <1>4, <3>2, <3>3, <3>4
    <3>6. Taken + (b + need) - b = Taken + need
      BY <1>4, <2>1
    <3> QED
      BY <3>1, <3>5, <3>6
  <2>3. excess + (Taken + need) + f <= AllSizes + MaxBurst
    <3>1. f <= Refreshed - need /\ Refreshed \in Int /\ need \in Nat
      BY <1>4, <1>6
    <3>2. AllSizes \in Nat /\ MaxBurst \in Nat
      BY Bounds
    <3> QED
      BY <2>1, <3>1, <3>2
  <2> QED
    BY <1>2, <1>6, <2>2, <2>3 DEF ExcessInv
<1>12. DebtInv'
  <2> SUFFICES ASSUME NEW t \in Nat
               PROVE  -(Refreshed - need) <= t * rate + (rate - 1) + Owed(t)'
    BY <1>2, <1>7 DEF DebtInv
  <2>1. -Balance <= t * rate + (rate - 1) + Owed(t) /\ Owed(t) \in Nat /\ t * rate \in Nat
    BY <1>4, <1>10
  <2>2. ~(0 > t)
    OBVIOUS
  <2>3. Owed(t)' = Owed(t) + IF w.sleep > t THEN conn[c].charged + need ELSE 0
    BY <1>1, <1>3, <1>5, <2>1, <2>2, SumsChange
  <2>4. CASE w.sleep > t
    <3>1. Owed(t)' = Owed(t) + (conn[c].charged + need)
      BY <2>3, <2>4
    <3> QED
      BY <1>4, <1>5, <2>1, <3>1
  <2>5. CASE ~(w.sleep > t)
    <3>1. w.sleep + 1 <= t + 1 /\ w.sleep + 1 \in Nat /\ t + 1 \in Nat
      BY <1>3, <2>5
    <3>2. (w.sleep + 1) * rate <= (t + 1) * rate
      BY <1>4, <3>1, ProductGrows
    <3>3. (t + 1) * rate = t * rate + rate
      BY <1>4
    <3>4. (w.sleep + 1) * rate \in Nat
      BY <1>4, <3>1
    <3>5. lack < t * rate + rate
      BY <1>4, <1>8, <2>1, <3>2, <3>3, <3>4
    <3>6. Owed(t)' = Owed(t)
      BY <2>1, <2>3, <2>5
    <3> QED
      BY <1>4, <1>8, <2>1, <3>5, <3>6
  <2> QED
    BY <2>4, <2>5
<1>13. w.sleep * Min(Rates) < AllSizes + Min(Rates)
  <2>0. PICK q \in Nat, m \in Nat \ {0} : q = w.sleep /\ m = Min(Rates) /\ m <= rate
    BY <1>1, <1>2, <1>3, Bounds DEF RateInv
  <2>1. CASE q = 0
    BY <2>0, <2>1, Bounds
  <2>2. CASE q # 0
    <3>1. q - 1 \in Nat /\ q * rate = (q - 1) * rate + rate /\ q * m = (q - 1) * m + m
      <4>1. PICK p \in Nat : q = p + 1 /\ q - 1 = p
        BY <2>2
      <4>2. PICK r \in Nat : r = rate
        BY <1>4
      <4>3. (p + 1) * r = p * r + r /\ (p + 1) * m = p * m + m
        OBVIOUS
      <4> QED
        BY <4>1, <4>2, <4>3
    <3>2. (q - 1) * m <= (q - 1) * rate
      BY <1>4, <2>0, <3>1, ProductGrows
    <3>3. (q - 1) * m \in Nat /\ (q - 1) * rate \in Nat
      BY <1>4, <2>0, <3>1
    <3>4. Outstanding + need <= AllSizes
      BY <1>1, <1>9, ReservedNext
    <3>5. -Balance <= (rate - 1) + Outstanding
      <4>1. Owed(0) <= Outstanding /\ Owed(0) \in Nat
        BY <1>1, SumsBound
      <4>2. -Balance <= 0 * rate + (rate - 1) + Owed(0)
        BY <1>10
      <4> QED
        BY <1>4, <1>9, <4>1, <4>2
    <3>6. lack <= AllSizes + rate - 1
      BY <1>4, <1>8, <1>9, <3>4, <3>5, Bounds
    <3>7. q * rate <= lack
      BY <1>8, <2>0
    <3>8. q * m < AllSizes + m
      BY <1>4, <2>0, <3>1, <3>2, <3>3, <3>6, <3>7, Bounds
    <3> QED
      BY <2>0, <3>8
  <2> QED
    BY <2>1, <2>2
<1>14. SleepInv'
  BY <1>1, <1>3, <1>13 DEF SleepInv, Sets
<1> QED
  BY <1>11, <1>12, <1>14

\* A packet takes what is there or is dropped.
LEMMA AccountPacket ==
    ASSUME Inv, LocalInv', NEW n \in Sizes, PacketPasses(n) \/ PacketDropped(n)
    PROVE  ExcessInv' /\ DebtInv' /\ SleepInv'
<1>1. /\ TypeOK /\ RateInv /\ ConnInv /\ ExcessInv /\ DebtInv /\ SleepInv
  BY DEF Inv, LocalInv
<1>2. UNCHANGED <<rate, closed, conn>> /\ age' = 0 /\ ~closed
  BY DEF PacketPasses, PacketDropped
<1>3. PICK m \in Nat : /\ tokens' = Refreshed - m /\ excess' = excess + m
                       /\ m = 0 \/ Refreshed - m >= 0
  <2>1. n \in Nat /\ Refreshed \in Int /\ excess \in Nat
    BY <1>1, Bounds, Bucket DEF TypeOK
  <2>2. CASE PacketPasses(n)
    BY <2>1, <2>2 DEF PacketPasses
  <2>3. CASE PacketDropped(n)
    <3>1. tokens' = Refreshed - 0 /\ excess' = excess + 0
      BY <2>1, <2>3 DEF PacketDropped
    <3> QED
      BY <3>1
  <2> QED
    BY <2>2, <2>3
<1>4. /\ Refreshed \in Int /\ Balance \in Int /\ CurBurst \in Nat /\ rate \in Nat \ {0}
      /\ Refreshed = IF CurBurst <= Balance THEN CurBurst ELSE Balance
  BY <1>1, <1>2, Bucket
<1>5. PICK f \in Int : f = Refreshed' /\ f <= Refreshed - m
  BY <1>2, <1>3, AfterRefresh
<1>6. Balance' = Refreshed - m
  BY <1>2, <1>3, AfterRefresh
<1>7. Taken' = Taken /\ Taken \in Nat
  BY <1>1, <1>2, TakenBound, TakenStays, SameBurst
<1>8. ExcessInv'
  <2>1. excess + Taken + Refreshed <= AllSizes + MaxBurst /\ excess \in Nat
    BY <1>1, <1>2 DEF ExcessInv, TypeOK
  <2>2. (excess + m) + Taken + f <= AllSizes + MaxBurst
    <3>1. f <= Refreshed - m /\ Refreshed \in Int /\ Taken \in Nat
      BY <1>4, <1>5, <1>7
    <3>2. AllSizes \in Nat /\ MaxBurst \in Nat
      BY Bounds
    <3> QED
      BY <2>1, <3>1, <3>2
  <2> QED
    BY <1>3, <1>5, <1>7, <2>2 DEF ExcessInv
<1>9. DebtInv'
  <2> SUFFICES ASSUME NEW t \in Nat
               PROVE  -(Refreshed - m) <= t * rate + (rate - 1) + Owed(t)'
    BY <1>2, <1>6 DEF DebtInv
  <2>1. -Balance <= t * rate + (rate - 1) + Owed(t)
    BY <1>1, <1>2 DEF DebtInv
  <2>2. Owed(t)' = Owed(t) /\ Owed(t) \in Nat /\ t * rate \in Nat
    BY <1>1, <1>2, <1>4, SumsBound, SumsStay
  <2>3. CASE m = 0
    BY <1>4, <2>1, <2>2, <2>3
  <2>4. CASE Refreshed - m >= 0
    BY <1>4, <2>2, <2>4
  <2> QED
    BY <1>3, <2>3, <2>4
<1>10. SleepInv'
  BY <1>1, <1>2 DEF SleepInv
<1> QED
  BY <1>8, <1>9, <1>10

-----------------------------------------------------------------------------
(* Every step keeps the invariant.                                         *)

\* A step inside Wait.
LEMMA WaitKeeps ==
    ASSUME Inv, NEW c \in Conns, InWait(c)
    PROVE  Inv'
<1>1. LocalInv /\ TypeOK /\ RateInv /\ ConnInv
  BY DEF Inv, LocalInv
<1>2. CASE WaitClosed(c)
  <2>1. LocalInv'
    BY <1>1, <1>2, LocalWaitClosed
  <2>2. PICK w : Sets(c, w) /\ w.sleep = 0
    BY <1>1, <1>2, WaitClosedSets
  <2>3. closed' /\ \A d \in Conns : conn'[d].sleep = conn[d].sleep \/ conn'[d].sleep = 0
    BY <1>2, <2>2 DEF WaitClosed, Sets
  <2> QED
    BY <2>1, <2>3, AccountClosed DEF Inv
<1>3. CASE Check(c)
  <2>1. LocalInv'
    BY <1>1, <1>3, LocalCheck
  <2>2. UNCHANGED <<rate, tokens, closed, age, excess>> /\ conn[c].sleep = 0
    BY <1>1, <1>3, LimiterAssumption DEF Check, ConnInv
  <2>3. PICK w : /\ Sets(c, w) /\ w.sleep = conn[c].sleep
                 /\ w.pc = Checked /\ w.size = conn[c].size /\ w.remaining = conn[c].remaining
                 /\ w.chunk <= CurBurst
    BY <1>1, <1>3, CheckSets
  <2>4. conn[c].pc = Idle /\ w.chunk \in Nat /\ CurBurst \in Nat
    BY <1>1, <1>3, <2>3, Bucket DEF Check, Sets, ConnRec
  <2>5. TakenBy(w, CurBurst) = TakenBy(conn[c], CurBurst)
    BY <2>3, <2>4, LimiterAssumption DEF TakenBy
  <2> QED
    BY <2>1, <2>2, <2>3, <2>5, AccountStep DEF Inv
<1>4. CASE Reserve(c)
  <2>1. LocalInv'
    BY <1>1, <1>4, LocalReserve
  <2> QED
    BY <1>4, <2>1, AccountReserve DEF Inv
<1>5. CASE Wake(c)
  <2>1. LocalInv'
    BY <1>1, <1>5, LocalWake
  <2>2. UNCHANGED <<rate, tokens, closed, age, excess>> /\ conn[c].sleep = 0
    BY <1>5 DEF Wake
  <2>3. PICK w : /\ Sets(c, w) /\ w.sleep = 0
                 /\ w.pc = Idle /\ w.size = conn[c].size
                 /\ w.remaining = conn[c].remaining - conn[c].chunk
    BY <1>1, <1>5, WakeSets
  <2>4. TakenBy(w, CurBurst) = TakenBy(conn[c], CurBurst)
    <3>1. /\ conn[c].pc = Asleep
          /\ conn[c].size \in Nat /\ conn[c].remaining \in Nat /\ conn[c].chunk \in Nat
      BY <1>1, <1>5, Record DEF Wake
    <3> QED
      BY <2>3, <3>1, LimiterAssumption DEF TakenBy
  <2> QED
    BY <2>1, <2>2, <2>3, <2>4, AccountStep DEF Inv
<1>6. CASE Pass(c)
  <2>1. LocalInv'
    BY <1>1, <1>6, LocalPass
  <2>2. /\ UNCHANGED <<rate, tokens, closed, age>> /\ conn[c].sleep = 0
        /\ excess' = excess + conn[c].size
        /\ conn[c].pc = Asleep /\ conn[c].remaining = conn[c].chunk
    BY <1>6 DEF Pass
  <2>3. PICK w : /\ Sets(c, w) /\ w.sleep = 0
                 /\ w.pc = Idle /\ w.size = 0 /\ w.remaining = 0
    BY <1>1, <1>6, PassSets
  <2>4. excess' + TakenBy(w, CurBurst) = excess + TakenBy(conn[c], CurBurst)
    <3>1. excess \in Nat /\ conn[c].size \in Nat /\ conn[c].chunk \in Nat
      BY <1>1, Record DEF TypeOK
    <3>2. TakenBy(w, CurBurst) = 0
      BY <2>3, LimiterAssumption DEF TakenBy
    <3>3. TakenBy(conn[c], CurBurst) = conn[c].size
      BY <2>2, <3>1 DEF TakenBy
    <3> QED
      BY <2>2, <3>1, <3>2, <3>3
  <2> QED
    BY <2>1, <2>2, <2>3, <2>4, AccountStep DEF Inv
<1> QED
  BY <1>2, <1>3, <1>4, <1>5, <1>6 DEF InWait

\* Every step of the specification.
LEMMA Step ==
    Inv /\ [Next]_vars => Inv'
<1> SUFFICES ASSUME Inv, [Next]_vars
             PROVE  Inv'
  OBVIOUS
<1>1. LocalInv /\ TypeOK /\ RateInv /\ ConnInv
  BY DEF Inv, LocalInv
<1>2. CASE Tick
  BY <1>1, <1>2, LocalTick, AccountTick DEF Inv
<1>3. ASSUME NEW r \in Rates, SetRate(r)
      PROVE  Inv'
  BY <1>1, <1>3, LocalSetRate, AccountSetRate DEF Inv
<1>4. CASE Close
  <2>1. closed' /\ \A d \in Conns : conn'[d].sleep = conn[d].sleep
    BY <1>4 DEF Close
  <2> QED
    BY <1>1, <1>4, <2>1, LocalClose, AccountClosed DEF Inv
<1>5. ASSUME NEW c \in Conns, NEW k \in {"read", "write"}, NEW n \in Sizes, Begin(c, k, n)
      PROVE  Inv'
  <2>1. LocalInv'
    BY <1>1, <1>5, LocalBegin
  <2>2. /\ UNCHANGED <<rate, tokens, closed, age, excess>>
        /\ conn[c].sleep = 0 /\ conn[c].pc = Idle /\ conn[c].remaining = 0
    BY <1>1, <1>5, LimiterAssumption DEF Begin, ConnInv
  <2>3. PICK w : /\ Sets(c, w) /\ w.sleep = 0
                 /\ w.pc = Idle /\ w.size = n /\ w.remaining = n
    BY <1>1, <1>5, BeginSets
  <2>4. TakenBy(w, CurBurst) = TakenBy(conn[c], CurBurst)
    <3>1. n \in Nat /\ conn[c].size = 0
      BY <1>1, <2>2, Bounds DEF ConnInv
    <3> QED
      BY <2>2, <2>3, <3>1, LimiterAssumption DEF TakenBy
  <2> QED
    BY <2>1, <2>2, <2>3, <2>4, AccountStep DEF Inv
<1>6. ASSUME NEW c \in Conns, InWait(c)
      PROVE  Inv'
  BY <1>6, WaitKeeps
<1>7. ASSUME NEW n \in Sizes, PacketPasses(n) \/ PacketDropped(n)
      PROVE  Inv'
  BY <1>1, <1>7, LocalPacket, AccountPacket DEF Inv
<1>8. CASE UNCHANGED vars
  <2>1. UNCHANGED <<rate, tokens, closed, age, conn, excess, late>>
    BY <1>8 DEF vars
  <2>2. LocalInv'
    BY <1>1, <2>1 DEF LocalInv, TypeOK, RateInv, ConnInv, LateInv, CurBurst
  <2>3. Balance' = Balance /\ Refreshed' = Refreshed /\ Taken' = Taken
    BY <2>1, SameBucket, SameBurst, TakenStays
  <2>4. \A t \in Nat : Owed(t)' = Owed(t)
    BY <2>1, SumsStay
  <2>5. ExcessInv' /\ DebtInv' /\ SleepInv'
    BY <2>1, <2>3, <2>4 DEF Inv, ExcessInv, DebtInv, SleepInv
  <2> QED
    BY <2>2, <2>5 DEF Inv
<1> QED
  BY <1>2, <1>3, <1>4, <1>5, <1>6, <1>7, <1>8 DEF Next

\* The accounts of the token bucket hold in every state.
THEOREM Invariance ==
    Spec => []Inv
<1>1. Init => Inv
  BY LocalInit, AccountInit DEF Inv
<1> QED
  BY <1>1, Step, PTL DEF Spec

-----------------------------------------------------------------------------
(* What follows.                                                           *)

\* Type correctness of the limiter and of the calls of Wait: among others, the
\* bucket never holds more than its burst, and a round never reserves more
\* than what is left of the operation.
THEOREM TypeCorrect ==
    Spec => []TypeOK
<1>1. Inv => TypeOK
  BY DEF Inv, LocalInv
<1> QED
  BY <1>1, Invariance, PTL

\* After Close, a connection ends at most the operation it was sleeping for
\* and hands over one read together with the error of Wait.
THEOREM ClosedStops ==
    Spec => []CloseStops
<1>1. Inv => CloseStops
  BY DEF Inv, LocalInv, LateInv, CloseStops
<1> QED
  BY <1>1, Invariance, PTL

\* The debt of the bucket at this moment.
LEMMA DebtNow ==
    ASSUME Inv, ~closed
    PROVE  -Balance <= Outstanding + Max(Rates) - 1
<1>1. TypeOK /\ RateInv /\ ConnInv /\ DebtInv
  BY DEF Inv, LocalInv
<1>2. rate \in Nat /\ rate <= Max(Rates) /\ Balance \in Int /\ Max(Rates) \in Nat
  BY <1>1, Bounds, Bucket DEF RateInv
<1>3. Owed(0) \in Nat /\ Owed(0) <= Outstanding /\ Outstanding \in Nat
  BY <1>1, SumsBound
<1>4. -Balance <= 0 * rate + (rate - 1) + Owed(0)
  BY <1>1 DEF DebtInv
<1> QED
  BY <1>2, <1>3, <1>4

\* What reserve leaves as a debt is what calls of Wait that have not passed
\* have reserved, up to less than a tick, and no call of Wait sleeps a whole
\* tick longer than it takes to send one operation of every connection.
THEOREM DebtsHaveOwners ==
    Spec => []DebtHasOwners
<1>1. Inv => DebtHasOwners
  BY DebtNow DEF Inv, SleepInv, Balance, DebtHasOwners
<1> QED
  BY <1>1, Invariance, PTL

\* Over every interval, whatever the connections and packets that share a
\* limiter do, no more bytes pass than the rate allows, one burst and, once and
\* once more for every call of SetRate in the interval, one operation of every
\* connection and less than a tick.
THEOREM LimitHolds ==
    Spec => []RateHolds
<1>1. Inv => RateHolds
  <2> SUFFICES ASSUME Inv, ~closed
               PROVE  excess <= MaxBurst + Allowance
    BY DEF RateHolds
  <2>1. TypeOK /\ RateInv /\ ConnInv /\ ExcessInv
    BY DEF Inv, LocalInv
  <2>2. excess + Taken + Refreshed <= AllSizes + MaxBurst /\ excess \in Nat
    BY <2>1 DEF ExcessInv, TypeOK
  <2>3. /\ Refreshed = IF CurBurst <= Balance THEN CurBurst ELSE Balance
        /\ CurBurst \in Nat /\ Balance \in Int
    BY <2>1, Bucket
  <2>4. Outstanding \in Nat /\ Taken \in Nat /\ Outstanding <= Taken
    BY <2>1, SumsBound, TakenBound
  <2>5. /\ Max(Rates) \in Nat \ {0} /\ MaxBurst \in Nat /\ AllSizes \in Nat
        /\ Allowance = AllSizes + Max(Rates) - 1
    BY Bounds
  <2>6. -Balance <= Outstanding + Max(Rates) - 1
    BY DebtNow
  <2> QED
    BY <2>2, <2>3, <2>4, <2>5, <2>6
<1> QED
  BY <1>1, Invariance, PTL
=============================================================================
