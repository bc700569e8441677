---------------------------- MODULE PlatformProofs ----------------------------
(***************************************************************************)
(* Theorems about PlatformTime and MemoryAccounting: the performance       *)
(* counter follows the hardware counter, a date is converted to the        *)
(* instant it names, the memory map is acquired without a stray buffer,    *)
(* and the memory status adds up.                                          *)
(*                                                                         *)
(* The first sections are arithmetic the other proofs of the imports use   *)
(* too: division, induction over numbers and finite sums. The library's    *)
(* induction theorems take the property to prove as an operator, which     *)
(* none of the provers instantiates; NumberInduction takes the set of the  *)
(* numbers that have it.                                                   *)
(***************************************************************************)
EXTENDS PlatformTime, MemoryAccounting, TLAPS, FiniteSetTheorems, SequenceTheorems,
        WellFoundedInduction

-----------------------------------------------------------------------------
(* Division.                                                               *)

\* Quotient and remainder of a division by p.
LEMMA Division ==
  ASSUME NEW x \in Int, NEW p \in Nat \ {0}
  PROVE  /\ x \div p \in Int /\ x % p \in Nat /\ x % p < p
         /\ x = p * (x \div p) + (x % p)
  BY SMT

LEMMA DivisionIsUnique ==
  ASSUME NEW p \in Nat \ {0}, NEW q \in Int, NEW r \in Int, NEW s \in Int, NEW t \in Int,
         0 <= r, r < p, 0 <= t, t < p, p * q + r = p * s + t
  PROVE  q = s /\ r = t
  <1>1. p * (q - s) = t - r
    BY SMT
  <1>2. q - s < 1
    <2> SUFFICES ASSUME q - s >= 1 PROVE FALSE
      BY SMT
    <2>1. p * (q - s) >= p
      BY SMT
    <2>2. QED
      BY <1>1, <2>1, SMT
  <1>3. q - s > -1
    <2> SUFFICES ASSUME q - s <= -1 PROVE FALSE
      BY SMT
    <2>1. p * (q - s) <= -p
      BY SMT
    <2>2. QED
      BY <1>1, <2>1, SMT
  <1>4. q = s
    BY <1>2, <1>3, SMT
  <1>5. QED
    BY <1>4, <1>1, SMT

LEMMA RemainderOf ==
  ASSUME NEW p \in Nat \ {0}, NEW q \in Int, NEW r \in Int, 0 <= r, r < p
  PROVE  (p * q + r) % p = r /\ (p * q + r) \div p = q
  <1> DEFINE x == p * q + r
  <1>1. x \in Int
    BY SMT
  <1>2. /\ x \div p \in Int /\ x % p \in Nat /\ x % p < p
        /\ x = p * (x \div p) + (x % p)
    BY <1>1, Division
  <1>3. p * (x \div p) + (x % p) = p * q + r
    BY <1>2
  <1> HIDE DEF x
  <1>4. QED
    BY <1>2, <1>3, DivisionIsUnique DEF x

\* The difference of two readings of a timer that wraps at p is the time between
\* them, less whole periods.
LEMMA WrappedDifference ==
  ASSUME NEW p \in Nat \ {0}, NEW a \in Nat, NEW b \in Nat, b <= a
  PROVE  LET e == ((a % p) - (b % p)) % p IN
           /\ e \in Nat
           /\ \E k \in Nat : a - b = e + p * k
           /\ a - b < p => e = a - b
  <1> DEFINE x == (a % p) - (b % p)
  <1> DEFINE e == x % p
  <1>1. /\ a \div p \in Int /\ a % p \in Nat /\ a = p * (a \div p) + (a % p)
        /\ b \div p \in Int /\ b % p \in Nat /\ b = p * (b \div p) + (b % p)
    BY Division
  <1>2. x \in Int
    BY <1>1
  <1>3. /\ x \div p \in Int /\ e \in Nat /\ e < p /\ x = p * (x \div p) + e
    BY <1>2, Division
  <1> DEFINE k == (a \div p) - (b \div p) + (x \div p)
  <1>4. k \in Int
    BY <1>1, <1>3
  <1>5. a - b = p * k + e
    <2>1. a - b = p * (a \div p) - p * (b \div p) + x
      BY <1>1, SMT
    <2>2. QED
      <3> DEFINE i == a \div p
      <3> DEFINE j == b \div p
      <3> DEFINE l == x \div p
      <3>1. i \in Int /\ j \in Int /\ l \in Int /\ k = i - j + l
            /\ a - b = p * i - p * j + x /\ x = p * l + e
        BY <1>1, <1>3, <2>1
      <3> HIDE DEF i, j, l, k, x, e
      <3>2. p * k = p * i - p * j + p * l
        BY <3>1, SMT
      <3>3. QED
        BY <3>1, <3>2, <1>2, <1>3, SMT
  <1> HIDE DEF k, e, x
  <1>6. k \in Nat
    <2> SUFFICES ASSUME k <= -1 PROVE FALSE
      BY <1>4, SMT
    <2>1. p * k <= -p
      BY <1>4, SMT
    <2>2. QED
      BY <1>3, <1>4, <1>5, <2>1, SMT
  <1>7. a - b < p => e = a - b
    <2> SUFFICES ASSUME a - b < p PROVE e = a - b
      OBVIOUS
    <2>1. p * 0 + (a - b) = p * k + e
      BY <1>5
    <2>2. 0 <= a - b /\ a - b \in Int
      OBVIOUS
    <2>3. QED
      BY <2>1, <2>2, <1>3, <1>4, DivisionIsUnique
  <1>8. a - b = e + p * k
    BY <1>3, <1>4, <1>5, SMT
  <1>9. QED
    BY <1>3, <1>6, <1>7, <1>8 DEF e, x

-----------------------------------------------------------------------------
(* Induction by a least counterexample, over numbers and over finite sets, *)
(* for a set of the values that have the property.                         *)

LEMMA NumberInduction ==
  ASSUME NEW n \in Nat, NEW G, 0 \in G, \A i \in 0 .. (n - 1) : i \in G => i + 1 \in G
  PROVE  \A i \in 0 .. n : i \in G
  <1> DEFINE R == {ss \in Nat \X Nat : ss[1] < ss[2]}
  <1> DEFINE T == {i \in 0 .. n : i \notin G}
  <1> SUFFICES ASSUME T # {} PROVE FALSE
    OBVIOUS
  <1>1. IsWellFoundedOn(R, Nat)
    BY NatLessThanWellFounded DEF OpToRel
  <1>2. T \subseteq Nat
    OBVIOUS
  <1>3. PICK t \in T : \A y \in T : ~(<<y, t>> \in R)
    <2> HIDE DEF R, T
    <2>1. QED
      BY <1>1, <1>2, WFMin
  <1>4. t # 0 /\ t \in 0 .. n /\ t \notin G
    OBVIOUS
  <1>5. t - 1 \in 0 .. (n - 1)
    BY <1>4
  <1>6. t - 1 \in 0 .. n /\ <<t - 1, t>> \in R
    BY <1>4, <1>5
  <1>7. t - 1 \in G
    BY <1>3, <1>6
  <1>8. (t - 1) + 1 \in G
    BY <1>5, <1>7
  <1>9. QED
    BY <1>4, <1>8

LEMMA SubsetsAreWellFounded ==
  ASSUME NEW S, IsFiniteSet(S)
  PROVE  IsWellFoundedOn(StrictSubsetOrdering(S), SUBSET S)
  BY FS_StrictSubsetOrderingWellFounded, FS_FiniteSubsetsOfFinite

LEMMA SubsetInduction ==
  ASSUME NEW S, IsFiniteSet(S), NEW G,
         \A s \in SUBSET S : (\A u \in SUBSET s : u # s => u \in G) => s \in G
  PROVE  \A s \in SUBSET S : s \in G
  <1> DEFINE T == {s \in SUBSET S : s \notin G}
  <1> SUFFICES ASSUME T # {} PROVE FALSE
    OBVIOUS
  <1>1. IsWellFoundedOn(StrictSubsetOrdering(S), SUBSET S)
    BY SubsetsAreWellFounded
  <1>2. T \subseteq SUBSET S
    OBVIOUS
  <1>3. PICK t \in T : \A y \in T : ~(<<y, t>> \in StrictSubsetOrdering(S))
    <2> HIDE DEF T
    <2>1. QED
      BY <1>1, <1>2, WFMin
  <1>4. ASSUME NEW u \in SUBSET t, u # t PROVE u \in G
    <2>1. <<u, t>> \in StrictSubsetOrdering(S)
      BY <1>4 DEF StrictSubsetOrdering
    <2>2. QED
      BY <1>3, <2>1
  <1>5. QED
    BY <1>4

-----------------------------------------------------------------------------
(* Sums over finite sets, by a recursive function on the subsets that      *)
(* takes the element that pick names.                                      *)

SumStep(g, w, pick, s) == IF s = {} THEN 0 ELSE g[s \ {pick[s]}] + w[pick[s]]
IsSum(g, w, pick, S) == g = [s \in SUBSET S |-> SumStep(g, w, pick, s)]
IsPick(pick, S) == \A s \in SUBSET S : s # {} => pick[s] \in s
IsWeight(w, S) == \A e \in S : w[e] \in Int

LEMMA SumExists ==
  ASSUME NEW S, IsFiniteSet(S), NEW w, NEW pick, IsPick(pick, S)
  PROVE  \E g : IsSum(g, w, pick, S)
  <1> DEFINE D(n) == {s \in SUBSET S : Cardinality(s) <= n}
  <1> DEFINE F(g, n) == [s \in D(n) |-> SumStep(g, w, pick, s)]
  <1> DEFINE G == {n \in Nat : \E g : g = F(g, n)}
  <1>1. \A s \in SUBSET S : IsFiniteSet(s) /\ Cardinality(s) \in Nat
    BY FS_Subset, FS_CardinalityType
  <1>2. 0 \in G
    <2> DEFINE g == [s \in D(0) |-> 0]
    <2>1. ASSUME NEW s \in D(0) PROVE s = {}
      BY <1>1, FS_EmptySet
    <2>2. g = F(g, 0)
      BY <2>1, Zenon DEF SumStep
    <2>3. QED
      BY <2>2
  <1>3. ASSUME NEW n \in Nat, n \in G PROVE n + 1 \in G
    <2>1. PICK g : g = F(g, n)
      BY <1>3
    <2> DEFINE h == F(g, n + 1)
    <2>2. ASSUME NEW s \in D(n + 1), s # {}
          PROVE  s \ {pick[s]} \in D(n)
      <3>1. pick[s] \in s /\ s \in SUBSET S
        BY <2>2 DEF IsPick
      <3>2. Cardinality(s \ {pick[s]}) = Cardinality(s) - 1
        BY <3>1, <1>1, FS_RemoveElement
      <3>3. QED
        BY <3>1, <3>2, <1>1
    <2>3. ASSUME NEW s \in D(n) PROVE s \in D(n + 1)
      BY <1>1
    <2>4. ASSUME NEW s \in D(n) PROVE h[s] = g[s]
      <3>1. h[s] = SumStep(g, w, pick, s)
        BY <2>3
      <3>2. g[s] = SumStep(g, w, pick, s)
        <4> HIDE DEF D, h
        <4>1. QED
          BY <2>1
      <3>3. QED
        BY <3>1, <3>2
    <2>5. ASSUME NEW s \in D(n + 1)
          PROVE  SumStep(g, w, pick, s) = SumStep(h, w, pick, s)
      <3>1. CASE s = {}
        BY <3>1 DEF SumStep
      <3>2. CASE s # {}
        <4>1. h[s \ {pick[s]}] = g[s \ {pick[s]}]
          BY <2>2, <2>4, <3>2
        <4> HIDE DEF h, D
        <4>2. QED
          BY <4>1, <3>2 DEF SumStep
      <3>3. QED
        BY <3>1, <3>2
    <2>6. h = F(h, n + 1)
      BY <2>5
    <2> HIDE DEF h
    <2>7. \E k : k = F(k, n + 1)
      BY <2>6, Zenon
    <2> HIDE DEF F
    <2>8. QED
      BY <2>7
  <1>4. Cardinality(S) \in Nat
    BY FS_CardinalityType
  <1>5. Cardinality(S) \in G
    <2> HIDE DEF G
    <2>1. \A i \in 0 .. Cardinality(S) : i \in G
      BY <1>2, <1>3, <1>4, NumberInduction
    <2>2. QED
      BY <2>1, <1>4
  <1>6. D(Cardinality(S)) = SUBSET S
    BY FS_Subset
  <1>7. PICK g : g = F(g, Cardinality(S))
    BY <1>5
  <1>8. g = [s \in SUBSET S |-> SumStep(g, w, pick, s)]
    BY <1>6, <1>7
  <1>9. QED
    BY <1>8 DEF IsSum

LEMMA SumOfEmpty ==
  ASSUME NEW S, NEW w, NEW pick, NEW g, IsSum(g, w, pick, S)
  PROVE  g[{}] = 0
  <1>1. g[{}] = SumStep(g, w, pick, {})
    BY DEF IsSum
  <1>2. QED
    BY <1>1 DEF SumStep

LEMMA SumOfPicked ==
  ASSUME NEW S, NEW w, NEW pick, NEW g, IsSum(g, w, pick, S), NEW s \in SUBSET S, s # {}
  PROVE  g[s] = g[s \ {pick[s]}] + w[pick[s]]
  <1>1. g[s] = SumStep(g, w, pick, s)
    BY DEF IsSum
  <1>2. QED
    BY <1>1 DEF SumStep

LEMMA SumIsInteger ==
  ASSUME NEW S, IsFiniteSet(S), NEW w, IsWeight(w, S), NEW pick, IsPick(pick, S),
         NEW g, IsSum(g, w, pick, S)
  PROVE  \A s \in SUBSET S : g[s] \in Int
  <1> DEFINE G == {s \in SUBSET S : g[s] \in Int}
  <1>1. ASSUME NEW s \in SUBSET S, \A u \in SUBSET s : u # s => u \in G
        PROVE  s \in G
    <2>1. CASE s = {}
      BY <2>1, SumOfEmpty
    <2>2. CASE s # {}
      <3>1. pick[s] \in s /\ g[s] = g[s \ {pick[s]}] + w[pick[s]]
        BY <2>2, SumOfPicked DEF IsPick
      <3>2. g[s \ {pick[s]}] \in Int /\ w[pick[s]] \in Int
        BY <3>1, <1>1 DEF IsWeight
      <3>3. QED
        BY <3>1, <3>2
    <2>3. QED
      BY <2>1, <2>2
  <1>2. QED
    <2> HIDE DEF G
    <2>1. \A s \in SUBSET S : s \in G
      BY <1>1, SubsetInduction
    <2>2. QED
      BY <2>1 DEF G

\* Whatever element is taken out, the sum is less by its weight.
LEMMA SumOfOther ==
  ASSUME NEW S, IsFiniteSet(S), NEW w, IsWeight(w, S), NEW pick, IsPick(pick, S),
         NEW g, IsSum(g, w, pick, S)
  PROVE  \A s \in SUBSET S : \A e \in s : g[s] = g[s \ {e}] + w[e]
  <1> DEFINE G == {s \in SUBSET S : \A e \in s : g[s] = g[s \ {e}] + w[e]}
  <1>1. ASSUME NEW s \in SUBSET S, \A u \in SUBSET s : u # s => u \in G
        PROVE  s \in G
    <2> SUFFICES ASSUME NEW e \in s PROVE g[s] = g[s \ {e}] + w[e]
      OBVIOUS
    <2> DEFINE x == pick[s]
    <2>1. x \in s /\ g[s] = g[s \ {x}] + w[x]
      BY SumOfPicked DEF IsPick
    <2> HIDE DEF x
    <2>2. CASE e = x
      BY <2>1, <2>2
    <2>3. CASE e # x
      <3> DEFINE r == (s \ {x}) \ {e}
      <3>1. s \ {x} \in G /\ s \ {e} \in G /\ e \in s \ {x} /\ x \in s \ {e}
        BY <1>1, <2>1, <2>3
      <3>2. g[s \ {x}] = g[r] + w[e]
        BY <3>1
      <3>3. (s \ {e}) \ {x} = r
        OBVIOUS
      <3>4. g[s \ {e}] = g[r] + w[x]
        BY <3>1, <3>3
      <3>5. w[x] \in Int /\ w[e] \in Int /\ g[r] \in Int
        BY <2>1, SumIsInteger DEF IsWeight
      <3> HIDE DEF r
      <3>6. QED
        BY <2>1, <3>2, <3>4, <3>5
    <2>4. QED
      BY <2>2, <2>3
  <1>2. QED
    <2> HIDE DEF G
    <2>1. \A s \in SUBSET S : s \in G
      BY <1>1, SubsetInduction
    <2>2. QED
      BY <2>1 DEF G

\* The sum of a set does not depend on how it is added up, nor on what else the
\* function is defined for.
LEMMA SumIsUnique ==
  ASSUME NEW S, IsFiniteSet(S), NEW w, IsWeight(w, S), NEW pick, IsPick(pick, S),
         NEW g, IsSum(g, w, pick, S),
         NEW T, IsFiniteSet(T), NEW v, IsWeight(v, T), NEW choice, IsPick(choice, T),
         NEW h, IsSum(h, v, choice, T), \A e \in S \cap T : w[e] = v[e]
  PROVE  \A s \in SUBSET (S \cap T) : g[s] = h[s]
  <1> DEFINE G == {s \in SUBSET (S \cap T) : g[s] = h[s]}
  <1>1. ASSUME NEW s \in SUBSET (S \cap T), \A u \in SUBSET s : u # s => u \in G
        PROVE  s \in G
    <2>1. CASE s = {}
      BY <2>1, SumOfEmpty
    <2>2. CASE s # {}
      <3>1. PICK e \in s : TRUE
        BY <2>2
      <3>2. g[s] = g[s \ {e}] + w[e]
        BY SumOfOther
      <3>3. h[s] = h[s \ {e}] + v[e]
        BY SumOfOther
      <3>4. g[s \ {e}] = h[s \ {e}] /\ w[e] = v[e]
        BY <1>1, <3>1
      <3>5. QED
        BY <3>2, <3>3, <3>4
    <2>3. QED
      BY <2>1, <2>2
  <1>2. IsFiniteSet(S \cap T)
    BY FS_Intersection
  <1>3. QED
    <2> HIDE DEF G
    <2>1. \A s \in SUBSET (S \cap T) : s \in G
      BY <1>1, <1>2, SubsetInduction
    <2>2. QED
      BY <2>1 DEF G

\* A sum of terms that are at most those of another is at most the other.
LEMMA SumIsMonotonic ==
  ASSUME NEW S, IsFiniteSet(S), NEW w, IsWeight(w, S), NEW pick, IsPick(pick, S),
         NEW g, IsSum(g, w, pick, S), NEW v, IsWeight(v, S), NEW h, IsSum(h, v, pick, S),
         \A e \in S : w[e] <= v[e]
  PROVE  \A s \in SUBSET S : g[s] <= h[s]
  <1> DEFINE G == {s \in SUBSET S : g[s] <= h[s]}
  <1>1. ASSUME NEW s \in SUBSET S, \A u \in SUBSET s : u # s => u \in G
        PROVE  s \in G
    <2>1. CASE s = {}
      BY <2>1, SumOfEmpty
    <2>2. CASE s # {}
      <3>1. /\ pick[s] \in s /\ g[s] = g[s \ {pick[s]}] + w[pick[s]]
            /\ h[s] = h[s \ {pick[s]}] + v[pick[s]]
        BY <2>2, SumOfPicked DEF IsPick
      <3>2. g[s \ {pick[s]}] \in Int /\ h[s \ {pick[s]}] \in Int
        BY SumIsInteger
      <3>3. g[s \ {pick[s]}] <= h[s \ {pick[s]}] /\ w[pick[s]] \in Int /\ v[pick[s]] \in Int
            /\ w[pick[s]] <= v[pick[s]]
        BY <3>1, <1>1 DEF IsWeight
      <3>4. QED
        BY <3>1, <3>2, <3>3
    <2>3. QED
      BY <2>1, <2>2
  <1>2. QED
    <2> HIDE DEF G
    <2>1. \A s \in SUBSET S : s \in G
      BY <1>1, SubsetInduction
    <2>2. QED
      BY <2>1 DEF G

\* The sum of the weights w over S.
Pick(S) == [s \in SUBSET S |-> CHOOSE x \in s : TRUE]
Total(w, S) == (CHOOSE g : IsSum(g, w, Pick(S), S))[S]

LEMMA PickPicks == \A S : IsPick(Pick(S), S)
  BY DEF IsPick, Pick

LEMMA TotalIsSum ==
  ASSUME NEW S, IsFiniteSet(S), NEW w
  PROVE  \E g : IsSum(g, w, Pick(S), S) /\ Total(w, S) = g[S]
  <1>1. \E g : IsSum(g, w, Pick(S), S)
    BY SumExists, PickPicks
  <1>2. IsSum(CHOOSE g : IsSum(g, w, Pick(S), S), w, Pick(S), S)
    BY <1>1
  <1>3. QED
    BY <1>2 DEF Total

LEMMA TotalOfEmpty ==
  ASSUME NEW w
  PROVE  Total(w, {}) = 0
  BY TotalIsSum, SumOfEmpty, FS_EmptySet

LEMMA TotalIsInteger ==
  ASSUME NEW S, IsFiniteSet(S), NEW w, IsWeight(w, S)
  PROVE  Total(w, S) \in Int
  BY TotalIsSum, SumIsInteger, PickPicks

LEMMA TotalWithout ==
  ASSUME NEW S, IsFiniteSet(S), NEW w, IsWeight(w, S), NEW e \in S
  PROVE  Total(w, S) = Total(w, S \ {e}) + w[e]
  <1> DEFINE T == S \ {e}
  <1>1. IsFiniteSet(T) /\ IsWeight(w, T)
    BY FS_RemoveElement DEF IsWeight
  <1>2. PICK g : IsSum(g, w, Pick(S), S) /\ Total(w, S) = g[S]
    BY TotalIsSum
  <1>3. PICK h : IsSum(h, w, Pick(T), T) /\ Total(w, T) = h[T]
    BY <1>1, TotalIsSum
  <1>4. g[S] = g[T] + w[e]
    BY <1>2, SumOfOther, PickPicks
  <1>5. g[T] = h[T]
    <2>1. T \in SUBSET (S \cap T)
      OBVIOUS
    <2>2. QED
      BY <2>1, <1>1, <1>2, <1>3, SumIsUnique, PickPicks
  <1>6. QED
    BY <1>2, <1>3, <1>4, <1>5

LEMMA TotalWith ==
  ASSUME NEW S, IsFiniteSet(S), NEW w, NEW e, e \notin S, IsWeight(w, S \cup {e})
  PROVE  Total(w, S \cup {e}) = Total(w, S) + w[e]
  <1>1. IsFiniteSet(S \cup {e}) /\ e \in S \cup {e} /\ (S \cup {e}) \ {e} = S
    BY FS_AddElement
  <1>2. QED
    BY <1>1, TotalWithout

LEMMA TotalIsNatural ==
  ASSUME NEW S, IsFiniteSet(S), NEW w, \A e \in S : w[e] \in Nat
  PROVE  Total(w, S) \in Nat
  <1> DEFINE z == [e \in S |-> 0]
  <1>1. IsWeight(w, S) /\ IsWeight(z, S) /\ \A e \in S : z[e] <= w[e]
    BY DEF IsWeight
  <1>2. PICK g : IsSum(g, w, Pick(S), S) /\ Total(w, S) = g[S]
    BY TotalIsSum
  <1> DEFINE o == [s \in SUBSET S |-> 0]
  <1>3. IsSum(o, z, Pick(S), S)
    <2>1. ASSUME NEW s \in SUBSET S PROVE SumStep(o, z, Pick(S), s) = 0
      <3>1. CASE s = {}
        BY <3>1 DEF SumStep
      <3>2. CASE s # {}
        <4>1. Pick(S)[s] \in s
          BY <3>2, PickPicks DEF IsPick
        <4>2. o[s \ {Pick(S)[s]}] = 0 /\ z[Pick(S)[s]] = 0
          BY <4>1
        <4>3. QED
          BY <4>2, <3>2 DEF SumStep
      <3>3. QED
        BY <3>1, <3>2
    <2>2. QED
      BY <2>1 DEF IsSum
  <1>4. o[S] = 0
    OBVIOUS
  <1> HIDE DEF o, z
  <1>5. o[S] <= g[S]
    BY <1>1, <1>2, <1>3, SumIsMonotonic, PickPicks
  <1>6. QED
    BY <1>1, <1>2, <1>4, <1>5, TotalIsInteger

-----------------------------------------------------------------------------
(* The inductive invariant of the performance counter.                     *)

PerfTypes ==
  /\ source \in {"none", "tsc", "timer"}
  /\ ticks \in Nat /\ zero \in Nat /\ readAt \in Nat
  /\ startRaw \in Nat /\ lastRaw \in Nat /\ extended \in Nat
  /\ counter \in Nat \cup {None} /\ counterCalls \in Nat
  /\ late \in BOOLEAN

\* The counter over the TSC is the time since the start.
TscIsRead ==
  /\ startRaw = zero
  /\ counter # None => counter = readAt - zero

\* The timer was last accepted at readAt, and what was added up since the start
\* is the time that passed less some periods, none if no read was late.
TimerIsExtended ==
  /\ lastRaw = readAt % TimerPeriod
  /\ startRaw <= extended
  /\ counter # None => counter = extended - startRaw
  /\ \E k \in Nat : readAt - zero = (extended - startRaw) + TimerPeriod * k
  /\ ~late => readAt - zero = extended - startRaw

PerfInv ==
  /\ PerfTypes
  /\ counterCalls = 0 <=> counter = None
  /\ source = "none" => counter = None
  /\ source # "none" => zero <= readAt /\ readAt <= ticks
  /\ source = "tsc" => TscIsRead
  /\ source = "timer" => TimerIsExtended

LEMMA PeriodIsPositive == TimerPeriod \in Nat \ {0} /\ TimerPeriod > 1
  BY TimeAssumption

LEMMA PerfInvInitially == TimeInit => PerfInv
  <1> SUFFICES ASSUME TimeInit PROVE PerfInv
    OBVIOUS
  <1>1. late \in BOOLEAN
    BY Zenon DEF TimeInit
  <1>2. QED
    BY <1>1, TimeAssumption DEF TimeInit, PerfInv, PerfTypes, None

LEMMA PerfConfigureKeeps ==
  ASSUME PerfInv, NEW p \in Processors, NEW acpi \in BOOLEAN, PerfConfigure(p, acpi)
  PROVE  PerfInv'
  <1>1. /\ zero' = ticks /\ readAt' = ticks /\ ticks' = ticks /\ counter' = counter
        /\ counterCalls' = counterCalls /\ late' = late /\ counter = None /\ ticks \in Nat
    BY DEF PerfConfigure, PerfInv, PerfTypes
  <1>2. CASE source' = "tsc" /\ startRaw' = ticks /\ UNCHANGED <<lastRaw, extended>>
    BY <1>1, <1>2 DEF PerfInv, PerfTypes, TscIsRead
  <1>3. CASE /\ source' = "timer" /\ lastRaw' = ticks % TimerPeriod
             /\ extended' = ticks % TimerPeriod /\ startRaw' = ticks % TimerPeriod
    <2>1. ticks % TimerPeriod \in Nat
      BY <1>1, PeriodIsPositive, Division
    <2>2. PerfTypes'
      BY <2>1, <1>1, <1>3 DEF PerfInv, PerfTypes
    <2>3. readAt' - zero' = 0 /\ extended' - startRaw' = 0
      BY <2>1, <1>1, <1>3
    <2>4. readAt' - zero' = (extended' - startRaw') + TimerPeriod * 0
      BY <2>3, PeriodIsPositive
    <2>5. TimerIsExtended'
      BY <2>1, <2>3, <2>4, <1>1, <1>3 DEF TimerIsExtended
    <2>6. QED
      BY <2>2, <2>5, <1>1, <1>3 DEF PerfInv
  <1>4. CASE UNCHANGED <<source, startRaw, lastRaw, extended>>
    BY <1>1, <1>4 DEF PerfConfigure, PerfInv, PerfTypes
  <1>5. QED
    BY <1>2, <1>3, <1>4 DEF PerfConfigure

LEMMA TickKeeps ==
  ASSUME PerfInv, NEW n \in 1 .. TimerPeriod, Tick(n)
  PROVE  PerfInv'
  <1>1. n \in Nat /\ ticks' = ticks + n
    BY PeriodIsPositive DEF Tick
  <1>2. QED
    BY <1>1 DEF Tick, perfVars, PerfInv, PerfTypes, TscIsRead, TimerIsExtended

\* A read of the TSC.
LEMMA TscReadKeeps ==
  ASSUME PerfInv, source = "tsc", QueryPerformanceCounter
  PROVE  PerfInv'
  <1>1. RawCounter = [ok |-> TRUE, raw |-> ticks, last |-> lastRaw]
    BY DEF RawCounter
  <1>2. PerfTypes /\ TscIsRead /\ zero <= readAt /\ readAt <= ticks
        /\ (counterCalls = 0 <=> counter = None)
    BY DEF PerfInv
  <1>3. ticks - startRaw >= 0 /\ (counterCalls # 0 => ticks - startRaw >= counter)
    BY <1>2 DEF PerfTypes, TscIsRead, None
  <1>4. /\ counter' = ticks - startRaw /\ counterCalls' = counterCalls + 1 /\ readAt' = ticks
        /\ lastRaw' = lastRaw /\ extended' = extended /\ source' = source
        /\ startRaw' = startRaw /\ zero' = zero /\ ticks' = ticks
    BY <1>1, <1>3 DEF QueryPerformanceCounter
  <1>5. late' \in BOOLEAN
    BY DEF QueryPerformanceCounter
  <1>6. QED
    BY <1>2, <1>3, <1>4, <1>5 DEF PerfInv, PerfTypes, TscIsRead, None

\* A read of the timer: accepted it moves the counter, refused it moves nothing.
LEMMA TimerReadKeeps ==
  ASSUME PerfInv, source = "timer", QueryPerformanceCounter
  PROVE  PerfInv'
  <1> DEFINE e == TimerDelta(ticks % TimerPeriod)
  <1> DEFINE half == (TimerPeriod - 1) \div 2
  <1>1. PerfTypes /\ TimerIsExtended /\ zero <= readAt /\ readAt <= ticks
        /\ (counterCalls = 0 <=> counter = None)
    BY DEF PerfInv
  <1>2. /\ e \in Nat
        /\ \E k \in Nat : ticks - readAt = e + TimerPeriod * k
        /\ ticks - readAt < TimerPeriod => e = ticks - readAt
    <2>1. e = ((ticks % TimerPeriod) - (readAt % TimerPeriod)) % TimerPeriod
      BY <1>1 DEF TimerIsExtended, TimerDelta
    <2>2. ticks \in Nat /\ readAt \in Nat
      BY <1>1 DEF PerfTypes
    <2> HIDE DEF e
    <2>3. QED
      BY <2>1, <2>2, <1>1, PeriodIsPositive, WrappedDifference, ZenonT(30)
  <1>3. half \in Nat /\ half < TimerPeriod
    BY PeriodIsPositive, SMT
  <1>4. /\ source' = "timer" /\ startRaw' = startRaw /\ zero' = zero /\ ticks' = ticks
        /\ late' \in BOOLEAN
        /\ ~late' => ~late /\ ~(ticks - readAt > half)
    BY DEF QueryPerformanceCounter
  <1>5. CASE e <= half
    <2>1. RawCounter = [ok |-> TRUE, raw |-> extended + e, last |-> ticks % TimerPeriod]
      BY <1>5 DEF RawCounter
    <2>2. /\ (extended + e) - startRaw >= 0
          /\ counterCalls # 0 => (extended + e) - startRaw >= counter
      BY <1>1, <1>2 DEF PerfTypes, TimerIsExtended, None
    <2>3. /\ counter' = (extended + e) - startRaw /\ counterCalls' = counterCalls + 1
          /\ readAt' = ticks /\ lastRaw' = ticks % TimerPeriod /\ extended' = extended + e
      <3>1. RawCounter.ok /\ RawCounter.raw = extended + e
            /\ RawCounter.last = ticks % TimerPeriod
        BY <2>1
      <3> HIDE DEF e
      <3>2. QED
        BY <3>1, <2>2 DEF QueryPerformanceCounter
    <2>4. ticks % TimerPeriod \in Nat
      BY <1>1, PeriodIsPositive, Division DEF PerfTypes
    <2> HIDE DEF e, half
    <2>5. PerfTypes' /\ counter' \in Nat
      BY <2>2, <2>3, <2>4, <1>1, <1>2, <1>4 DEF PerfTypes
    <2>6. PICK k \in Nat : readAt - zero = (extended - startRaw) + TimerPeriod * k
      BY <1>1 DEF TimerIsExtended
    <2>7. PICK l \in Nat : ticks - readAt = e + TimerPeriod * l
      BY <1>2
    <2>8. k + l \in Nat /\ TimerPeriod * (k + l) = TimerPeriod * k + TimerPeriod * l
          /\ TimerPeriod * k \in Int /\ TimerPeriod * l \in Int
      BY PeriodIsPositive, SMT
    <2>9. ticks - zero = ((extended + e) - startRaw) + TimerPeriod * (k + l)
      BY <2>6, <2>7, <2>8, <1>1, <1>2 DEF PerfTypes
    <2>10. ~late' => ticks - zero = (extended + e) - startRaw
      <3> SUFFICES ASSUME ~late' PROVE ticks - zero = (extended + e) - startRaw
        OBVIOUS
      <3>1. ~late /\ ticks - readAt <= half
        BY <1>1, <1>3, <1>4 DEF PerfTypes
      <3>2. e = ticks - readAt
        BY <3>1, <1>1, <1>2, <1>3, PeriodIsPositive DEF PerfTypes
      <3>3. QED
        BY <3>1, <3>2, <1>1 DEF PerfTypes, TimerIsExtended
    <2>11. TimerIsExtended'
      <3>1. \E m \in Nat : readAt' - zero' = (extended' - startRaw') + TimerPeriod * m
        <4>1. readAt' - zero' = (extended' - startRaw') + TimerPeriod * (k + l)
          BY <2>3, <2>9, <1>4
        <4>2. QED
          BY <4>1, <2>8
      <3>2. startRaw' <= extended'
        BY <2>3, <1>1, <1>2, <1>4 DEF PerfTypes, TimerIsExtended
      <3>3. QED
        <4>1. counter' = extended' - startRaw' /\ lastRaw' = readAt' % TimerPeriod
          BY <2>3, <1>4
        <4>2. ~late' => readAt' - zero' = extended' - startRaw'
          BY <2>3, <2>10, <1>4
        <4>3. QED
          BY <4>1, <4>2, <3>1, <3>2 DEF TimerIsExtended
    <2>12. QED
      BY <2>3, <2>5, <2>11, <1>1, <1>4 DEF PerfInv, PerfTypes, None
  <1>6. CASE ~(e <= half)
    <2>1. RawCounter = [ok |-> FALSE, raw |-> extended, last |-> lastRaw]
      BY <1>6 DEF RawCounter
    <2>2. UNCHANGED <<counter, counterCalls, readAt, lastRaw, extended>>
      BY <2>1 DEF QueryPerformanceCounter
    <2>3. QED
      BY <2>2, <1>1, <1>4 DEF PerfInv, PerfTypes, TimerIsExtended
  <1>7. QED
    BY <1>5, <1>6

LEMMA PerfInvStep == PerfInv /\ [CalendarNext \/ CounterNext]_timeVars => PerfInv'
  <1> SUFFICES ASSUME PerfInv, [CalendarNext \/ CounterNext]_timeVars PROVE PerfInv'
    OBVIOUS
  <1>1. ASSUME UNCHANGED <<perfVars, ticks>>
        PROVE  PerfInv'
    BY <1>1 DEF perfVars, PerfInv, PerfTypes, TscIsRead, TimerIsExtended
  <1>2. CASE CalendarNext
    BY <1>1, <1>2 DEF CalendarNext, GetSystemTimeAsFileTime, SchedulerNow, GetTickCount64
  <1>3. ASSUME NEW p \in Processors, NEW acpi \in BOOLEAN, PerfConfigure(p, acpi)
        PROVE  PerfInv'
    BY <1>3, PerfConfigureKeeps
  <1>4. ASSUME NEW n \in 1 .. TimerPeriod, Tick(n)
        PROVE  PerfInv'
    BY <1>4, TickKeeps
  <1>5. CASE QueryPerformanceCounter
    <2>1. source \in {"tsc", "timer"}
      BY <1>5 DEF QueryPerformanceCounter, PerfInv, PerfTypes
    <2>2. QED
      BY <2>1, <1>5, TscReadKeeps, TimerReadKeeps
  <1>6. CASE UNCHANGED timeVars
    BY <1>1, <1>6 DEF timeVars
  <1>7. QED
    BY <1>2, <1>3, <1>4, <1>5, <1>6 DEF CounterNext

\* Every read of the performance counter and every change of its source accounts
\* for the hardware ticks since the start, up to whole periods that a late read
\* missed (platform_performance.c).
THEOREM PerfInvHolds == TimeSpec => []PerfInv
  BY PerfInvInitially, PerfInvStep, PTL DEF TimeSpec

\* QueryPerformanceCounter over a timer of any period answers the time since
\* the start as long as the reads come within half a period of each other;
\* after a late one it has lost whole periods, and never runs ahead.
THEOREM CounterIsElapsedTime == TimeSpec => []CounterTracksHardware
  <1>1. PerfInv => CounterTracksHardware
    <2> SUFFICES ASSUME PerfInv, counter # None PROVE
             /\ ~late => counter = readAt - zero
             /\ counter <= readAt - zero
             /\ (readAt - zero - counter) % TimerPeriod = 0
      BY DEF CounterTracksHardware
    <2>1. PerfTypes /\ source \in {"tsc", "timer"} /\ counter \in Nat
      BY DEF PerfInv, PerfTypes
    <2>2. \E k \in Nat : readAt - zero = counter + TimerPeriod * k /\ (~late => k = 0)
      <3>1. CASE source = "tsc"
        <4>1. readAt - zero = counter + TimerPeriod * 0
          BY <3>1, <2>1, PeriodIsPositive DEF PerfInv, PerfTypes, TscIsRead
        <4>2. QED
          BY <4>1
      <3>2. CASE source = "timer"
        <4>1. TimerIsExtended /\ counter = extended - startRaw
          BY <3>2 DEF PerfInv, TimerIsExtended
        <4>2. PICK k \in Nat : readAt - zero = counter + TimerPeriod * k
          BY <4>1 DEF TimerIsExtended
        <4>3. CASE late
          BY <4>2, <4>3
        <4>4. CASE ~late
          <5>1. readAt - zero = counter + TimerPeriod * 0
            BY <4>1, <4>4, <2>1, PeriodIsPositive DEF TimerIsExtended
          <5>2. QED
            BY <5>1
        <4>5. QED
          BY <4>3, <4>4
      <3>3. QED
        BY <3>1, <3>2, <2>1
    <2>3. PICK k \in Nat : readAt - zero = counter + TimerPeriod * k /\ (~late => k = 0)
      BY <2>2
    <2>4. TimerPeriod * k \in Nat /\ TimerPeriod * 0 = 0
      BY PeriodIsPositive, SMT
    <2>5. readAt - zero - counter = TimerPeriod * k + 0
      BY <2>1, <2>3, <2>4 DEF PerfTypes
    <2>6. (TimerPeriod * k + 0) % TimerPeriod = 0
      BY PeriodIsPositive, RemainderOf
    <2>7. QED
      BY <2>1, <2>3, <2>4, <2>5, <2>6 DEF PerfTypes
  <1>2. QED
    BY <1>1, PerfInvHolds, PTL

-----------------------------------------------------------------------------
(* percentage_100.                                                         *)

PercentStep(g, i, used, threshold) ==
  IF i = 0 THEN [quotient |-> 0, remainder |-> 0]
  ELSE IF g[i - 1].remainder >= threshold
         THEN [quotient |-> g[i - 1].quotient + 1, remainder |-> g[i - 1].remainder - threshold]
         ELSE [g[i - 1] EXCEPT !.remainder = @ + used]
PercentSteps(g, n, used, threshold) ==
  g = [i \in 0 .. n |-> PercentStep(g, i, used, threshold)]

LEMMA PercentStepsExist ==
  ASSUME NEW used, NEW threshold
  PROVE  \E g : PercentSteps(g, 100, used, threshold)
  <1> DEFINE G == {n \in Nat : \E g : PercentSteps(g, n, used, threshold)}
  <1>1. 0 \in G
    <2> DEFINE g == [i \in 0 .. 0 |-> [quotient |-> 0, remainder |-> 0]]
    <2>1. PercentSteps(g, 0, used, threshold)
      BY DEF PercentSteps, PercentStep
    <2>2. QED
      BY <2>1
  <1>2. ASSUME NEW n \in Nat, n \in G PROVE n + 1 \in G
    <2>1. PICK g : PercentSteps(g, n, used, threshold)
      BY <1>2
    <2> DEFINE h == [i \in 0 .. (n + 1) |-> PercentStep(g, i, used, threshold)]
    <2>2. ASSUME NEW i \in 0 .. n PROVE h[i] = g[i]
      <3>1. g[i] = PercentStep(g, i, used, threshold)
        BY <2>1 DEF PercentSteps
      <3>2. QED
        BY <3>1
    <2>3. ASSUME NEW i \in 0 .. (n + 1)
          PROVE  PercentStep(g, i, used, threshold) = PercentStep(h, i, used, threshold)
      <3>1. CASE i = 0
        BY <3>1 DEF PercentStep
      <3>2. CASE i # 0
        <4>1. i - 1 \in 0 .. n
          BY <3>2
        <4> HIDE DEF h
        <4>2. h[i - 1] = g[i - 1]
          BY <2>2, <4>1
        <4>3. QED
          BY <4>2, <3>2 DEF PercentStep
      <3>3. QED
        BY <3>1, <3>2
    <2>4. PercentSteps(h, n + 1, used, threshold)
      BY <2>3 DEF PercentSteps
    <2> HIDE DEF h
    <2>5. QED
      BY <2>4
  <1>3. 100 \in G
    <2> HIDE DEF G
    <2>1. \A i \in 0 .. 100 : i \in G
      BY <1>1, <1>2, NumberInduction
    <2>2. QED
      BY <2>1
  <1>4. QED
    BY <1>3

\* After i additions the quotient counts the totals in i * used.
IsCount(s, i, used, total) ==
  /\ s \in [quotient : Int, remainder : Int]
  /\ 0 <= s.remainder /\ s.remainder < total
  /\ total * s.quotient + s.remainder = i * used

LEMMA PercentStepsCount ==
  ASSUME NEW used \in Nat, NEW total \in Nat, used < total,
         NEW threshold, threshold = total - used,
         NEW g, PercentSteps(g, 100, used, threshold)
  PROVE  \A i \in 0 .. 100 : IsCount(g[i], i, used, total)
  <1> USE DEF IsCount
  <1> DEFINE P(i) == IsCount(g[i], i, used, total)
  <1> DEFINE G == {i \in 0 .. 100 : P(i)}
  <1>1. \A i \in 0 .. 100 : g[i] = PercentStep(g, i, used, total - used)
    BY DEF PercentSteps
  <1>2. 0 \in G
    <2>1. g[0] = PercentStep(g, 0, used, total - used)
      BY <1>1
    <2>2. g[0] = [quotient |-> 0, remainder |-> 0]
      BY <2>1 DEF PercentStep
    <2>3. QED
      BY <2>2
  <1>3. ASSUME NEW i \in 0 .. 99, i \in G PROVE i + 1 \in G
    <2> DEFINE q == g[i].quotient
    <2> DEFINE r == g[i].remainder
    <2>1. /\ g[i] \in [quotient : Int, remainder : Int] /\ q \in Int /\ r \in Int
          /\ 0 <= r /\ r < total /\ total * q + r = i * used
      BY <1>3
    <2>2. i + 1 \in 0 .. 100 /\ (i + 1) - 1 = i /\ i + 1 # 0
      OBVIOUS
    <2>3. g[i + 1] = IF r >= total - used
                       THEN [quotient |-> q + 1, remainder |-> r - (total - used)]
                       ELSE [g[i] EXCEPT !.remainder = r + used]
      BY <1>1, <2>2 DEF PercentStep
    <2>4. (i + 1) * used = i * used + used
      BY SMT
    <2>5. total * (q + 1) = total * q + total
      BY <2>1, SMT
    <2>6. total * q \in Int /\ i * used \in Int
      BY <2>1, SMT
    <2>7. CASE r >= total - used
      <3>1. g[i + 1] = [quotient |-> q + 1, remainder |-> r - (total - used)]
        BY <2>3, <2>7
      <3>2. g[i + 1].quotient = q + 1 /\ g[i + 1].remainder = r - (total - used)
            /\ g[i + 1] \in [quotient : Int, remainder : Int]
        BY <3>1, <2>1
      <3> HIDE DEF q, r
      <3>3. P(i + 1)
        <4> DEFINE x == r - (total - used)
        <4>1. 0 <= x /\ x < total /\ total * (q + 1) + x = (i + 1) * used
          BY <2>1, <2>4, <2>5, <2>6, <2>7
        <4>2. QED
          BY <4>1, <3>2
      <3>4. QED
        BY <3>3, <2>2
    <2>8. CASE ~(r >= total - used)
      <3>1. g[i + 1] = [g[i] EXCEPT !.remainder = r + used]
        BY <2>3, <2>8
      <3>2. g[i + 1].quotient = q /\ g[i + 1].remainder = r + used
            /\ g[i + 1] \in [quotient : Int, remainder : Int]
        BY <3>1, <2>1
      <3> HIDE DEF q, r
      <3>3. P(i + 1)
        <4>1. 0 <= r + used /\ r + used < total /\ total * q + (r + used) = (i + 1) * used
          BY <2>1, <2>4, <2>6, <2>8
        <4>2. QED
          BY <4>1, <3>2
      <3>4. QED
        BY <3>3, <2>2
    <2>9. QED
      BY <2>7, <2>8
  <1>4. \A i \in 0 .. 100 : i \in G
    <2> HIDE DEF G
    <2>1. \A i \in 0 .. (100 - 1) : i \in G => i + 1 \in G
      BY <1>3
    <2>2. QED
      BY <1>2, <2>1, NumberInduction
  <1>5. QED
    BY <1>4

\* percentage_100 is the percentage, rounded down, without forming used * 100.
LEMMA PercentageIsExact ==
  ASSUME NEW used \in Nat, NEW total \in Nat \ {0}, used <= total
  PROVE  Percentage100(used, total) = (100 * used) \div total
  <1>1. CASE used = total
    <2>1. Percentage100(used, total) = 100
      BY <1>1 DEF Percentage100
    <2>2. (total * 100 + 0) \div total = 100
      BY RemainderOf
    <2>3. total * 100 + 0 = 100 * used
      BY <1>1, SMT
    <2>4. QED
      BY <2>1, <2>2, <2>3
  <1>2. CASE used < total
    <2> DEFINE threshold == total - used
    <2> DEFINE g == CHOOSE g : PercentSteps(g, 100, used, threshold)
    <2>1. PercentSteps(g, 100, used, threshold)
      BY PercentStepsExist
    <2>2. Percentage100(used, total) = g[100].quotient
      <3>1. ~(total = 0 \/ used > total) /\ used # total
        BY <1>2
      <3>2. QED
        BY <3>1, Zenon DEF Percentage100, PercentSteps, PercentStep
    <2> HIDE DEF g
    <2>3. /\ g[100].quotient \in Int /\ g[100].remainder \in Int
          /\ 0 <= g[100].remainder /\ g[100].remainder < total
          /\ total * g[100].quotient + g[100].remainder = 100 * used
      <3>1. total \in Nat /\ 100 \in 0 .. 100 /\ threshold = total - used
        OBVIOUS
      <3> HIDE DEF threshold
      <3>2. \A i \in 0 .. 100 : IsCount(g[i], i, used, total)
        BY <3>1, <2>1, <1>2, PercentStepsCount
      <3>3. /\ g[100] \in [quotient : Int, remainder : Int]
            /\ 0 <= g[100].remainder /\ g[100].remainder < total
            /\ total * g[100].quotient + g[100].remainder = 100 * used
        BY <3>1, <3>2 DEF IsCount
      <3>4. QED
        BY <3>3
    <2>4. (total * g[100].quotient + g[100].remainder) \div total = g[100].quotient
      BY <2>3, RemainderOf
    <2>5. QED
      BY <2>2, <2>3, <2>4
  <1>3. QED
    BY <1>1, <1>2

-----------------------------------------------------------------------------
(* The folds of the accounting are sums.                                   *)

\* A set of naturals with an upper bound has its greatest element.
LEMMA MaxIsMember ==
  ASSUME NEW n \in Nat, NEW s \in SUBSET (1 .. n), s # {}
  PROVE  Max(s) \in s
  <1> DEFINE G == {k \in Nat : \A t \in SUBSET (1 .. k) :
                     t # {} => \E x \in t : \A y \in t : x >= y}
  <1>1. 0 \in G
    <2>1. 1 .. 0 = {}
      OBVIOUS
    <2>2. QED
      BY <2>1
  <1>2. ASSUME NEW k \in Nat, k \in G PROVE k + 1 \in G
    <2> SUFFICES ASSUME NEW t \in SUBSET (1 .. (k + 1)), t # {}
                 PROVE  \E x \in t : \A y \in t : x >= y
      OBVIOUS
    <2>1. CASE k + 1 \in t
      BY <2>1
    <2>2. CASE k + 1 \notin t
      <3>1. t \in SUBSET (1 .. k)
        BY <2>2
      <3>2. QED
        BY <3>1, <1>2
    <2>3. QED
      BY <2>1, <2>2
  <1>3. n \in G
    <2> HIDE DEF G
    <2>1. \A i \in 0 .. n : i \in G
      BY <1>1, <1>2, NumberInduction
    <2>2. QED
      BY <2>1
  <1>4. \E x \in s : \A y \in s : x >= y
    BY <1>3
  <1>5. QED
    BY <1>4 DEF Max

\* A function of sums gives the total, however it picks.
LEMMA SumIsTotal ==
  ASSUME NEW S, IsFiniteSet(S), NEW w, IsWeight(w, S), NEW pick, IsPick(pick, S),
         NEW g, IsSum(g, w, pick, S)
  PROVE  g[S] = Total(w, S)
  <1>1. PICK h : IsSum(h, w, Pick(S), S) /\ Total(w, S) = h[S]
    BY TotalIsSum
  <1>2. S \in SUBSET (S \cap S)
    OBVIOUS
  <1>3. g[S] = h[S]
    BY <1>1, <1>2, SumIsUnique, PickPicks
  <1>4. QED
    BY <1>1, <1>3

Descriptors == [start : Nat, pages : Nat, type : STRING]
TypedBytes(map, types) ==
  [i \in DOMAIN map |-> IF map[i].type \in types THEN BytesOf(map[i]) ELSE 0]

LEMMA SumOfIsTotal ==
  ASSUME NEW map \in Seq(Descriptors), NEW types
  PROVE  /\ SumOf(map, types) = Total(TypedBytes(map, types), DOMAIN map)
         /\ IsFiniteSet(DOMAIN map)
         /\ \A i \in DOMAIN map : TypedBytes(map, types)[i] \in Nat
  <1> DEFINE S == DOMAIN map
  <1> DEFINE w == TypedBytes(map, types)
  <1> DEFINE pick == [s \in SUBSET S |-> Max(s)]
  <1> DEFINE F(g) == [s \in SUBSET S |->
                        IF s = {} THEN 0
                        ELSE g[s \ {Max(s)}]
                               + (IF map[Max(s)].type \in types THEN BytesOf(map[Max(s)]) ELSE 0)]
  <1>1. PICK n \in Nat : S = 1 .. n
    BY DEF Seq
  <1>2. IsFiniteSet(S)
    BY <1>1, FS_Interval
  <1>3. \A s \in SUBSET S : s # {} => Max(s) \in s
    BY <1>1, MaxIsMember
  <1>4. IsPick(pick, S)
    BY <1>3 DEF IsPick
  <1>5. \A i \in S : w[i] \in Nat
    <2> TAKE i \in S
    <2>1. map[i] \in Descriptors
      OBVIOUS
    <2>2. BytesOf(map[i]) \in Nat
      <3>1. map[i].pages \in Nat
        BY <2>1 DEF Descriptors
      <3>2. QED
        BY <3>1, AccountingAssumption DEF BytesOf
    <2>3. QED
      BY <2>2 DEF TypedBytes
  <1>6. IsWeight(w, S)
    BY <1>5 DEF IsWeight
  <1>7. \A g : F(g) = [s \in SUBSET S |-> SumStep(g, w, pick, s)]
    <2> TAKE g
    <2>1. ASSUME NEW s \in SUBSET S
          PROVE  F(g)[s] = SumStep(g, w, pick, s)
      <3>1. CASE s = {}
        BY <3>1 DEF SumStep
      <3>2. CASE s # {}
        <4>1. Max(s) \in S /\ pick[s] = Max(s)
          BY <1>3, <3>2
        <4>2. w[Max(s)] = IF map[Max(s)].type \in types THEN BytesOf(map[Max(s)]) ELSE 0
          BY <4>1 DEF TypedBytes
        <4> HIDE DEF w, pick
        <4>3. QED
          BY <4>1, <4>2, <3>2 DEF SumStep
      <3>3. QED
        BY <3>1, <3>2
    <2>2. F(g) = [s \in SUBSET S |-> F(g)[s]]
      OBVIOUS
    <2> HIDE DEF F
    <2>3. QED
      BY <2>1, <2>2
  <1>8. \E g : g = F(g)
    <2>1. PICK g : IsSum(g, w, pick, S)
      BY <1>2, <1>4, SumExists
    <2> HIDE DEF F
    <2>2. QED
      BY <2>1, <1>7 DEF IsSum
  <1>9. SumOf(map, types) = (CHOOSE g : g = F(g))[S]
    BY Zenon DEF SumOf, FoldLeft, MapThenFoldSet
  <1> DEFINE h == CHOOSE g : g = F(g)
  <1>10. h = F(h)
    BY <1>8, Zenon
  <1> HIDE DEF h, F
  <1>11. IsSum(h, w, pick, S)
    BY <1>7, <1>10 DEF IsSum
  <1>12. h[S] = Total(w, S)
    BY <1>2, <1>4, <1>6, <1>11, SumIsTotal
  <1>13. QED
    BY <1>2, <1>5, <1>9, <1>12 DEF h

\* What is conventional is among what is memory.
LEMMA ConventionalIsMemory ==
  ASSUME NEW map \in Seq(Descriptors)
  PROVE  /\ SumOf(map, {"conventional"}) \in Nat /\ SumOf(map, RamLike) \in Nat
         /\ SumOf(map, {"conventional"}) <= SumOf(map, RamLike)
  <1> DEFINE S == DOMAIN map
  <1> DEFINE w == TypedBytes(map, {"conventional"})
  <1> DEFINE v == TypedBytes(map, RamLike)
  <1>1. /\ SumOf(map, {"conventional"}) = Total(w, S) /\ SumOf(map, RamLike) = Total(v, S)
        /\ IsFiniteSet(S) /\ \A i \in S : w[i] \in Nat /\ v[i] \in Nat
    BY SumOfIsTotal
  <1>2. \A i \in S : w[i] <= v[i]
    <2> TAKE i \in S
    <2>1. CASE map[i].type = "conventional"
      <3>1. w[i] = v[i]
        BY <2>1 DEF TypedBytes, RamLike
      <3>2. QED
        BY <3>1, <1>1
    <2>2. CASE map[i].type # "conventional"
      <3>1. w[i] = 0
        BY <2>2 DEF TypedBytes
      <3>2. v[i] \in Nat
        BY <1>1
      <3>3. QED
        BY <3>1, <3>2
    <2>3. QED
      BY <2>1, <2>2
  <1> HIDE DEF w, v
  <1>3. PICK g : IsSum(g, w, Pick(S), S) /\ Total(w, S) = g[S]
    BY <1>1, TotalIsSum
  <1>4. PICK h : IsSum(h, v, Pick(S), S) /\ Total(v, S) = h[S]
    BY <1>1, TotalIsSum
  <1>5. IsWeight(w, S) /\ IsWeight(v, S)
    BY <1>1 DEF IsWeight
  <1>6. g[S] <= h[S]
    BY <1>1, <1>2, <1>3, <1>4, <1>5, SumIsMonotonic, PickPicks
  <1>7. Total(w, S) \in Nat /\ Total(v, S) \in Nat
    BY <1>1, TotalIsNatural
  <1>8. QED
    BY <1>1, <1>3, <1>4, <1>6, <1>7

\* The entries a ledger may have, what the pool's rounding wastes on each, and
\* the bytes that are not pages of the arena.
LedgerRecords == [id : Nat, use : {"pool", "pages", "table", "data"}, bytes : Nat]
Waste == [e \in LedgerRecords |-> PagesFor(e.bytes) - e.bytes]
OwnBytes == [e \in LedgerRecords |-> IF e.use = "data" THEN 0 ELSE e.bytes]

LEMMA WholePages ==
  ASSUME NEW bytes \in Nat
  PROVE  PagesFor(bytes) \in Int
  <1> DEFINE q == ((bytes + AccountingPage) - 1) \div AccountingPage
  <1>1. AccountingPage \in Nat \ {0} /\ (bytes + AccountingPage) - 1 \in Int
        /\ bytes + AccountingPage - 1 = (bytes + AccountingPage) - 1
    BY AccountingAssumption
  <1>2. q \in Int
    BY <1>1, Division
  <1>3. PagesFor(bytes) = q * AccountingPage
    BY <1>1 DEF PagesFor
  <1> HIDE DEF q
  <1>4. QED
    BY <1>1, <1>2, <1>3

LEMMA LedgerWeights ==
  ASSUME NEW S \in SUBSET LedgerRecords
  PROVE  /\ IsWeight(Waste, S) /\ IsWeight(OwnBytes, S)
         /\ \A e \in S : OwnBytes[e] \in Nat
  <1> SUFFICES ASSUME NEW e \in S PROVE Waste[e] \in Int /\ OwnBytes[e] \in Nat
    BY DEF IsWeight
  <1>1. e.bytes \in Nat
    BY DEF LedgerRecords
  <1>2. PagesFor(e.bytes) \in Int
    BY <1>1, WholePages
  <1>3. QED
    BY <1>1, <1>2 DEF Waste, OwnBytes

LEMMA FoldOfWasteIsTotal ==
  ASSUME NEW S \in SUBSET LedgerRecords, IsFiniteSet(S)
  PROVE  FoldSet(LAMBDA e, sum : sum + PagesFor(e.bytes) - e.bytes, 0, S) = Total(Waste, S)
  <1> DEFINE c(s) == CHOOSE x \in s : TRUE
  <1> DEFINE F(g) == [s \in SUBSET S |->
                        IF s = {} THEN 0
                        ELSE g[s \ {c(s)}] + PagesFor(c(s).bytes) - c(s).bytes]
  <1>1. \A g : F(g) = [s \in SUBSET S |-> SumStep(g, Waste, Pick(S), s)]
    <2> TAKE g
    <2>1. ASSUME NEW s \in SUBSET S
          PROVE  F(g)[s] = SumStep(g, Waste, Pick(S), s)
      <3>1. CASE s = {}
        BY <3>1 DEF SumStep
      <3>2. CASE s # {}
        <4>1. c(s) \in LedgerRecords /\ Pick(S)[s] = c(s)
          BY <3>2 DEF Pick
        <4> HIDE DEF c
        <4>2. Waste[c(s)] = PagesFor(c(s).bytes) - c(s).bytes
          BY <4>1 DEF Waste
        <4>3. QED
          BY <4>1, <4>2, <3>2 DEF SumStep
      <3>3. QED
        BY <3>1, <3>2
    <2>2. F(g) = [s \in SUBSET S |-> F(g)[s]]
      OBVIOUS
    <2> HIDE DEF F
    <2>3. QED
      BY <2>1, <2>2
  <1>2. \E g : g = F(g)
    <2>1. PICK g : IsSum(g, Waste, Pick(S), S)
      BY SumExists, PickPicks
    <2> HIDE DEF F
    <2>2. QED
      BY <2>1, <1>1 DEF IsSum
  <1>3. FoldSet(LAMBDA e, sum : sum + PagesFor(e.bytes) - e.bytes, 0, S)
          = (CHOOSE g : g = F(g))[S]
    BY Zenon DEF FoldSet, MapThenFoldSet
  <1> DEFINE h == CHOOSE g : g = F(g)
  <1>4. h = F(h)
    BY <1>2, Zenon
  <1> HIDE DEF h, F
  <1>5. IsSum(h, Waste, Pick(S), S)
    BY <1>1, <1>4 DEF IsSum
  <1>6. h[S] = Total(Waste, S)
    BY <1>5, SumIsTotal, PickPicks, LedgerWeights
  <1>7. QED
    BY <1>3, <1>6 DEF h

-----------------------------------------------------------------------------
(* The inductive invariant of the acquisition.                             *)

Outcomes ==
  {"none", "ok", "query", "overflow", "allocation", "malformed", "retries"}
Acquisitions ==
  [pc : {"start", "attempt", "done"}, retry : Nat, bytes : Nat, backing : Nat, status : Outcomes]

AcquisitionTypes ==
  /\ acquisition \in Acquisitions
  /\ reported \in Seq(Descriptors)

\* At most one buffer is allocated, none before the first attempt.
AcquisitionInv ==
  /\ AcquisitionTypes
  /\ acquisition.pc # "done" => acquisition.status = "none"
  /\ acquisition.pc = "start" => poolBlocks = {} /\ reported = << >>
  /\ poolBlocks = {} \/ \E n : poolBlocks = {n}
  /\ acquisition.status = "ok" => Len(reported) <= acquisition.backing
  /\ acquisition.status \notin {"none", "ok", "overflow"} => poolBlocks = {}

LEMMA MapsAreSequences ==
  ASSUME NEW map \in FirmwareMaps
  PROVE  map \in Seq(Descriptors) /\ Len(map) \in Nat
  <1>1. map \in Seq(Descriptors)
    BY AccountingAssumption DEF Descriptors
  <1>2. QED
    BY <1>1

\* What ends an acquisition changes nothing else of it.
LEMMA EndOfAcquisition ==
  ASSUME AcquisitionTypes, NEW result \in Outcomes
  PROVE  /\ Ends(result) \in Acquisitions
         /\ Ends(result).pc = "done" /\ Ends(result).status = result
         /\ Ends(result).backing = acquisition.backing
  BY DEF AcquisitionTypes, Acquisitions, Ends

LEMMA EndKeeps ==
  ASSUME AcquisitionInv, NEW result \in Outcomes \ {"none"}, acquisition' = Ends(result),
         reported' \in Seq(Descriptors),
         poolBlocks' = {} \/ \E n : poolBlocks' = {n},
         result = "ok" => Len(reported') <= acquisition.backing,
         result \notin {"ok", "overflow"} => poolBlocks' = {}
  PROVE  AcquisitionInv'
  <1>1. /\ acquisition' \in Acquisitions /\ acquisition'.pc = "done"
        /\ acquisition'.status = result /\ acquisition'.backing = acquisition.backing
    BY EndOfAcquisition DEF AcquisitionInv
  <1>2. QED
    BY <1>1 DEF AcquisitionInv, AcquisitionTypes

LEMMA QueryMapSizeKeeps ==
  ASSUME AcquisitionInv, NEW map \in FirmwareMaps, NEW works \in BOOLEAN,
         QueryMapSize(map, works)
  PROVE  AcquisitionInv'
  <1>1. /\ AcquisitionTypes /\ poolBlocks = {} /\ poolBlocks' = {} /\ reported = << >>
        /\ reported' = reported /\ acquisition.status = "none" /\ acquisition.pc = "start"
    BY DEF AcquisitionInv, QueryMapSize
  <1>2. CASE acquisition' = Ends("query") \/ acquisition' = Ends("ok")
    <2>1. Len(reported') <= acquisition.backing /\ reported' \in Seq(Descriptors)
      <3>1. acquisition.backing \in Nat /\ Len(reported') = 0
        BY <1>1 DEF AcquisitionTypes, Acquisitions
      <3>2. QED
        BY <3>1, <1>1 DEF AcquisitionTypes
    <2>2. "query" \in Outcomes \ {"none"} /\ "ok" \in Outcomes \ {"none"}
      BY DEF Outcomes
    <2>3. QED
      BY <2>1, <2>2, <1>1, <1>2, EndKeeps
  <1>3. CASE acquisition' = [acquisition EXCEPT !.pc = "attempt", !.bytes = Len(map)]
    <2>1. Len(map) \in Nat
      BY MapsAreSequences
    <2>2. QED
      <3>1. acquisition' \in Acquisitions /\ acquisition'.pc = "attempt"
            /\ acquisition'.status = "none"
        BY <2>1, <1>1, <1>3 DEF AcquisitionTypes, Acquisitions
      <3>2. QED
        BY <3>1, <1>1 DEF AcquisitionInv, AcquisitionTypes
  <1>4. QED
    BY <1>2, <1>3 DEF QueryMapSize

LEMMA AttemptKeeps ==
  ASSUME AcquisitionInv, NEW map \in FirmwareMaps, NEW allocated \in BOOLEAN,
         Attempt(map, allocated)
  PROVE  AcquisitionInv'
  <1>1. /\ AcquisitionTypes /\ map \in Seq(Descriptors) /\ Len(map) \in Nat /\ Growth \in Nat
        /\ acquisition.pc = "attempt" /\ acquisition.status = "none"
    BY MapsAreSequences, AccountingAssumption
       DEF AcquisitionInv, AcquisitionTypes, Acquisitions, Attempt, Growth
  <1>2. /\ reported' = IF allocated /\ Len(map) <= Growth THEN map ELSE reported
        /\ reported' \in Seq(Descriptors)
    BY <1>1 DEF Attempt, AcquisitionTypes
  <1>3. CASE allocated = FALSE
    <2>1. acquisition' = Ends("allocation")
      <3>1. ~allocated
        BY <1>3
      <3>2. QED
        BY <3>1, Zenon DEF Attempt
    <2>2. poolBlocks' = {}
      BY <1>3 DEF Attempt
    <2>3. "allocation" \in Outcomes \ {"none"}
      BY DEF Outcomes
    <2>4. QED
      BY <2>1, <2>2, <2>3, <1>2, EndKeeps
  <1>4. CASE allocated = TRUE /\ Len(map) > Growth
    <2>1. acquisition' = [acquisition EXCEPT !.retry = @ + 1,
                                             !.bytes = Len(map), !.backing = Growth]
      <3>1. allocated /\ Len(map) > Growth
        BY <1>4
      <3>2. QED
        BY <3>1, Zenon DEF Attempt
    <2>2. poolBlocks' = {acquisition.retry}
      BY <1>4 DEF Attempt
    <2>3. acquisition' \in Acquisitions /\ acquisition'.pc = "attempt"
          /\ acquisition'.status = "none"
      <3>1. acquisition \in Acquisitions /\ acquisition.retry + 1 \in Nat
        BY <1>1 DEF AcquisitionTypes, Acquisitions
      <3> DEFINE n == Len(map)
      <3> HIDE DEF n
      <3>2. n \in Nat /\ acquisition' = [acquisition EXCEPT !.retry = @ + 1,
                                             !.bytes = n, !.backing = Growth]
        BY <1>1, <2>1 DEF n
      <3>3. QED
        BY <3>1, <3>2, <1>1 DEF Acquisitions
    <2>4. QED
      BY <2>2, <2>3, <1>2 DEF AcquisitionInv, AcquisitionTypes
  <1>5. CASE allocated = TRUE /\ ~(Len(map) > Growth) /\ Len(map) > MaxDescriptors
    <2>1. acquisition' = Ends("malformed")
      BY <1>5 DEF Attempt
    <2>2. poolBlocks' = {}
      BY <1>5 DEF Attempt
    <2>3. "malformed" \in Outcomes \ {"none"}
      BY DEF Outcomes
    <2>4. QED
      BY <2>1, <2>2, <2>3, <1>2, EndKeeps
  <1>6. CASE allocated = TRUE /\ ~(Len(map) > Growth) /\ ~(Len(map) > MaxDescriptors)
    <2>1. acquisition' = [Ends("ok") EXCEPT !.backing = Growth]
      BY <1>6 DEF Attempt
    <2>2. poolBlocks' = {acquisition.retry}
      BY <1>6 DEF Attempt
    <2>3. Len(map) <= Growth
      BY <1>1, <1>6
    <2>4. reported' = map
      BY <2>3, <1>2, <1>6
    <2>5. "ok" \in Outcomes
      BY DEF Outcomes
    <2>6. acquisition' \in Acquisitions /\ acquisition'.pc = "done"
          /\ acquisition'.status = "ok" /\ acquisition'.backing = Growth
      BY <2>1, <2>5, <1>1, EndOfAcquisition DEF Acquisitions
    <2>7. QED
      BY <2>2, <2>3, <2>4, <2>6, <1>2 DEF AcquisitionInv, AcquisitionTypes
  <1>7. QED
    BY <1>3, <1>4, <1>5, <1>6

LEMMA AcquisitionInvStep == AcquisitionInv /\ [AccountingNext]_accountingVars => AcquisitionInv'
  <1> SUFFICES ASSUME AcquisitionInv, [AccountingNext]_accountingVars PROVE AcquisitionInv'
    OBVIOUS
  <1>1. ASSUME UNCHANGED <<acquisition, reported, poolBlocks>> PROVE AcquisitionInv'
    BY <1>1 DEF AcquisitionInv, AcquisitionTypes
  <1>2. ASSUME NEW map \in FirmwareMaps, NEW works \in BOOLEAN, QueryMapSize(map, works)
        PROVE  AcquisitionInv'
    BY <1>2, QueryMapSizeKeeps
  <1>3. CASE AttemptOverflows
    <2>1. "overflow" \in Outcomes \ {"none"} /\ reported \in Seq(Descriptors)
          /\ (poolBlocks = {} \/ \E n : poolBlocks = {n})
      BY DEF Outcomes, AcquisitionInv, AcquisitionTypes
    <2>2. QED
      BY <2>1, <1>3, EndKeeps DEF AttemptOverflows
  <1>4. ASSUME NEW map \in FirmwareMaps, NEW allocated \in BOOLEAN, Attempt(map, allocated)
        PROVE  AcquisitionInv'
    BY <1>4, AttemptKeeps
  <1>5. CASE AttemptRefused
    <2>1. "query" \in Outcomes \ {"none"} /\ reported \in Seq(Descriptors)
          /\ (poolBlocks = {} \/ \E n : poolBlocks = {n})
      BY DEF Outcomes, AcquisitionInv, AcquisitionTypes
    <2>2. QED
      BY <2>1, <1>5, EndKeeps DEF AttemptRefused
  <1>6. CASE RetriesExhausted
    <2>1. "retries" \in Outcomes \ {"none"} /\ reported \in Seq(Descriptors)
          /\ (poolBlocks = {} \/ \E n : poolBlocks = {n})
      BY DEF Outcomes, AcquisitionInv, AcquisitionTypes
    <2>2. QED
      BY <2>1, <1>6, EndKeeps DEF RetriesExhausted
  <1>7. CASE Classify
    BY <1>1, <1>7 DEF Classify
  <1>8. ASSUME UNCHANGED mapVars PROVE AcquisitionInv'
    BY <1>1, <1>8 DEF mapVars
  <1>9. CASE \E bytes \in PoolSizes : Allocate("pool", bytes)
    BY <1>8, <1>9 DEF Allocate
  <1>10. CASE \E use \in {"pages", "table"} : Allocate(use, AccountingPage)
    BY <1>8, <1>10 DEF Allocate
  <1>11. CASE \E e \in ledgerEntries : FreeEntry(e)
    BY <1>8, <1>11 DEF FreeEntry
  <1>12. CASE \/ \E g \in ArenaGranules \ reservedGranules : ReserveGranule(g)
              \/ \E g \in reservedGranules : ReleaseGranule(g)
    BY <1>8, <1>12 DEF ReserveGranule, ReleaseGranule
  <1>13. CASE \/ \E g \in reservedGranules :
                   \E a \in GranuleAddresses(g) \ committedPages : CommitArenaPage(a)
              \/ \E a \in committedPages : DecommitArenaPage(a)
    BY <1>8, <1>13 DEF CommitArenaPage, DecommitArenaPage
  <1>14. CASE \E p \in StatusPointers, exact \in BOOLEAN : GlobalMemoryStatusEx(p, exact)
    BY <1>8, <1>14 DEF GlobalMemoryStatusEx
  <1>15. CASE UNCHANGED accountingVars
    BY <1>1, <1>15 DEF accountingVars
  <1>16. QED
    BY <1>2, <1>3, <1>4, <1>5, <1>6, <1>7, <1>9, <1>10, <1>11, <1>12, <1>13, <1>14, <1>15
       DEF AccountingNext

LEMMA AcquisitionInvInitially == AccountingInit => AcquisitionInv
  <1> SUFFICES ASSUME AccountingInit PROVE AcquisitionInv
    OBVIOUS
  <1>1. /\ acquisition \in Acquisitions /\ acquisition.status = "none"
        /\ acquisition.pc = "start"
    BY DEF AccountingInit, Acquisitions, Outcomes
  <1>2. QED
    BY <1>1 DEF AccountingInit, AcquisitionInv, AcquisitionTypes

\* At every step of the acquisition at most one buffer is allocated, and none is
\* left when it has failed before the limit on its size
\* (gxos_uefi_memory_map_acquire).
THEOREM AcquisitionInvHolds == AccountingSpec => []AcquisitionInv
  BY AcquisitionInvInitially, AcquisitionInvStep, PTL DEF AccountingSpec

\* Whatever maps the firmware reports, and however often the map outgrows its
\* buffer, gxos_uefi_memory_map_acquire keeps one buffer at most: the one a
\* retained map fits into, and none of a failed acquisition, unless the map
\* outgrew every buffer.
THEOREM AcquisitionIsClean == AccountingSpec => []AcquisitionKeepsOneBuffer
  <1>1. AcquisitionInv => AcquisitionKeepsOneBuffer
    <2> SUFFICES ASSUME AcquisitionInv PROVE AcquisitionKeepsOneBuffer
      OBVIOUS
    <2>1. Cardinality(poolBlocks) <= 1
      <3>1. CASE poolBlocks = {}
        BY <3>1, FS_EmptySet
      <3>2. CASE \E n : poolBlocks = {n}
        BY <3>2, FS_Singleton
      <3>3. QED
        BY <3>1, <3>2 DEF AcquisitionInv
    <2>2. QED
      BY <2>1 DEF AcquisitionInv, AcquisitionKeepsOneBuffer
  <1>2. QED
    BY <1>1, AcquisitionInvHolds, PTL

-----------------------------------------------------------------------------
(* The inductive invariant of the ledger.                                  *)

Classifications == [valid : BOOLEAN, total : Nat, conventional : Nat]

LedgerTypes ==
  /\ ledgerEntries \in SUBSET LedgerRecords /\ IsFiniteSet(ledgerEntries)
  /\ IsFiniteSet(committedPages)
  /\ firmwareFree \in Int /\ physicalBytes \in Int
  /\ classification \in Classifications
  /\ classification.conventional <= classification.total
  /\ classification.valid => classification.total # 0

\* Each page of the arena that is committed has an entry, so the counter of the
\* ledger is never less than what is committed.
LedgerIsCounted ==
  /\ \A e \in ledgerEntries : e.use = "data" => e.bytes = AccountingPage
  /\ physicalBytes = Total(OwnBytes, ledgerEntries) + CommittedBytes

FirmwareIsTracked ==
  classification.valid =>
    classification.conventional - physicalBytes = firmwareFree + Total(Waste, ledgerEntries)

NothingBeforeTheMap ==
  ~classification.valid =>
    /\ ledgerEntries = {} /\ committedPages = {} /\ reservedGranules = {}
    /\ physicalBytes = 0 /\ firmwareFree = 0

LedgerInv == LedgerTypes /\ LedgerIsCounted /\ FirmwareIsTracked /\ NothingBeforeTheMap

\* The number NextId chooses is not in use: there is one more to choose from
\* than there are entries.
LEMMA NextIdIsFresh ==
  ASSUME IsFiniteSet(ledgerEntries)
  PROVE  NextId \in Nat /\ \A e \in ledgerEntries : e.id # NextId
  <1> DEFINE c == Cardinality(ledgerEntries)
  <1> DEFINE S == 1 .. (c + 1)
  <1>1. c \in Nat
    BY FS_CardinalityType
  <1> HIDE DEF c
  <1>2. IsFiniteSet(S) /\ Cardinality(S) = c + 1
    BY <1>1, FS_Interval
  <1>3. \E n \in S : \A e \in ledgerEntries : e.id # n
    <2> SUFFICES ASSUME \A n \in S : \E e \in ledgerEntries : e.id = n PROVE FALSE
      OBVIOUS
    <2> DEFINE f == [n \in S |-> CHOOSE e \in ledgerEntries : e.id = n]
    <2>1. \A n \in S : f[n] \in ledgerEntries /\ f[n].id = n
      OBVIOUS
    <2>2. f \in [S -> ledgerEntries]
      BY <2>1
    <2>3. Cardinality(ledgerEntries) < Cardinality(S)
      BY <1>1, <1>2 DEF c
    <2> HIDE DEF f, S
    <2>4. \E m, n \in S : m # n /\ f[m] = f[n]
      BY <2>2, <2>3, <1>2, FS_PigeonHole
    <2>5. QED
      BY <2>1, <2>4
  <1>4. NextId \in S /\ \A e \in ledgerEntries : e.id # NextId
    BY <1>3 DEF NextId, c
  <1>5. QED
    BY <1>1, <1>4

LEMMA BytesCommitted ==
  ASSUME IsFiniteSet(committedPages)
  PROVE  CommittedBytes \in Nat
  <1>1. Cardinality(committedPages) \in Nat /\ AccountingPage \in Nat
    BY FS_CardinalityType, AccountingAssumption
  <1>2. QED
    BY <1>1 DEF CommittedBytes

LEMMA CommitOne ==
  ASSUME IsFiniteSet(committedPages), NEW a, a \notin committedPages,
         committedPages' = committedPages \cup {a}
  PROVE  IsFiniteSet(committedPages') /\ CommittedBytes' = CommittedBytes + AccountingPage
  <1> DEFINE c == Cardinality(committedPages)
  <1>1. c \in Nat /\ AccountingPage \in Nat
    BY FS_CardinalityType, AccountingAssumption
  <1>2. IsFiniteSet(committedPages') /\ Cardinality(committedPages') = c + 1
    BY FS_AddElement
  <1> HIDE DEF c
  <1>3. (c + 1) * AccountingPage = c * AccountingPage + AccountingPage
    BY <1>1
  <1>4. QED
    BY <1>2, <1>3 DEF CommittedBytes, c

LEMMA DecommitOne ==
  ASSUME IsFiniteSet(committedPages), NEW a \in committedPages,
         committedPages' = committedPages \ {a}
  PROVE  IsFiniteSet(committedPages') /\ CommittedBytes' = CommittedBytes - AccountingPage
  <1> DEFINE c == Cardinality(committedPages)
  <1>1. c \in Nat /\ AccountingPage \in Nat
    BY FS_CardinalityType, AccountingAssumption
  <1>2. IsFiniteSet(committedPages') /\ Cardinality(committedPages') = c - 1
    BY FS_RemoveElement
  <1> HIDE DEF c
  <1>3. (c - 1) * AccountingPage = c * AccountingPage - AccountingPage
    BY <1>1
  <1>4. QED
    BY <1>2, <1>3 DEF CommittedBytes, c

\* What a new entry, and one that goes, change of the two totals.
LEMMA TotalsWith ==
  ASSUME LedgerTypes, NEW e \in LedgerRecords, e \notin ledgerEntries
  PROVE  LET S == ledgerEntries \cup {e}
         IN /\ S \in SUBSET LedgerRecords /\ IsFiniteSet(S)
            /\ Total(Waste, S) = Total(Waste, ledgerEntries) + (PagesFor(e.bytes) - e.bytes)
            /\ Total(OwnBytes, S) =
                 Total(OwnBytes, ledgerEntries) + (IF e.use = "data" THEN 0 ELSE e.bytes)
  <1> DEFINE S == ledgerEntries \cup {e}
  <1>1. S \in SUBSET LedgerRecords /\ IsFiniteSet(S) /\ IsFiniteSet(ledgerEntries)
    BY FS_AddElement DEF LedgerTypes
  <1>2. IsWeight(Waste, S) /\ IsWeight(OwnBytes, S)
    BY <1>1, LedgerWeights
  <1>3. Total(Waste, S) = Total(Waste, ledgerEntries) + Waste[e]
    BY <1>1, <1>2, TotalWith
  <1>4. Total(OwnBytes, S) = Total(OwnBytes, ledgerEntries) + OwnBytes[e]
    BY <1>1, <1>2, TotalWith
  <1>5. /\ Waste[e] = PagesFor(e.bytes) - e.bytes
        /\ OwnBytes[e] = IF e.use = "data" THEN 0 ELSE e.bytes
    BY DEF Waste, OwnBytes
  <1>6. QED
    BY <1>1, <1>3, <1>4, <1>5

LEMMA TotalsWithout ==
  ASSUME LedgerTypes, NEW e \in ledgerEntries
  PROVE  LET S == ledgerEntries \ {e}
         IN /\ S \in SUBSET LedgerRecords /\ IsFiniteSet(S)
            /\ Total(Waste, ledgerEntries) = Total(Waste, S) + (PagesFor(e.bytes) - e.bytes)
            /\ Total(OwnBytes, ledgerEntries) =
                 Total(OwnBytes, S) + (IF e.use = "data" THEN 0 ELSE e.bytes)
  <1> DEFINE S == ledgerEntries \ {e}
  <1>1. S \in SUBSET LedgerRecords /\ IsFiniteSet(S) /\ IsFiniteSet(ledgerEntries)
        /\ e \in LedgerRecords /\ ledgerEntries \in SUBSET LedgerRecords
    BY FS_RemoveElement DEF LedgerTypes
  <1>2. IsWeight(Waste, ledgerEntries) /\ IsWeight(OwnBytes, ledgerEntries)
    BY <1>1, LedgerWeights
  <1>3. Total(Waste, ledgerEntries) = Total(Waste, S) + Waste[e]
    BY <1>1, <1>2, TotalWithout
  <1>4. Total(OwnBytes, ledgerEntries) = Total(OwnBytes, S) + OwnBytes[e]
    BY <1>1, <1>2, TotalWithout
  <1>5. /\ Waste[e] = PagesFor(e.bytes) - e.bytes
        /\ OwnBytes[e] = IF e.use = "data" THEN 0 ELSE e.bytes
    BY <1>1 DEF Waste, OwnBytes
  <1>6. QED
    BY <1>1, <1>3, <1>4, <1>5

LEMMA TotalsAreIntegers ==
  ASSUME LedgerTypes
  PROVE  Total(Waste, ledgerEntries) \in Int /\ Total(OwnBytes, ledgerEntries) \in Nat
  <1>1. ledgerEntries \in SUBSET LedgerRecords /\ IsFiniteSet(ledgerEntries)
    BY DEF LedgerTypes
  <1>2. /\ IsWeight(Waste, ledgerEntries)
        /\ \A e \in ledgerEntries : OwnBytes[e] \in Nat
    BY <1>1, LedgerWeights
  <1>3. QED
    BY <1>1, <1>2, TotalIsInteger, TotalIsNatural

\* An entry of the ledger with the pages that back it, and no other change.
LEMMA AllocateEntryKeeps ==
  ASSUME LedgerInv, classification.valid, NEW use \in {"pool", "pages", "table", "data"},
         NEW bytes \in Nat, use = "data" => bytes = AccountingPage,
         TrackedAllocate(use, bytes), UNCHANGED <<classification, reservedGranules>>,
         ledgerEntries' = ledgerEntries \/ use # "data" => committedPages' = committedPages,
         ledgerEntries' # ledgerEntries /\ use = "data" =>
           \E a : a \notin committedPages /\ committedPages' = committedPages \cup {a}
  PROVE  LedgerInv'
  <1>1. CASE UNCHANGED <<ledgerEntries, physicalBytes, firmwareFree>>
    BY <1>1 DEF LedgerInv, LedgerTypes, LedgerIsCounted, FirmwareIsTracked,
                NothingBeforeTheMap, CommittedBytes
  <1> DEFINE e == [id |-> NextId, use |-> use, bytes |-> bytes]
  <1>2. CASE /\ ledgerEntries' = ledgerEntries \cup {e}
             /\ physicalBytes' = physicalBytes + bytes
             /\ firmwareFree' = firmwareFree - PagesFor(bytes)
    <2>1. LedgerTypes /\ IsFiniteSet(ledgerEntries) /\ IsFiniteSet(committedPages)
      BY DEF LedgerInv, LedgerTypes
    <2>2. NextId \in Nat /\ \A x \in ledgerEntries : x.id # NextId
      BY <2>1, NextIdIsFresh
    <2>3. e \in LedgerRecords /\ e \notin ledgerEntries /\ e.use = use /\ e.bytes = bytes
      BY <2>2 DEF LedgerRecords
    <2> HIDE DEF e
    <2>4. /\ ledgerEntries' \in SUBSET LedgerRecords /\ IsFiniteSet(ledgerEntries')
          /\ Total(Waste, ledgerEntries') =
               Total(Waste, ledgerEntries) + (PagesFor(bytes) - bytes)
          /\ Total(OwnBytes, ledgerEntries') =
               Total(OwnBytes, ledgerEntries) + (IF use = "data" THEN 0 ELSE bytes)
      BY <1>2, <2>1, <2>3, TotalsWith
    <2>5. /\ IsFiniteSet(committedPages')
          /\ CommittedBytes' = CommittedBytes + (IF use = "data" THEN bytes ELSE 0)
      <3>1. CommittedBytes \in Nat
        BY <2>1, BytesCommitted
      <3>2. CASE use = "data"
        <4>1. PICK a : a \notin committedPages /\ committedPages' = committedPages \cup {a}
          BY <3>2, <1>2, <2>3
        <4>2. QED
          BY <4>1, <3>2, <2>1, CommitOne
      <3>3. CASE use # "data"
        <4>1. committedPages' = committedPages
          BY <3>3
        <4>2. CommittedBytes' = CommittedBytes
          BY <4>1 DEF CommittedBytes
        <4>3. QED
          BY <4>1, <4>2, <3>1, <3>3, <2>1
      <3>4. QED
        BY <3>2, <3>3
    <2>6. /\ PagesFor(bytes) \in Int /\ Total(Waste, ledgerEntries) \in Int
          /\ Total(OwnBytes, ledgerEntries) \in Nat /\ CommittedBytes \in Nat
          /\ physicalBytes \in Int /\ firmwareFree \in Int
          /\ classification.conventional \in Nat
      BY <2>1, WholePages, TotalsAreIntegers, BytesCommitted DEF LedgerTypes, Classifications
    <2>7. LedgerTypes'
      BY <1>2, <2>4, <2>5, <2>6 DEF LedgerInv, LedgerTypes
    <2>8. LedgerIsCounted'
      <3>1. \A x \in ledgerEntries' : x.use = "data" => x.bytes = AccountingPage
        BY <1>2, <2>3 DEF LedgerInv, LedgerIsCounted
      <3>2. physicalBytes = Total(OwnBytes, ledgerEntries) + CommittedBytes
        BY DEF LedgerInv, LedgerIsCounted
      <3>3. physicalBytes' = Total(OwnBytes, ledgerEntries') + CommittedBytes'
        BY <3>2, <1>2, <2>4, <2>5, <2>6
      <3>4. QED
        BY <3>1, <3>3 DEF LedgerIsCounted
    <2>9. FirmwareIsTracked'
      <3>1. classification.conventional - physicalBytes
              = firmwareFree + Total(Waste, ledgerEntries)
        BY DEF LedgerInv, FirmwareIsTracked
      <3>2. classification.conventional - physicalBytes'
              = firmwareFree' + Total(Waste, ledgerEntries')
        BY <3>1, <1>2, <2>4, <2>6
      <3>3. QED
        BY <3>2 DEF FirmwareIsTracked
    <2>10. NothingBeforeTheMap'
      BY DEF NothingBeforeTheMap
    <2>11. QED
      BY <2>7, <2>8, <2>9, <2>10 DEF LedgerInv
  <1>3. QED
    BY <1>1, <1>2 DEF TrackedAllocate

\* An entry that goes, with its pages.
LEMMA FreeEntryKeeps ==
  ASSUME LedgerInv, NEW e \in ledgerEntries,
         TrackedFree(e), UNCHANGED <<classification, reservedGranules>>,
         e.use # "data" => committedPages' = committedPages,
         e.use = "data" =>
           \E a \in committedPages : committedPages' = committedPages \ {a}
  PROVE  LedgerInv'
  <1>1. /\ ledgerEntries' = ledgerEntries \ {e} /\ physicalBytes' = physicalBytes - e.bytes
        /\ firmwareFree' = firmwareFree + PagesFor(e.bytes)
    BY DEF TrackedFree
  <1>2. /\ LedgerTypes /\ IsFiniteSet(committedPages) /\ e.bytes \in Nat
        /\ e.use = "data" => e.bytes = AccountingPage
    BY DEF LedgerInv, LedgerTypes, LedgerIsCounted, LedgerRecords
  <1>3. classification.valid
    BY DEF LedgerInv, NothingBeforeTheMap
  <1>4. /\ ledgerEntries' \in SUBSET LedgerRecords /\ IsFiniteSet(ledgerEntries')
        /\ Total(Waste, ledgerEntries) =
             Total(Waste, ledgerEntries') + (PagesFor(e.bytes) - e.bytes)
        /\ Total(OwnBytes, ledgerEntries) =
             Total(OwnBytes, ledgerEntries') + (IF e.use = "data" THEN 0 ELSE e.bytes)
    BY <1>1, <1>2, TotalsWithout
  <1>5. /\ IsFiniteSet(committedPages')
        /\ CommittedBytes' = CommittedBytes - (IF e.use = "data" THEN e.bytes ELSE 0)
    <2>1. CommittedBytes \in Nat
      BY <1>2, BytesCommitted
    <2>2. CASE e.use = "data"
      <3>1. PICK a \in committedPages : committedPages' = committedPages \ {a}
        BY <2>2
      <3>2. QED
        BY <3>1, <2>2, <1>2, DecommitOne
    <2>3. CASE e.use # "data"
      <3>1. committedPages' = committedPages
        BY <2>3
      <3>2. CommittedBytes' = CommittedBytes
        BY <3>1 DEF CommittedBytes
      <3>3. QED
        BY <3>1, <3>2, <2>1, <2>3, <1>2
    <2>4. QED
      BY <2>2, <2>3
  <1>6. /\ PagesFor(e.bytes) \in Int /\ CommittedBytes \in Nat
        /\ physicalBytes \in Int /\ firmwareFree \in Int
        /\ classification.conventional \in Nat
    BY <1>2, WholePages, BytesCommitted DEF LedgerTypes, Classifications
  <1>7. LedgerTypes'
    BY <1>1, <1>2, <1>4, <1>5, <1>6 DEF LedgerTypes
  <1>8. Total(Waste, ledgerEntries') \in Int /\ Total(OwnBytes, ledgerEntries') \in Int
    <2>1. /\ IsWeight(Waste, ledgerEntries') /\ IsWeight(OwnBytes, ledgerEntries')
      BY <1>4, LedgerWeights
    <2>2. QED
      BY <2>1, <1>4, TotalIsInteger
  <1>9. LedgerIsCounted'
    <2>1. \A x \in ledgerEntries' : x.use = "data" => x.bytes = AccountingPage
      BY <1>1 DEF LedgerInv, LedgerIsCounted
    <2>2. physicalBytes = Total(OwnBytes, ledgerEntries) + CommittedBytes
      BY DEF LedgerInv, LedgerIsCounted
    <2>3. physicalBytes' = Total(OwnBytes, ledgerEntries') + CommittedBytes'
      BY <2>2, <1>1, <1>2, <1>4, <1>5, <1>6, <1>8
    <2>4. QED
      BY <2>1, <2>3 DEF LedgerIsCounted
  <1>10. FirmwareIsTracked'
    <2>1. classification.conventional - physicalBytes
            = firmwareFree + Total(Waste, ledgerEntries)
      BY <1>3 DEF LedgerInv, FirmwareIsTracked
    <2>2. classification.conventional - physicalBytes'
            = firmwareFree' + Total(Waste, ledgerEntries')
      BY <2>1, <1>1, <1>2, <1>4, <1>6, <1>8
    <2>3. QED
      BY <2>2 DEF FirmwareIsTracked
  <1>11. NothingBeforeTheMap'
    BY <1>3 DEF NothingBeforeTheMap
  <1>12. QED
    BY <1>7, <1>9, <1>10, <1>11 DEF LedgerInv

LEMMA ClassifyKeeps ==
  ASSUME LedgerInv, AcquisitionInv, Classify
  PROVE  LedgerInv'
  <1>1. reported \in Seq(Descriptors)
    BY DEF AcquisitionInv, AcquisitionTypes
  <1> DEFINE total == SumOf(reported, RamLike)
  <1> DEFINE conventional == SumOf(reported, {"conventional"})
  <1>2. total \in Nat /\ conventional \in Nat /\ conventional <= total
    BY <1>1, ConventionalIsMemory
  <1>3. /\ classification' = [valid |-> TRUE, total |-> total, conventional |-> conventional]
        /\ classification'.total # 0 /\ firmwareFree' = classification'.conventional
    BY DEF Classify
  <1> HIDE DEF total, conventional
  <1>4. /\ classification' \in Classifications /\ classification'.valid
        /\ classification'.total = total /\ classification'.conventional = conventional
    BY <1>2, <1>3 DEF Classifications
  <1>5. /\ UNCHANGED <<ledgerEntries, physicalBytes, reservedGranules, committedPages>>
        /\ ledgerEntries = {} /\ physicalBytes = 0 /\ committedPages = {}
    BY DEF Classify, arenaVars, LedgerInv, NothingBeforeTheMap
  <1>6. LedgerTypes'
    BY <1>2, <1>3, <1>4, <1>5 DEF LedgerInv, LedgerTypes
  <1>7. LedgerIsCounted' /\ NothingBeforeTheMap'
    BY <1>4, <1>5 DEF LedgerInv, LedgerIsCounted, NothingBeforeTheMap, CommittedBytes
  <1>8. FirmwareIsTracked'
    <2>1. Total(Waste, {}) = 0
      BY TotalOfEmpty
    <2>2. QED
      BY <2>1, <1>2, <1>3, <1>4, <1>5 DEF FirmwareIsTracked
  <1>9. QED
    BY <1>6, <1>7, <1>8 DEF LedgerInv

LEMMA LedgerInvStep ==
  LedgerInv /\ AcquisitionInv /\ [AccountingNext]_accountingVars => LedgerInv'
  <1> SUFFICES ASSUME LedgerInv, AcquisitionInv, [AccountingNext]_accountingVars
               PROVE  LedgerInv'
    OBVIOUS
  <1>1. ASSUME UNCHANGED <<classification, firmwareFree, ledgerEntries, physicalBytes,
                           reservedGranules, committedPages>>
        PROVE  LedgerInv'
    BY <1>1 DEF LedgerInv, LedgerTypes, LedgerIsCounted, FirmwareIsTracked,
                NothingBeforeTheMap, CommittedBytes
  <1>2. CASE \/ \E map \in FirmwareMaps, works \in BOOLEAN : QueryMapSize(map, works)
             \/ \E map \in FirmwareMaps, allocated \in BOOLEAN : Attempt(map, allocated)
             \/ AttemptOverflows \/ AttemptRefused \/ RetriesExhausted
    BY <1>1, <1>2 DEF QueryMapSize, Attempt, AttemptOverflows, AttemptRefused,
                      RetriesExhausted, arenaVars
  <1>3. CASE Classify
    BY <1>3, ClassifyKeeps
  <1>4. ASSUME NEW use \in {"pool", "pages", "table"}, NEW bytes \in Nat, Allocate(use, bytes)
        PROVE  LedgerInv'
    BY <1>4, AllocateEntryKeeps DEF Allocate, mapVars, arenaVars
  <1>5. CASE \/ \E bytes \in PoolSizes : Allocate("pool", bytes)
             \/ \E use \in {"pages", "table"} : Allocate(use, AccountingPage)
    BY <1>4, <1>5, AccountingAssumption
  <1>6. CASE \E e \in ledgerEntries : FreeEntry(e)
    <2>1. PICK e \in ledgerEntries : FreeEntry(e)
      BY <1>6
    <2>2. QED
      BY <2>1, FreeEntryKeeps DEF FreeEntry, mapVars, arenaVars
  <1>7. ASSUME NEW g \in ArenaGranules \ reservedGranules, ReserveGranule(g)
        PROVE  LedgerInv'
    BY <1>7 DEF ReserveGranule, mapVars, LedgerInv, LedgerTypes, LedgerIsCounted,
                FirmwareIsTracked, NothingBeforeTheMap, CommittedBytes
  <1>8. ASSUME NEW g \in reservedGranules, NEW a \in GranuleAddresses(g) \ committedPages,
               CommitArenaPage(a)
        PROVE  LedgerInv'
    <2>1. classification.valid
      BY <1>8 DEF LedgerInv, NothingBeforeTheMap
    <2>2. AccountingPage \in Nat /\ TrackedAllocate("data", AccountingPage)
          /\ UNCHANGED <<classification, reservedGranules>>
      BY <1>8, AccountingAssumption DEF CommitArenaPage, mapVars
    <2>3. committedPages' = IF ledgerEntries' # ledgerEntries THEN committedPages \cup {a}
                                                              ELSE committedPages
      BY <1>8 DEF CommitArenaPage
    <2>4. QED
      BY <2>1, <2>2, <2>3, AllocateEntryKeeps
  <1>9. ASSUME NEW a \in committedPages, DecommitArenaPage(a)
        PROVE  LedgerInv'
    <2>1. PICK e \in ledgerEntries : e.use = "data" /\ TrackedFree(e)
      BY <1>9 DEF DecommitArenaPage
    <2>2. committedPages' = committedPages \ {a}
          /\ UNCHANGED <<classification, reservedGranules>>
      BY <1>9 DEF DecommitArenaPage, mapVars
    <2>3. QED
      BY <2>1, <2>2, FreeEntryKeeps
  <1>10. ASSUME NEW g \in reservedGranules, ReleaseGranule(g)
         PROVE  LedgerInv'
    BY <1>10 DEF ReleaseGranule, mapVars, LedgerInv, LedgerTypes, LedgerIsCounted,
                 FirmwareIsTracked, NothingBeforeTheMap, CommittedBytes
  <1>11. CASE \E p \in StatusPointers, exact \in BOOLEAN : GlobalMemoryStatusEx(p, exact)
    BY <1>1, <1>11 DEF GlobalMemoryStatusEx, mapVars, arenaVars
  <1>12. CASE UNCHANGED accountingVars
    BY <1>1, <1>12 DEF accountingVars
  <1>13. QED
    BY <1>2, <1>3, <1>5, <1>6, <1>7, <1>8, <1>9, <1>10, <1>11, <1>12 DEF AccountingNext

LEMMA LedgerInvInitially == AccountingInit => LedgerInv
  <1> SUFFICES ASSUME AccountingInit PROVE LedgerInv
    OBVIOUS
  <1>1. /\ Total(OwnBytes, {}) = 0 /\ IsFiniteSet({}) /\ Cardinality({}) = 0
    BY TotalOfEmpty, FS_EmptySet
  <1>2. classification \in Classifications /\ ~classification.valid
        /\ classification.conventional <= classification.total
    BY DEF AccountingInit, NoClassification, Classifications
  <1>3. CommittedBytes = 0
    BY <1>1, AccountingAssumption DEF AccountingInit, CommittedBytes
  <1>4. QED
    BY <1>1, <1>2, <1>3 DEF AccountingInit, LedgerInv, LedgerTypes, LedgerIsCounted,
                            FirmwareIsTracked, NothingBeforeTheMap

\* The counters of the physical ledger are the sums over its entries, and with them
\* what the firmware has left is known, through every allocation and release
\* (memory_accounting.c).
THEOREM LedgerInvHolds == AccountingSpec => []LedgerInv
  BY LedgerInvInitially, LedgerInvStep, AcquisitionInvHolds, PTL DEF AccountingSpec

-----------------------------------------------------------------------------
(* What the memory status says.                                            *)

\* What GlobalMemoryStatusEx has written stays true of what it saw.
StatusInv == LoadIsThePercentage /\ CommitIsBacked

LEMMA SnapshotIsTruthful ==
  ASSUME LedgerInv, classification.valid, Snapshot.valid
  PROVE  /\ Snapshot.load = (100 * (Snapshot.total - Snapshot.available)) \div Snapshot.total
         /\ Snapshot.availableCommit = Snapshot.available
  <1> DEFINE total == classification.total
  <1> DEFINE available == classification.conventional - physicalBytes
  <1>1. /\ total \in Nat /\ total # 0 /\ classification.conventional \in Nat
        /\ classification.conventional <= total /\ physicalBytes \in Int
    BY DEF LedgerInv, LedgerTypes, Classifications
  <1>2. CommittedBytes \in Nat /\ CommittedBytes <= physicalBytes /\ physicalBytes \in Nat
    <2>1. LedgerTypes /\ physicalBytes = Total(OwnBytes, ledgerEntries) + CommittedBytes
      BY DEF LedgerInv, LedgerIsCounted
    <2>2. Total(OwnBytes, ledgerEntries) \in Nat /\ CommittedBytes \in Nat
      BY <2>1, TotalsAreIntegers, BytesCommitted DEF LedgerTypes
    <2>3. QED
      BY <2>1, <2>2
  <1>3. physicalBytes <= classification.conventional
    BY DEF Snapshot
  <1>4. available \in Nat /\ available + CommittedBytes <= total /\ total - available \in Nat
        /\ total - available <= total
    BY <1>1, <1>2, <1>3
  <1>5. /\ Snapshot.total = total /\ Snapshot.available = available
        /\ Snapshot.load = Percentage100(total - available, total)
        /\ Snapshot.availableCommit = CommitLimit(total, available) - CommittedBytes
    BY DEF Snapshot
  <1> HIDE DEF total, available
  <1>6. CommitLimit(total, available) = available + CommittedBytes
    BY <1>1, <1>2, <1>4 DEF CommitLimit
  <1>7. (available + CommittedBytes) - CommittedBytes = available
    BY <1>2, <1>4
  <1>8. Percentage100(total - available, total) = (100 * (total - available)) \div total
    BY <1>1, <1>4, PercentageIsExact
  <1>9. QED
    BY <1>5, <1>6, <1>7, <1>8

LEMMA StatusInvStep == StatusInv /\ LedgerInv /\ [AccountingNext]_accountingVars => StatusInv'
  <1> SUFFICES ASSUME StatusInv, LedgerInv, [AccountingNext]_accountingVars PROVE StatusInv'
    OBVIOUS
  <1>1. ASSUME status' = status PROVE StatusInv'
    BY <1>1 DEF StatusInv, LoadIsThePercentage, CommitIsBacked
  <1>2. ASSUME status' = NoStatus PROVE StatusInv'
    BY <1>2 DEF StatusInv, LoadIsThePercentage, CommitIsBacked, NoStatus
  <1>3. CASE \/ \E map \in FirmwareMaps, works \in BOOLEAN : QueryMapSize(map, works)
             \/ \E map \in FirmwareMaps, allocated \in BOOLEAN : Attempt(map, allocated)
             \/ AttemptOverflows \/ AttemptRefused \/ RetriesExhausted \/ Classify
    BY <1>1, <1>3 DEF QueryMapSize, Attempt, AttemptOverflows, AttemptRefused,
                      RetriesExhausted, Classify
  <1>4. CASE \/ \E bytes \in PoolSizes : Allocate("pool", bytes)
             \/ \E use \in {"pages", "table"} : Allocate(use, AccountingPage)
             \/ \E e \in ledgerEntries : FreeEntry(e)
    BY <1>2, <1>4 DEF Allocate, FreeEntry
  <1>5. CASE \/ \E g \in ArenaGranules \ reservedGranules : ReserveGranule(g)
             \/ \E g \in reservedGranules :
                  \E a \in GranuleAddresses(g) \ committedPages : CommitArenaPage(a)
             \/ \E a \in committedPages : DecommitArenaPage(a)
             \/ \E g \in reservedGranules : ReleaseGranule(g)
    BY <1>2, <1>5 DEF ReserveGranule, CommitArenaPage, DecommitArenaPage, ReleaseGranule
  <1>6. ASSUME NEW p \in StatusPointers, NEW exact \in BOOLEAN, GlobalMemoryStatusEx(p, exact)
        PROVE  StatusInv'
    <2>1. CASE status' = NoStatus
      BY <2>1, <1>2
    <2>2. CASE Snapshot.valid /\ status' = [written |-> TRUE, view |-> Snapshot]
      <3>1. classification.valid
        BY <1>6 DEF GlobalMemoryStatusEx
      <3>2. /\ Snapshot.load = (100 * (Snapshot.total - Snapshot.available)) \div Snapshot.total
            /\ Snapshot.availableCommit = Snapshot.available
        BY <3>1, <2>2, SnapshotIsTruthful
      <3>3. status'.view = Snapshot
        BY <2>2
      <3>4. QED
        BY <3>2, <3>3 DEF StatusInv, LoadIsThePercentage, CommitIsBacked
    <2>3. QED
      BY <1>6, <2>1, <2>2, Zenon DEF GlobalMemoryStatusEx
  <1>7. CASE UNCHANGED accountingVars
    BY <1>1, <1>7 DEF accountingVars
  <1>8. QED
    BY <1>3, <1>4, <1>5, <1>6, <1>7 DEF AccountingNext

\* GlobalMemoryStatusEx tells the truth about a firmware that it does not ask:
\* the map of the boot, less the counter of the ledger, is what the firmware has
\* left up to the rounding of the pool, the load is the exact percentage, and
\* what may still be committed is what is left.  For every map, page size,
\* ledger capacity, arena and sequence of allocations.
THEOREM MemoryStatusIsTruthful == AccountingSpec => []StatusIsTruthful
  <1>1. AccountingInit => StatusInv
    BY DEF AccountingInit, NoStatus, StatusInv, LoadIsThePercentage, CommitIsBacked
  <1>2. AccountingSpec => []StatusInv
    BY <1>1, StatusInvStep, LedgerInvHolds, PTL DEF AccountingSpec
  <1>3. LedgerInv /\ StatusInv => StatusIsTruthful
    <2> SUFFICES ASSUME LedgerInv, StatusInv PROVE StatusIsTruthful
      OBVIOUS
    <2>1. FoldSet(LAMBDA e, sum : sum + PagesFor(e.bytes) - e.bytes, 0, ledgerEntries)
            = Total(Waste, ledgerEntries)
      BY FoldOfWasteIsTotal DEF LedgerInv, LedgerTypes
    <2>2. AvailableTracksFirmware
      BY <2>1 DEF LedgerInv, FirmwareIsTracked, AvailableTracksFirmware
    <2>3. QED
      BY <2>2 DEF StatusInv, StatusIsTruthful
  <1>4. QED
    BY <1>2, <1>3, LedgerInvHolds, PTL

-----------------------------------------------------------------------------
(* The loops over years and months against the calendar's closed formula.  *)

LEMMA NextQuotient ==
  ASSUME NEW x \in Int, NEW p \in Nat \ {0}
  PROVE  x \div p = ((x - 1) \div p) + (IF x % p = 0 THEN 1 ELSE 0)
  <1> DEFINE q == (x - 1) \div p
  <1> DEFINE r == (x - 1) % p
  <1>1. q \in Int /\ r \in Nat /\ r < p /\ x - 1 = p * q + r
    BY Division
  <1> HIDE DEF q, r
  <1>2. CASE r + 1 < p
    <2>1. (p * q + (r + 1)) % p = r + 1 /\ (p * q + (r + 1)) \div p = q
      BY <1>1, <1>2, RemainderOf
    <2>2. p * q + (r + 1) = x
      BY <1>1, SMT
    <2>3. r + 1 # 0
      BY <1>1
    <2>4. QED
      BY <1>1, <2>1, <2>2, <2>3 DEF q
  <1>3. CASE r + 1 = p
    <2>1. (p * (q + 1) + 0) % p = 0 /\ (p * (q + 1) + 0) \div p = q + 1
      BY <1>1, RemainderOf
    <2>2. p * (q + 1) + 0 = x
      BY <1>1, <1>3, SMT
    <2>3. QED
      BY <2>1, <2>2 DEF q
  <1>4. QED
    BY <1>1, <1>2, <1>3

\* The leap days before the first of January of a year, since year 0.
LeapsBefore(y) == ((y - 1) \div 4) - ((y - 1) \div 100) + ((y - 1) \div 400)

LEMMA LeapsBeforeNext ==
  ASSUME NEW y \in Nat \ {0}
  PROVE  /\ LeapsBefore(y) \in Int
         /\ LeapsBefore(y + 1) = LeapsBefore(y) + (IF IsLeapYear(y) THEN 1 ELSE 0)
  <1>1. (y + 1) - 1 = y
    OBVIOUS
  <1>2. /\ y \div 4 = ((y - 1) \div 4) + (IF y % 4 = 0 THEN 1 ELSE 0)
        /\ y \div 100 = ((y - 1) \div 100) + (IF y % 100 = 0 THEN 1 ELSE 0)
        /\ y \div 400 = ((y - 1) \div 400) + (IF y % 400 = 0 THEN 1 ELSE 0)
    BY NextQuotient
  <1>3. /\ (y - 1) \div 4 \in Int /\ (y - 1) \div 100 \in Int /\ (y - 1) \div 400 \in Int
    BY Division
  <1>4. /\ y % 400 = 0 => y % 100 = 0
        /\ y % 100 = 0 => y % 4 = 0
    BY SMT
  <1> DEFINE a == (y - 1) \div 4
  <1> DEFINE b == (y - 1) \div 100
  <1> DEFINE c == (y - 1) \div 400
  <1>5. /\ LeapsBefore(y) = a - b + c
        /\ LeapsBefore(y + 1) = (a + (IF y % 4 = 0 THEN 1 ELSE 0))
                                  - (b + (IF y % 100 = 0 THEN 1 ELSE 0))
                                  + (c + (IF y % 400 = 0 THEN 1 ELSE 0))
    BY <1>1, <1>2 DEF LeapsBefore
  <1>6. a \in Int /\ b \in Int /\ c \in Int
    BY <1>3
  <1> HIDE DEF a, b, c
  <1>7. QED
    BY <1>4, <1>5, <1>6 DEF IsLeapYear

LEMMA LeapDaysAreCounted ==
  ASSUME NEW y \in MinYear .. MaxYear
  PROVE  LeapDays(y) = LeapsBefore(y) - 388
  <1> DEFINE S(n) == {x \in MinYear .. ((MinYear + n) - 1) : IsLeapYear(x)}
  <1> DEFINE G == {n \in Nat : /\ IsFiniteSet(S(n))
                               /\ Cardinality(S(n)) = LeapsBefore(MinYear + n) - 388}
  <1>1. 0 \in G
    <2>1. S(0) = {}
      BY DEF MinYear
    <2>2. IsFiniteSet(S(0)) /\ Cardinality(S(0)) = 0
      BY <2>1, FS_EmptySet
    <2>3. LeapsBefore(MinYear + 0) = 388
      <3>1. 1600 \div 4 = 400 /\ 1600 \div 100 = 16 /\ 1600 \div 400 = 4
        BY SMT
      <3>2. (MinYear + 0) - 1 = 1600
        BY DEF MinYear
      <3>3. QED
        BY <3>1, <3>2 DEF LeapsBefore
    <2> HIDE DEF S
    <2>4. QED
      BY <2>2, <2>3
  <1>2. ASSUME NEW n \in Nat, n \in G PROVE n + 1 \in G
    <2> DEFINE x == MinYear + n
    <2>1. x \in Nat \ {0} /\ MinYear + (n + 1) = x + 1
      BY DEF MinYear
    <2>2. S(n + 1) = IF IsLeapYear(x) THEN S(n) \cup {x} ELSE S(n)
      <3>1. \A z \in MinYear .. ((MinYear + (n + 1)) - 1) :
              z \in MinYear .. ((MinYear + n) - 1) \/ z = x
        BY DEF MinYear
      <3>2. /\ x \in MinYear .. ((MinYear + (n + 1)) - 1)
            /\ \A z \in MinYear .. ((MinYear + n) - 1) :
                 z \in MinYear .. ((MinYear + (n + 1)) - 1)
        BY DEF MinYear
      <3> HIDE DEF x
      <3>3. QED
        BY <3>1, <3>2
    <2>3. x \notin S(n)
      BY DEF MinYear
    <2>4. IsFiniteSet(S(n)) /\ Cardinality(S(n)) = LeapsBefore(x) - 388
      BY <1>2
    <2>5. /\ LeapsBefore(x) \in Int
          /\ LeapsBefore(x + 1) = LeapsBefore(x) + (IF IsLeapYear(x) THEN 1 ELSE 0)
      BY <2>1, LeapsBeforeNext
    <2> HIDE DEF S, x
    <2>6. /\ IsFiniteSet(S(n + 1))
          /\ Cardinality(S(n + 1)) = Cardinality(S(n)) + (IF IsLeapYear(x) THEN 1 ELSE 0)
      <3>1. IsFiniteSet(S(n) \cup {x}) /\ Cardinality(S(n) \cup {x}) = Cardinality(S(n)) + 1
        BY <2>3, <2>4, FS_AddElement
      <3>2. Cardinality(S(n)) \in Nat
        BY <2>4, FS_CardinalityType
      <3>3. QED
        BY <3>1, <3>2, <2>2, <2>4
    <2>7. Cardinality(S(n + 1)) = LeapsBefore(MinYear + (n + 1)) - 388
      BY <2>1, <2>4, <2>5, <2>6
    <2>8. QED
      BY <2>6, <2>7
  <1>3. y - MinYear \in Nat /\ MinYear + (y - MinYear) = y
    BY DEF MinYear, MaxYear
  <1>4. y - MinYear \in G
    <2> HIDE DEF G
    <2>1. \A i \in 0 .. (y - MinYear) : i \in G
      BY <1>1, <1>2, <1>3, NumberInduction
    <2>2. QED
      BY <1>3, <2>1
  <1>5. S(y - MinYear) = {x \in MinYear .. (y - 1) : IsLeapYear(x)}
    BY <1>3
  <1>6. QED
    BY <1>3, <1>4, <1>5 DEF LeapDays

\* The loop over the months, as the function it tabulates.
MonthStep(g, y, m) == IF m = 1 THEN 0 ELSE g[m - 1] + DaysInMonth(y, m - 1)
MonthSteps(g, y) == g = [m \in 1 .. 12 |-> MonthStep(g, y, m)]

\* The days before each month: the first two, and 28 or 29 more after those.
DaysBefore(y, m) ==
  LET f == IF IsLeapYear(y) THEN 29 ELSE 28
  IN IF m = 1 THEN 0 ELSE IF m = 2 THEN 31 ELSE IF m = 3 THEN 31 + f
     ELSE IF m = 4 THEN 62 + f ELSE IF m = 5 THEN 92 + f ELSE IF m = 6 THEN 123 + f
     ELSE IF m = 7 THEN 153 + f ELSE IF m = 8 THEN 184 + f ELSE IF m = 9 THEN 215 + f
     ELSE IF m = 10 THEN 245 + f ELSE IF m = 11 THEN 276 + f ELSE 306 + f

LEMMA DaysBeforeNext ==
  ASSUME NEW y, NEW m \in 1 .. 12, m # 1
  PROVE  DaysBefore(y, m) = DaysBefore(y, m - 1) + DaysInMonth(y, m - 1)
  <1>1. m \in {2, 3, 4, 5, 6, 7, 8, 9, 10, 11, 12}
    OBVIOUS
  <1>2. CASE IsLeapYear(y)
    BY <1>1, <1>2 DEF DaysBefore, DaysInMonth
  <1>3. CASE ~IsLeapYear(y)
    BY <1>1, <1>3 DEF DaysBefore, DaysInMonth
  <1>4. QED
    BY <1>2, <1>3

LEMMA MonthStepsAre ==
  ASSUME NEW y
  PROVE  /\ \E g : MonthSteps(g, y)
         /\ \A g : MonthSteps(g, y) => \A m \in 1 .. 12 : g[m] = DaysBefore(y, m)
  <1> DEFINE b == [m \in 1 .. 12 |-> DaysBefore(y, m)]
  <1>1. \A m \in 1 .. 12 : b[m] = DaysBefore(y, m)
    OBVIOUS
  <1>2. DaysBefore(y, 1) = 0
    BY DEF DaysBefore
  <1>3. MonthSteps(b, y)
    <2>1. ASSUME NEW m \in 1 .. 12 PROVE DaysBefore(y, m) = MonthStep(b, y, m)
      <3>1. CASE m = 1
        BY <3>1, <1>2 DEF MonthStep
      <3>2. CASE m # 1
        <4>1. b[m - 1] = DaysBefore(y, m - 1)
          BY <3>2
        <4> HIDE DEF b
        <4>2. QED
          BY <4>1, <3>2, DaysBeforeNext DEF MonthStep
      <3>3. QED
        BY <3>1, <3>2
    <2>2. QED
      BY <2>1 DEF MonthSteps
  <1>4. ASSUME NEW g, MonthSteps(g, y), NEW m \in 1 .. 12 PROVE g[m] = DaysBefore(y, m)
    <2>1. \A i \in 1 .. 12 : g[i] = MonthStep(g, y, i)
      BY <1>4 DEF MonthSteps
    <2> DEFINE G == {i \in 0 .. 11 : g[i + 1] = DaysBefore(y, i + 1)}
    <2>2. 0 \in G
      <3>1. g[1] = 0
        BY <2>1 DEF MonthStep
      <3>2. QED
        BY <3>1, <1>2
    <2>3. ASSUME NEW i \in 0 .. (11 - 1), i \in G PROVE i + 1 \in G
      <3>1. (i + 1) + 1 \in 1 .. 12 /\ ((i + 1) + 1) - 1 = i + 1 /\ (i + 1) + 1 # 1
            /\ i + 1 \in 0 .. 11
        OBVIOUS
      <3>2. g[(i + 1) + 1] = g[i + 1] + DaysInMonth(y, i + 1)
        BY <2>1, <3>1 DEF MonthStep
      <3>3. DaysBefore(y, (i + 1) + 1) = DaysBefore(y, i + 1) + DaysInMonth(y, i + 1)
        BY <3>1, DaysBeforeNext
      <3>4. QED
        BY <2>3, <3>1, <3>2, <3>3
    <2>4. \A i \in 0 .. 11 : i \in G
      <3> HIDE DEF G
      <3>1. QED
        BY <2>2, <2>3, NumberInduction
    <2>5. m - 1 \in 0 .. 11 /\ (m - 1) + 1 = m
      OBVIOUS
    <2>6. m - 1 \in G
      BY <2>4, <2>5
    <2>7. QED
      BY <2>5, <2>6
  <1> HIDE DEF b
  <1>5. QED
    BY <1>3, <1>4

LEMMA DaysByLoops ==
  ASSUME NEW d, d.month \in 1 .. 12
  PROVE  DaysSinceEpoch(d) =
           365 * (d.year - MinYear) + LeapDays(d.year) + DaysBefore(d.year, d.month) + d.day - 1
  <1> DEFINE g == CHOOSE g : MonthSteps(g, d.year)
  <1>1. MonthSteps(g, d.year)
    BY MonthStepsAre
  <1>2. DaysSinceEpoch(d) =
          365 * (d.year - MinYear) + LeapDays(d.year) + g[d.month] + d.day - 1
    BY Zenon DEF DaysSinceEpoch, MonthSteps, MonthStep
  <1> HIDE DEF g
  <1>3. g[d.month] = DaysBefore(d.year, d.month)
    BY <1>1, MonthStepsAre
  <1>4. QED
    BY <1>2, <1>3

\* The closed formula, with the part of the months looked up.
LEMMA MonthPart ==
  ASSUME NEW month \in 1 .. 12
  PROVE  LET m == (month + 9) % 12
         IN (153 * m + 2) \div 5 =
              IF month = 1 THEN 306 ELSE IF month = 2 THEN 337 ELSE DaysBefore(1, month) - 59
  <1>1. month \in {1, 2, 3, 4, 5, 6, 7, 8, 9, 10, 11, 12}
    OBVIOUS
  <1>2. ~IsLeapYear(1)
    BY SMT DEF IsLeapYear
  <1>3. QED
    BY <1>1, <1>2, SMT DEF DaysBefore

LEMMA LeapShift ==
  ASSUME NEW y, NEW m \in 3 .. 12
  PROVE  DaysBefore(y, m) = DaysBefore(1, m) + (IF IsLeapYear(y) THEN 1 ELSE 0)
         /\ DaysBefore(1, m) \in Int
  <1>1. ~IsLeapYear(1)
    BY SMT DEF IsLeapYear
  <1>2. CASE IsLeapYear(y)
    BY <1>1, <1>2 DEF DaysBefore
  <1>3. CASE ~IsLeapYear(y)
    BY <1>1, <1>3 DEF DaysBefore
  <1>4. QED
    BY <1>2, <1>3

\* gxos_days_since_epoch computes the day number of the Gregorian calendar.
LEMMA DaysAreTheDayNumber ==
  ASSUME NEW d, d.year \in MinYear .. MaxYear, d.month \in 1 .. 12, d.day \in Int
  PROVE  DaysSinceEpoch(d) = DayNumber(d) /\ DayNumber(d) \in Int
  <1> DEFINE y == d.year
  <1> DEFINE k == (153 * ((d.month + 9) % 12) + 2) \div 5
  <1> DEFINE L == LeapsBefore(y)
  <1> DEFINE leap == IF IsLeapYear(y) THEN 1 ELSE 0
  <1>1. y \in Nat \ {0} /\ y - 1 \in Int
    <2>1. MinYear \in Nat \ {0} /\ MaxYear \in Nat
      BY DEF MinYear, MaxYear
    <2>2. y \in MinYear .. MaxYear
      OBVIOUS
    <2> HIDE DEF y
    <2>3. QED
      BY <2>1, <2>2
  <1>2. LeapDays(y) = L - 388 /\ L \in Int /\ LeapsBefore(y + 1) = L + leap
    BY <1>1, LeapDaysAreCounted, LeapsBeforeNext
  <1>3. DaysSinceEpoch(d) =
          365 * (y - 1601) + (L - 388) + DaysBefore(y, d.month) + d.day - 1
    BY <1>2, DaysByLoops DEF MinYear
  <1>4. k = IF d.month = 1 THEN 306 ELSE IF d.month = 2 THEN 337
            ELSE DaysBefore(1, d.month) - 59
    BY MonthPart
  <1>5. leap \in Int
    OBVIOUS
  <1>6. CASE d.month <= 2
    <2>1. DayNumber(d) =
            (365 * (y - 1) + ((y - 1) \div 4) - ((y - 1) \div 100) + ((y - 1) \div 400) + k
               + d.day - 1) - 584694
      BY <1>6, SMT DEF DayNumber
    <2>2. /\ (y - 1) \div 4 \in Int /\ (y - 1) \div 100 \in Int /\ (y - 1) \div 400 \in Int
      BY <1>1, Division
    <2>3. L = ((y - 1) \div 4) - ((y - 1) \div 100) + ((y - 1) \div 400)
      BY DEF LeapsBefore
    <2>4. DaysBefore(y, d.month) = k - 306 /\ k \in Int
      BY <1>4, <1>6 DEF DaysBefore
    <2> HIDE DEF y, k, L
    <2>5. QED
      BY <1>1, <1>2, <1>3, <2>1, <2>2, <2>3, <2>4, SMT
  <1>7. CASE ~(d.month <= 2)
    <2>1. DayNumber(d) =
            (365 * y + (y \div 4) - (y \div 100) + (y \div 400) + k + d.day - 1) - 584694
      BY <1>7, SMT DEF DayNumber
    <2>2. y \div 4 \in Int /\ y \div 100 \in Int /\ y \div 400 \in Int
      BY <1>1, Division
    <2>3. L + leap = (y \div 4) - (y \div 100) + (y \div 400)
      <3>1. (y + 1) - 1 = y
        BY <1>1
      <3>2. QED
        BY <1>2, <3>1 DEF LeapsBefore
    <2>4. d.month \in 3 .. 12
      BY <1>7
    <2>5. DaysBefore(y, d.month) = k + 59 + leap /\ k \in Int
      <3>1. /\ DaysBefore(y, d.month) = DaysBefore(1, d.month) + leap
            /\ DaysBefore(1, d.month) \in Int
        BY <2>4, LeapShift
      <3>2. k = DaysBefore(1, d.month) - 59
        BY <1>4, <1>7
      <3> HIDE DEF k, leap
      <3>3. QED
        BY <3>1, <3>2, <1>5
    <2> HIDE DEF y, k, L, leap
    <2>6. QED
      BY <1>1, <1>2, <1>3, <1>5, <2>1, <2>2, <2>3, <2>5, SMT
  <1>8. QED
    BY <1>6, <1>7

LEMMA FiletimeIsExact ==
  ASSUME NEW d, NEW second, NEW zone, NEW daylight,
         FiletimeOf(d, second, zone, daylight) # None
  PROVE  /\ zone \in -MaxZone .. MaxZone
         /\ FiletimeOf(d, second, zone, daylight) =
              (DayNumber(d) * SecondsPerDay + second + zone) * UnitsPerSecond
  <1> DEFINE seconds == DaysSinceEpoch(d) * SecondsPerDay + second + zone
  <1>1. /\ IsCivil(d, second) /\ zone \in -MaxZone .. MaxZone
        /\ FiletimeOf(d, second, zone, daylight) = seconds * UnitsPerSecond
    BY Zenon DEF FiletimeOf
  <1>2. d.year \in MinYear .. MaxYear /\ d.month \in 1 .. 12
        /\ d.day \in 1 .. DaysInMonth(d.year, d.month)
    BY <1>1 DEF IsCivil
  <1>3. d.day \in Int
    BY <1>2
  <1>4. DaysSinceEpoch(d) = DayNumber(d)
    BY <1>2, <1>3, DaysAreTheDayNumber
  <1>5. QED
    BY <1>1, <1>4

LEMMA FiletimeInvStep ==
  FiletimeIsTheInstant /\ [CalendarNext \/ CounterNext]_timeVars => FiletimeIsTheInstant'
  <1> SUFFICES ASSUME FiletimeIsTheInstant, [CalendarNext \/ CounterNext]_timeVars
               PROVE  FiletimeIsTheInstant'
    OBVIOUS
  <1>1. ASSUME UNCHANGED calendarVars PROVE FiletimeIsTheInstant'
    BY <1>1 DEF calendarVars, FiletimeIsTheInstant
  <1>2. ASSUME NEW d \in Dates, NEW s \in FirmwareSeconds, NEW z \in Zones,
               NEW daylight \in BOOLEAN, NEW result,
               NEW zone, zone = z \/ (zone = 0 /\ z = UnspecifiedZone),
               result = None \/ result = FiletimeOf(d, s, zone, daylight),
               instant' = InstantOf(d, s, z), result # None
        PROVE  result = instant' * UnitsPerSecond
    <2>1. /\ zone \in -MaxZone .. MaxZone
          /\ result = (DayNumber(d) * SecondsPerDay + s + zone) * UnitsPerSecond
      BY <1>2, FiletimeIsExact
    <2>2. zone = IF z = UnspecifiedZone THEN 0 ELSE z
      <3>1. zone # UnspecifiedZone \/ zone = 0
        BY <2>1, TimeAssumption
      <3>2. UnspecifiedZone # 0
        BY TimeAssumption
      <3>3. QED
        BY <3>1, <3>2, <1>2
    <2>3. instant' = DayNumber(d) * SecondsPerDay + s + zone
      BY <1>2, <2>2, Zenon DEF InstantOf
    <2>4. QED
      BY <2>1, <2>3
  <1>3. ASSUME NEW d \in Dates, NEW s \in FirmwareSeconds, NEW z \in Zones,
               NEW daylight \in BOOLEAN, NEW stat \in BOOLEAN,
               GetSystemTimeAsFileTime(d, s, z, daylight, stat)
        PROVE  FiletimeIsTheInstant'
    <2> DEFINE zone == IF z = UnspecifiedZone /\ UnspecifiedIsUtc THEN 0 ELSE z
    <2>1. /\ filetime' = None \/ filetime' = FiletimeOf(d, s, zone, daylight)
          /\ nowMs' = None /\ instant' = InstantOf(d, s, z)
      BY <1>3, Zenon DEF GetSystemTimeAsFileTime
    <2>2. zone = z \/ (zone = 0 /\ z = UnspecifiedZone)
      OBVIOUS
    <2> HIDE DEF zone
    <2>3. filetime' # None => filetime' = instant' * UnitsPerSecond
      BY <2>1, <2>2, <1>2
    <2>4. QED
      BY <2>1, <2>3 DEF FiletimeIsTheInstant
  <1>4. ASSUME NEW d \in Dates, NEW s \in FirmwareSeconds, NEW z \in Zones,
               NEW daylight \in BOOLEAN, NEW stat \in BOOLEAN,
               SchedulerNow(d, s, z, daylight, stat)
        PROVE  FiletimeIsTheInstant'
    <2> DEFINE zone == IF z = UnspecifiedZone THEN 0 ELSE z
    <2> DEFINE result == FiletimeOf(d, s, zone, daylight)
    <2>1. /\ nowMs' = None \/ (result # None /\ nowMs' = result \div UnitsPerMillisecond)
          /\ filetime' = None /\ instant' = InstantOf(d, s, z)
      BY <1>4, Zenon DEF SchedulerNow
    <2>2. zone = z \/ (zone = 0 /\ z = UnspecifiedZone)
      OBVIOUS
    <2> HIDE DEF zone
    <2>3. result # None => result = instant' * UnitsPerSecond
      BY <2>1, <2>2, <1>2
    <2> HIDE DEF result
    <2>4. QED
      BY <2>1, <2>3 DEF FiletimeIsTheInstant
  <1>5. CASE GetTickCount64
    BY <1>1, <1>5 DEF GetTickCount64
  <1>6. CASE CounterNext
    BY <1>1, <1>6 DEF CounterNext, PerfConfigure, Tick, QueryPerformanceCounter
  <1>7. CASE UNCHANGED timeVars
    BY <1>1, <1>7 DEF timeVars
  <1>8. QED
    BY <1>3, <1>4, <1>5, <1>6, <1>7 DEF CalendarNext

\* Whatever date, second and zone the firmware shows, the file time that
\* gxos_get_system_time_as_file_time answers is that instant by the closed
\* formula of the Gregorian calendar, and the clock of the deadlines
\* (scheduler_now_ms) shows the same one.
THEOREM CalendarIsExact == TimeSpec => []FiletimeIsTheInstant
  <1>1. TimeInit => FiletimeIsTheInstant
    BY DEF TimeInit, FiletimeIsTheInstant
  <1>2. QED
    BY <1>1, FiletimeInvStep, PTL DEF TimeSpec
===============================================================================
