----------------------------- MODULE FiniteFolds -----------------------------
(***************************************************************************)
(* Induction, folds, sums, walks and sequences, for the proofs about       *)
(* several components.  The library's induction theorems take a predicate  *)
(* as a parameter; here a property is the set of those that have it, and   *)
(* an induction is the choice of a least one that has not.  The sums are   *)
(* those of SumFunctionOnSet.                                              *)
(***************************************************************************)
EXTENDS Integers, SequencesExt, FiniteSetTheorems, SequenceTheorems, TLAPS

-----------------------------------------------------------------------------
(* Induction                                                               *)

\* A set of naturals has a least element.
LEMMA LeastNatural ==
    ASSUME NEW S \in SUBSET Nat, S # {}
    PROVE  \E m \in S : \A k \in S : m <= k
<1> DEFINE R == {ss \in Nat \X Nat : ss[1] < ss[2]}
<1>1. IsWellFoundedOn(R, Nat)
  BY NatLessThanWellFounded DEF OpToRel
<1>2. \A k, m \in Nat : <<k, m>> \in R <=> k < m
  OBVIOUS
<1> HIDE DEF R
<1>3. PICK m \in S : \A k \in S : <<k, m>> \notin R
  BY <1>1, WFMin
<1>4. ASSUME NEW k \in S PROVE m <= k
  <2>1. k \in Nat /\ m \in Nat /\ ~(k < m)
    BY <1>2, <1>3
  <2> QED BY <2>1
<1> QED BY <1>4

\* A set of naturals with a bound has a greatest element.
LEMMA GreatestNatural ==
    ASSUME NEW n \in Nat, NEW S \in SUBSET (0..n), S # {}
    PROVE  \E m \in S : \A k \in S : k <= m
<1> DEFINE B == {k \in Nat : \A x \in S : x <= k}
<1>1. n \in B
  OBVIOUS
<1>2. PICK m \in B : \A k \in B : m <= k
  <2>1. B \in SUBSET Nat /\ B # {}
    BY <1>1
  <2> HIDE DEF B
  <2> QED BY <2>1, LeastNatural
<1>3. m \in S
  <2> SUFFICES ASSUME m \notin S PROVE FALSE
    OBVIOUS
  <2>1. \A x \in S : x \in Nat /\ x <= m /\ x # m
    BY <1>2
  <2>2. m - 1 \in Nat /\ \A x \in S : x <= m - 1
    <3>1. m \in Nat /\ m # 0
      <4>1. PICK x \in S : TRUE
        OBVIOUS
      <4> QED BY <1>2, <2>1, <4>1
    <3> QED BY <2>1, <3>1
  <2>3. m - 1 \in B
    BY <2>2
  <2> QED BY <1>2, <2>3
<1> QED BY <1>2, <1>3

\* Induction over the naturals, for a set.
LEMMA NaturalInduction ==
    ASSUME NEW S, 0 \in S, \A n \in Nat : n \in S => n + 1 \in S
    PROVE  Nat \subseteq S
<1> SUFFICES ASSUME NEW x \in Nat \ S PROVE FALSE
  OBVIOUS
<1>1. PICK m \in Nat \ S : \A k \in Nat \ S : m <= k
  BY LeastNatural
<1>2. m # 0 /\ m - 1 \in Nat
  BY <1>1
<1>3. m - 1 \in S
  BY <1>1, <1>2
<1> QED BY <1>1, <1>2, <1>3

\* A family of finite sets has a member no part of which belongs to it.
LEMMA LeastSet ==
    ASSUME NEW F, F # {}, \A T \in F : IsFiniteSet(T)
    PROVE  \E T \in F : \A U \in F : U \subseteq T => U = T
<1> DEFINE A == UNION F
           R == StrictSubsetOrdering(A)
<1>1. IsWellFoundedOn(R, FiniteSubsetsOf(A))
  BY FS_StrictSubsetOrderingWellFounded
<1>2. F \subseteq FiniteSubsetsOf(A)
  BY DEF FiniteSubsetsOf
<1>3. PICK T \in F : \A U \in F : <<U, T>> \notin R
  <2> HIDE DEF R
  <2> QED BY <1>1, <1>2, WFMin
<1>4. ASSUME NEW U \in F, U \subseteq T PROVE U = T
  BY <1>3, <1>4 DEF StrictSubsetOrdering
<1> QED BY <1>4

\* Induction over the subsets of a finite set: elements are added one at a time.
LEMMA FiniteInduction ==
    ASSUME NEW S, IsFiniteSet(S), NEW Good, {} \in Good,
           \A T \in SUBSET S : \A x \in S \ T : T \in Good => T \union {x} \in Good
    PROVE  S \in Good
<1> SUFFICES ASSUME S \notin Good PROVE FALSE
  OBVIOUS
<1> DEFINE Bad == {T \in SUBSET S : T \notin Good}
<1>1. Bad # {} /\ \A T \in Bad : IsFiniteSet(T)
  BY FS_Subset
<1>2. PICK T \in Bad : \A U \in Bad : U \subseteq T => U = T
  <2> HIDE DEF Bad
  <2> QED BY <1>1, LeastSet
<1>3. PICK x \in T : TRUE
  BY <1>2
<1>4. T \ {x} \in Good
  BY <1>2
<1>5. T = (T \ {x}) \union {x}
  OBVIOUS
<1> QED BY <1>2, <1>4, <1>5

\* The function of B into itself that is iterated k times.
IsIteration(f, B, base, step, k) ==
    f \in [0..k -> B] /\ f[0] = base /\ \A i \in 1..k : f[i] = step[f[i - 1]]

\* It can be iterated any number of times.
LEMMA IterationExists ==
    ASSUME NEW B, NEW base \in B, NEW step \in [B -> B], NEW n \in Nat
    PROVE  \E f : IsIteration(f, B, base, step, n)
<1> DEFINE Iterates(f, k) == IsIteration(f, B, base, step, k)
           Good == {k \in Nat : \E f : Iterates(f, k)}
<1>1. 0 \in Good
  <2>1. Iterates([i \in 0..0 |-> base], 0)
    BY DEF IsIteration
  <2> HIDE DEF Iterates
  <2> QED BY <2>1
<1>2. ASSUME NEW k \in Nat, k \in Good PROVE k + 1 \in Good
  <2>1. PICK f : f \in [0..k -> B] /\ f[0] = base /\ \A i \in 1..k : f[i] = step[f[i - 1]]
    BY <1>2 DEF IsIteration
  <2> DEFINE g == [i \in 0..(k + 1) |-> IF i <= k THEN f[i] ELSE step[f[k]]]
  <2>2. g \in [0..(k + 1) -> B]
    <3>1. \A i \in 0..(k + 1) : i <= k => i \in 0..k
      OBVIOUS
    <3>2. k \in 0..k
      OBVIOUS
    <3> QED BY <2>1, <3>1, <3>2
  <2>3. g[0] = base
    BY <2>1
  <2>4. ASSUME NEW i \in 1..(k + 1) PROVE g[i] = step[g[i - 1]]
    <3>1. i - 1 \in 0..k /\ i - 1 \in 0..(k + 1) /\ i \in 0..(k + 1)
      OBVIOUS
    <3>2. g[i - 1] = f[i - 1]
      BY <3>1
    <3>3. CASE i <= k
      <4>1. i \in 1..k
        BY <3>3
      <4>2. f[i] = step[f[i - 1]]
        BY <2>1, <4>1
      <4>3. g[i] = f[i]
        BY <3>1, <3>3
      <4> QED BY <3>2, <4>2, <4>3
    <3>4. CASE ~(i <= k)
      <4>1. i - 1 = k
        BY <3>4
      <4>2. g[i] = step[f[k]]
        BY <3>1, <3>4
      <4> QED BY <3>2, <4>1, <4>2
    <3> QED BY <3>3, <3>4
  <2>5. Iterates(g, k + 1)
    <3> HIDE DEF g
    <3> QED BY <2>2, <2>3, <2>4 DEF IsIteration
  <2> HIDE DEF Iterates
  <2> QED BY <2>5
<1>3. n \in Good
  <2> HIDE DEF Good
  <2> QED BY <1>1, <1>2, NaturalInduction
<1> QED BY <1>3

\* Numbers given to finitely many elements have a bound.
LEMMA RanksBounded ==
    ASSUME NEW D, IsFiniteSet(D), NEW rank \in [D -> Nat]
    PROVE  \E n \in Nat : \A x \in D : rank[x] < n
<1> DEFINE Bounded(T, n) == \A x \in T : rank[x] < n
           Good == {T \in SUBSET D : \E n \in Nat : Bounded(T, n)}
<1>1. {} \in Good
  <2>1. Bounded({}, 0)
    OBVIOUS
  <2> HIDE DEF Bounded
  <2> QED BY <2>1
<1>2. ASSUME NEW T \in SUBSET D, NEW x \in D \ T, T \in Good PROVE T \union {x} \in Good
  <2>1. PICK n \in Nat : Bounded(T, n)
    BY <1>2
  <2>2. rank[x] \in Nat /\ \A y \in T : rank[y] \in Nat
    OBVIOUS
  <2>3. PICK k \in Nat : n <= k /\ rank[x] < k
    <3>1. CASE n > rank[x]
      BY <3>1
    <3>2. CASE ~(n > rank[x])
      <4>1. rank[x] + 1 \in Nat /\ n <= rank[x] + 1 /\ rank[x] < rank[x] + 1
        BY <2>2, <3>2
      <4> QED BY <4>1
    <3> QED BY <3>1, <3>2
  <2>4. Bounded(T \union {x}, k)
    <3> SUFFICES ASSUME NEW y \in T \union {x} PROVE rank[y] < k
      OBVIOUS
    <3>1. CASE y \in T
      <4>1. rank[y] < n
        BY <2>1, <3>1
      <4> QED BY <2>2, <2>3, <3>1, <4>1
    <3> QED BY <2>3, <3>1
  <2> HIDE DEF Bounded
  <2> QED BY <2>4
<1>3. D \in Good
  <2> HIDE DEF Good
  <2> QED BY <1>1, <1>2, FiniteInduction
<1> QED BY <1>3

\* Induction over the rank of the elements of a set.
LEMMA RankInduction ==
    ASSUME NEW D, NEW rank \in [D -> Nat], NEW Good,
           \A m \in D : (\A x \in D : rank[x] < rank[m] => x \in Good) => m \in Good
    PROVE  D \subseteq Good
<1> SUFFICES ASSUME NEW y \in D \ Good PROVE FALSE
  OBVIOUS
<1> DEFINE Ranks == {rank[x] : x \in D \ Good}
<1>1. Ranks \in SUBSET Nat /\ Ranks # {}
  OBVIOUS
<1>2. PICK k \in Ranks : \A i \in Ranks : k <= i
  <2> HIDE DEF Ranks
  <2> QED BY <1>1, LeastNatural
<1>3. PICK m \in D \ Good : rank[m] = k
  BY <1>2
<1>4. ASSUME NEW x \in D, rank[x] < rank[m] PROVE x \in Good
  <2> SUFFICES ASSUME x \notin Good PROVE FALSE
    OBVIOUS
  <2>1. rank[x] \in Ranks /\ rank[x] \in Nat /\ rank[m] \in Nat
    OBVIOUS
  <2>2. rank[m] <= rank[x]
    BY <1>2, <1>3, <2>1
  <2> QED BY <1>4, <2>1, <2>2
<1> QED BY <1>3, <1>4

\* Some element of a set has the greatest rank.
LEMMA GreatestRank ==
    ASSUME NEW D, IsFiniteSet(D), NEW rank \in [D -> Nat], NEW S \in SUBSET D, S # {}
    PROVE  \E m \in S : \A x \in S : rank[x] <= rank[m]
<1>1. PICK n \in Nat : \A x \in D : rank[x] < n
  BY RanksBounded
<1> DEFINE Ranks == {rank[x] : x \in S}
<1>2. Ranks \in SUBSET (0..n) /\ Ranks # {}
  <2>1. \A x \in S : rank[x] \in Nat /\ rank[x] < n
    BY <1>1
  <2> QED BY <2>1
<1>3. PICK k \in Ranks : \A i \in Ranks : i <= k
  <2> HIDE DEF Ranks
  <2> QED BY <1>2, GreatestNatural
<1> QED BY <1>3

\* A step that computes a value from those of elements of a lower rank.
IsRankedStep(step, D, rank, B) ==
    /\ step \in [D \X [D -> B] -> B]
    /\ \A m \in D : \A f, g \in [D -> B] :
         (\A x \in D : rank[x] < rank[m] => f[x] = g[x]) => step[<<m, f>>] = step[<<m, g>>]

\* The function whose value at m is one such step.
IsRecursive(f, D, B, step) == f \in [D -> B] /\ \A m \in D : f[m] = step[<<m, f>>]

\* A function that is recursive in elements of a lower rank exists.
LEMMA RankedRecursion ==
    ASSUME NEW D, IsFiniteSet(D), NEW rank \in [D -> Nat], NEW B, B # {},
           NEW step, IsRankedStep(step, D, rank, B)
    PROVE  \E f : IsRecursive(f, D, B, step)
<1> USE DEF IsRankedStep
<1> PICK b \in B : TRUE
  OBVIOUS
<1> DEFINE F == [D -> B]
           all == [f \in F |-> [m \in D |-> step[<<m, f>>]]]
           Agree(f, k) == \A x \in D : rank[x] < k => f[x] = step[<<x, f>>]
           Good == {k \in Nat : \E f \in F : Agree(f, k)}
<1>1. 0 \in Good
  <2> DEFINE base == [m \in D |-> b]
  <2>1. base \in F
    OBVIOUS
  <2>2. Agree(base, 0)
    <3>1. \A x \in D : rank[x] \in Nat /\ ~(rank[x] < 0)
      OBVIOUS
    <3> QED BY <3>1
  <2> HIDE DEF F, Agree, base
  <2> QED BY <2>1, <2>2
<1>2. ASSUME NEW k \in Nat, k \in Good PROVE k + 1 \in Good
  <2>1. PICK f \in F : Agree(f, k)
    BY <1>2
  <2> DEFINE g == [m \in D |-> step[<<m, f>>]]
  <2>2. g \in F
    OBVIOUS
  <2>3. Agree(g, k + 1)
    <3> SUFFICES ASSUME NEW x \in D, rank[x] < k + 1 PROVE g[x] = step[<<x, g>>]
      OBVIOUS
    <3>1. ASSUME NEW y \in D, rank[y] < rank[x] PROVE f[y] = g[y]
      <4>1. rank[y] \in Nat /\ rank[x] \in Nat
        OBVIOUS
      <4>2. rank[y] < k
        BY <3>1, <4>1
      <4> QED BY <2>1, <4>2
    <3>2. step[<<x, f>>] = step[<<x, g>>]
      <4> HIDE DEF g
      <4> QED BY <2>2, <3>1
    <3> QED BY <3>2
  <2> HIDE DEF F, Agree, g
  <2> QED BY <2>2, <2>3
<1>3. Nat \subseteq Good
  <2> HIDE DEF Good
  <2> QED BY <1>1, <1>2, NaturalInduction
<1>4. PICK n \in Nat : \A x \in D : rank[x] < n
  BY RanksBounded
<1>5. PICK f \in F : Agree(f, n)
  BY <1>3
<1>6. IsRecursive(f, D, B, step)
  BY <1>4, <1>5 DEF IsRecursive
<1> QED BY <1>6

-----------------------------------------------------------------------------
(* Folds                                                                   *)

\* A recursion over the subsets of S: pick chooses the element that is folded last.
IsFold(g, base, step, f, pick, S) ==
    g = [s \in SUBSET S |-> IF s = {} THEN base ELSE step[<<f[pick[s]], g[s \ {pick[s]}]>>]]
Picks(pick, S) == \A s \in SUBSET S : s # {} => pick[s] \in s

\* Two solutions of the recursion agree where both are defined.
LEMMA FoldUnique ==
    ASSUME NEW base, NEW step, NEW f, NEW pick,
           NEW S, IsFiniteSet(S), Picks(pick, S), NEW U, NEW g, NEW h,
           IsFold(g, base, step, f, pick, S), IsFold(h, base, step, f, pick, U)
    PROVE  \A s \in SUBSET (S \intersect U) : g[s] = h[s]
<1> SUFFICES ASSUME \E s \in SUBSET (S \intersect U) : g[s] # h[s] PROVE FALSE
  OBVIOUS
<1> DEFINE Bad == {s \in SUBSET (S \intersect U) : g[s] # h[s]}
<1>1. Bad # {} /\ \A s \in Bad : IsFiniteSet(s)
  BY FS_Subset
<1>2. PICK s \in Bad : \A t \in Bad : t \subseteq s => t = s
  <2> HIDE DEF Bad
  <2> QED BY <1>1, LeastSet
<1>3. /\ g[s] = IF s = {} THEN base ELSE step[<<f[pick[s]], g[s \ {pick[s]}]>>]
      /\ h[s] = IF s = {} THEN base ELSE step[<<f[pick[s]], h[s \ {pick[s]}]>>]
  BY <1>2 DEF IsFold
<1>4. s # {} /\ pick[s] \in s
  BY <1>2, <1>3 DEF Picks
<1>5. g[s \ {pick[s]}] = h[s \ {pick[s]}]
  BY <1>2, <1>4
<1> QED BY <1>2, <1>3, <1>4, <1>5

\* The recursion has a solution.
LEMMA FoldExists ==
    ASSUME NEW base, NEW step, NEW f, NEW pick, NEW S, IsFiniteSet(S), Picks(pick, S)
    PROVE  \E g : IsFold(g, base, step, f, pick, S)
<1> DEFINE Fold(g, T) == IsFold(g, base, step, f, pick, T)
<1> SUFFICES ASSUME ~ \E g : Fold(g, S) PROVE FALSE
  OBVIOUS
<1> DEFINE Bad == {T \in SUBSET S : ~ \E g : Fold(g, T)}
<1>1. Bad # {} /\ \A T \in Bad : IsFiniteSet(T)
  BY FS_Subset
<1>2. PICK T \in Bad : \A U \in Bad : U \subseteq T => U = T
  <2> HIDE DEF Bad
  <2> QED BY <1>1, LeastSet
<1>3. \A s \in SUBSET T : IsFiniteSet(s) /\ Picks(pick, s)
  BY <1>1, <1>2, FS_Subset DEF Picks
<1> DEFINE G(s) == CHOOSE g : Fold(g, s)
           h == [s \in SUBSET T |-> IF s = {} THEN base
                                    ELSE step[<<f[pick[s]], G(s \ {pick[s]})[s \ {pick[s]}]>>]]
<1>4. ASSUME NEW s \in SUBSET T, s # T PROVE Fold(G(s), s)
  <2>1. \E g : Fold(g, s)
    BY <1>2, <1>4
  <2> HIDE DEF Fold
  <2> QED BY <2>1
<1>5. ASSUME NEW s \in SUBSET T, s # T PROVE h[s] = G(s)[s]
  <2>1. G(s)[s] = IF s = {} THEN base ELSE step[<<f[pick[s]], G(s)[s \ {pick[s]}]>>]
    <3> HIDE DEF G
    <3> QED BY <1>4, <1>5 DEF IsFold
  <2>2. CASE s = {}
    BY <2>1, <2>2
  <2>3. CASE s # {}
    <3> DEFINE r == s \ {pick[s]}
    <3>1. pick[s] \in s
      BY <1>3, <2>3 DEF Picks
    <3>2. r \in SUBSET T /\ r # T /\ r \in SUBSET (s \intersect r)
      BY <3>1
    <3>3. Fold(G(s), s) /\ Fold(G(r), r)
      BY <1>4, <1>5, <3>2
    <3>4. G(s)[r] = G(r)[r]
      <4> HIDE DEF G, r
      <4> QED BY <1>3, <3>2, <3>3, FoldUnique
    <3>5. h[s] = step[<<f[pick[s]], G(r)[r]>>]
      <4> HIDE DEF G
      <4> QED BY <2>3
    <3> QED BY <2>1, <2>3, <3>4, <3>5
  <2> QED BY <2>2, <2>3
<1>6. Fold(h, T)
  <2>1. ASSUME NEW s \in SUBSET T, s # {} PROVE h[s \ {pick[s]}] = G(s \ {pick[s]})[s \ {pick[s]}]
    <3>1. s \ {pick[s]} \in SUBSET T /\ s \ {pick[s]} # T
      BY <1>3, <2>1 DEF Picks
    <3> HIDE DEF G, h
    <3> QED BY <1>5, <3>1
  <2>2. ASSUME NEW s \in SUBSET T
        PROVE  h[s] = IF s = {} THEN base ELSE step[<<f[pick[s]], h[s \ {pick[s]}]>>]
    <3> HIDE DEF G
    <3> QED BY <2>1
  <2>3. h = [s \in SUBSET T |-> h[s]]
    <3> HIDE DEF G
    <3> QED OBVIOUS
  <2> HIDE DEF h
  <2> QED BY <2>2, <2>3 DEF IsFold
<1> QED BY <1>2, <1>6

\* A fold of elements of A into B is in B.
LEMMA FoldType ==
    ASSUME NEW A, NEW B, NEW base \in B, NEW step \in [A \X B -> B], NEW f, NEW pick,
           NEW S, IsFiniteSet(S), Picks(pick, S), \A x \in S : f[x] \in A,
           NEW g, IsFold(g, base, step, f, pick, S)
    PROVE  g \in [SUBSET S -> B]
<1>1. ASSUME \E s \in SUBSET S : g[s] \notin B PROVE FALSE
  <2> DEFINE Bad == {s \in SUBSET S : g[s] \notin B}
  <2>1. Bad # {} /\ \A s \in Bad : IsFiniteSet(s)
    BY <1>1, FS_Subset
  <2>2. PICK s \in Bad : \A t \in Bad : t \subseteq s => t = s
    <3> HIDE DEF Bad
    <3> QED BY <2>1, LeastSet
  <2>3. g[s] = IF s = {} THEN base ELSE step[<<f[pick[s]], g[s \ {pick[s]}]>>]
    BY <2>2 DEF IsFold
  <2>4. s # {} /\ pick[s] \in s
    BY <2>2, <2>3 DEF Picks
  <2>5. g[s \ {pick[s]}] \in B /\ f[pick[s]] \in A
    BY <2>2, <2>4
  <2> QED BY <2>2, <2>3, <2>4, <2>5
<1>2. g = [s \in SUBSET S |-> g[s]]
  BY DEF IsFold
<1> QED BY <1>1, <1>2

-----------------------------------------------------------------------------
(* Sums                                                                    *)

\* The recursion behind SumFunctionOnSet.
Pick(s) == CHOOSE x \in s : TRUE
IsSum(g, f, S) ==
    g = [s \in SUBSET S |-> IF s = {} THEN 0 ELSE f[Pick(s)] + g[s \ {Pick(s)}]]

\* The element that is picked is one.
LEMMA PickIn == \A s : s # {} => Pick(s) \in s
BY DEF Pick

\* Two solutions of the recursion agree where both are defined.
LEMMA SumUnique ==
    ASSUME NEW f, NEW S, NEW U, IsFiniteSet(S), NEW g, NEW h, IsSum(g, f, S), IsSum(h, f, U)
    PROVE  \A s \in SUBSET (S \intersect U) : g[s] = h[s]
<1> SUFFICES ASSUME \E s \in SUBSET (S \intersect U) : g[s] # h[s] PROVE FALSE
  OBVIOUS
<1> DEFINE Bad == {s \in SUBSET (S \intersect U) : g[s] # h[s]}
<1>1. Bad # {} /\ \A s \in Bad : IsFiniteSet(s)
  BY FS_Subset
<1>2. PICK s \in Bad : \A t \in Bad : t \subseteq s => t = s
  <2> HIDE DEF Bad
  <2> QED BY <1>1, LeastSet
<1>3. /\ g[s] = IF s = {} THEN 0 ELSE f[Pick(s)] + g[s \ {Pick(s)}]
      /\ h[s] = IF s = {} THEN 0 ELSE f[Pick(s)] + h[s \ {Pick(s)}]
  BY <1>2 DEF IsSum
<1>4. s # {} /\ Pick(s) \in s
  BY <1>2, <1>3, PickIn
<1>5. g[s \ {Pick(s)}] = h[s \ {Pick(s)}]
  BY <1>2, <1>4
<1> QED BY <1>2, <1>3, <1>4, <1>5

\* The recursion has a solution.
LEMMA SumExists ==
    ASSUME NEW f, NEW S, IsFiniteSet(S), \A x \in S : f[x] \in Int
    PROVE  \E g : IsSum(g, f, S)
<1> DEFINE step == [p \in Int \X Int |-> p[1] + p[2]]
           pick == [s \in SUBSET S |-> Pick(s)]
<1>1. Picks(pick, S)
  BY PickIn DEF Picks
<1>2. PICK g : IsFold(g, 0, step, f, pick, S)
  <2> HIDE DEF step, pick
  <2> QED BY <1>1, FoldExists
<1>3. g \in [SUBSET S -> Int]
  <2>1. step \in [Int \X Int -> Int]
    OBVIOUS
  <2>2. 0 \in Int /\ \A x \in S : f[x] \in Int
    OBVIOUS
  <2> HIDE DEF step, pick
  <2> QED BY <1>1, <1>2, <2>1, <2>2, FoldType
<1>4. ASSUME NEW s \in SUBSET S
      PROVE  g[s] = IF s = {} THEN 0 ELSE f[Pick(s)] + g[s \ {Pick(s)}]
  <2>1. g[s] = IF s = {} THEN 0 ELSE step[<<f[Pick(s)], g[s \ {Pick(s)}]>>]
    <3> HIDE DEF step
    <3> QED BY <1>2 DEF IsFold
  <2>2. CASE s = {}
    BY <2>1, <2>2
  <2>3. CASE s # {}
    <3>1. f[Pick(s)] \in Int /\ g[s \ {Pick(s)}] \in Int
      BY <1>3, <2>3, PickIn
    <3>2. step[<<f[Pick(s)], g[s \ {Pick(s)}]>>] = f[Pick(s)] + g[s \ {Pick(s)}]
      BY <3>1
    <3> QED BY <2>1, <2>3, <3>2
  <2> QED BY <2>2, <2>3
<1>5. IsSum(g, f, S)
  <2>1. g = [s \in SUBSET S |-> g[s]]
    BY <1>3
  <2> QED BY <1>4, <2>1 DEF IsSum
<1> QED BY <1>5

\* One step of the recursion.
LEMMA SumPicks ==
    ASSUME NEW f, NEW S, IsFiniteSet(S), \A x \in S : f[x] \in Int
    PROVE  SumFunctionOnSet(f, S) =
             IF S = {} THEN 0 ELSE f[Pick(S)] + SumFunctionOnSet(f, S \ {Pick(S)})
<1> DEFINE G(s) == CHOOSE g : IsSum(g, f, s)
           R == S \ {Pick(S)}
<1>1. \A s : SumFunctionOnSet(f, s) = G(s)[s]
  BY DEF SumFunctionOnSet, FoldFunctionOnSet, MapThenFoldSet, IsSum, Pick
<1>2. IsSum(G(S), f, S)
  BY SumExists
<1>3. IsFiniteSet(R)
  BY FS_Subset
<1>4. IsSum(G(R), f, R)
  <2>1. \A x \in R : f[x] \in Int
    OBVIOUS
  <2>2. \E g : IsSum(g, f, R)
    <3> HIDE DEF R
    <3> QED BY <1>3, <2>1, SumExists
  <2> HIDE DEF R
  <2> QED BY <2>2
<1>5. G(S)[R] = G(R)[R]
  <2>1. R \in SUBSET (S \intersect R)
    OBVIOUS
  <2> HIDE DEF G, R
  <2> QED BY <1>2, <1>4, <2>1, SumUnique
<1>6. G(S)[S] = IF S = {} THEN 0 ELSE f[Pick(S)] + G(S)[R]
  <2> HIDE DEF G
  <2> QED BY <1>2 DEF IsSum
<1> HIDE DEF G
<1> QED BY <1>1, <1>5, <1>6

\* The sum of nothing.
LEMMA SumEmpty == \A f : SumFunctionOnSet(f, {}) = 0
BY SumPicks, FS_EmptySet

\* A sum of integers is one.
LEMMA SumType ==
    ASSUME NEW S, IsFiniteSet(S), NEW f, \A x \in S : f[x] \in Int
    PROVE  SumFunctionOnSet(f, S) \in Int
<1> SUFFICES ASSUME SumFunctionOnSet(f, S) \notin Int PROVE FALSE
  OBVIOUS
<1> DEFINE Bad == {T \in SUBSET S : SumFunctionOnSet(f, T) \notin Int}
<1>1. Bad # {} /\ \A T \in Bad : IsFiniteSet(T)
  BY FS_Subset
<1>2. PICK T \in Bad : \A U \in Bad : U \subseteq T => U = T
  <2> HIDE DEF Bad
  <2> QED BY <1>1, LeastSet
<1>3. SumFunctionOnSet(f, T) =
        IF T = {} THEN 0 ELSE f[Pick(T)] + SumFunctionOnSet(f, T \ {Pick(T)})
  BY <1>1, <1>2, SumPicks
<1>4. T # {} /\ Pick(T) \in T
  BY <1>2, <1>3, PickIn
<1>5. SumFunctionOnSet(f, T \ {Pick(T)}) \in Int
  BY <1>2, <1>4
<1> QED BY <1>2, <1>3, <1>4, <1>5

\* Whichever element is taken away, the sum is that element and the rest.
LEMMA SumRemove ==
    ASSUME NEW S, IsFiniteSet(S), NEW f, \A x \in S : f[x] \in Int, NEW x \in S
    PROVE  SumFunctionOnSet(f, S) = f[x] + SumFunctionOnSet(f, S \ {x})
<1> DEFINE Sum(T) == SumFunctionOnSet(f, T)
           Good(T) == \A y \in T : Sum(T) = f[y] + Sum(T \ {y})
           Bad == {T \in SUBSET S : ~Good(T)}
<1> SUFFICES ASSUME Bad # {} PROVE FALSE
  OBVIOUS
<1>1. \A T \in SUBSET S : IsFiniteSet(T) /\ Sum(T) \in Int
  BY FS_Subset, SumType
<1>2. PICK T \in Bad : \A U \in Bad : U \subseteq T => U = T
  <2>1. \A T \in Bad : IsFiniteSet(T)
    BY <1>1
  <2> HIDE DEF Bad
  <2> QED BY <2>1, LeastSet
<1>3. PICK y \in T : Sum(T) # f[y] + Sum(T \ {y})
  BY <1>2
<1> DEFINE p == Pick(T)
<1>4. p \in T /\ Sum(T) = f[p] + Sum(T \ {p})
  BY <1>1, <1>2, <1>3, SumPicks, PickIn
<1>5. y # p /\ p \in T \ {y} /\ y \in T \ {p}
  BY <1>3, <1>4
<1>6. Good(T \ {p}) /\ Good(T \ {y})
  <2>1. T \ {p} \in SUBSET S /\ T \ {y} \in SUBSET S
    BY <1>2
  <2> HIDE DEF Good, Sum, p
  <2> QED BY <1>2, <1>4, <1>5, <2>1
<1>7. /\ Sum(T \ {p}) = f[y] + Sum((T \ {p}) \ {y})
      /\ Sum(T \ {y}) = f[p] + Sum((T \ {y}) \ {p})
  <2> HIDE DEF Sum, p
  <2> QED BY <1>5, <1>6
<1>8. (T \ {p}) \ {y} = (T \ {y}) \ {p}
  OBVIOUS
<1>9. Sum((T \ {p}) \ {y}) \in Int /\ f[p] \in Int /\ f[y] \in Int
  BY <1>1, <1>2, <1>3, <1>4
<1>10. Sum(T \ {y}) = f[p] + Sum((T \ {p}) \ {y})
  BY <1>7, <1>8
<1> HIDE DEF Sum, p, Good, Bad
<1> QED BY <1>3, <1>4, <1>7, <1>9, <1>10

\* One element more.
LEMMA SumAdd ==
    ASSUME NEW S, IsFiniteSet(S), NEW x, x \notin S, NEW f, \A y \in S \union {x} : f[y] \in Int
    PROVE  SumFunctionOnSet(f, S \union {x}) = SumFunctionOnSet(f, S) + f[x]
<1>1. IsFiniteSet(S \union {x}) /\ (S \union {x}) \ {x} = S
  BY FS_AddElement
<1>2. SumFunctionOnSet(f, S \union {x}) = f[x] + SumFunctionOnSet(f, S)
  BY <1>1, SumRemove
<1>3. SumFunctionOnSet(f, S) \in Int /\ f[x] \in Int
  BY SumType
<1> QED BY <1>2, <1>3

\* Functions that agree have the same sum.
LEMMA SumAgree ==
    ASSUME NEW S, IsFiniteSet(S), NEW f, NEW g, \A x \in S : f[x] \in Int /\ g[x] = f[x]
    PROVE  SumFunctionOnSet(g, S) = SumFunctionOnSet(f, S)
<1> DEFINE Good == {T \in SUBSET S : SumFunctionOnSet(g, T) = SumFunctionOnSet(f, T)}
<1>1. {} \in Good
  BY SumEmpty
<1>2. ASSUME NEW T \in SUBSET S, NEW x \in S \ T, T \in Good
      PROVE  T \union {x} \in Good
  <2>1. IsFiniteSet(T)
    BY FS_Subset
  <2>2. \A y \in T \union {x} : f[y] \in Int /\ g[y] \in Int
    BY <1>2
  <2>3. /\ SumFunctionOnSet(f, T \union {x}) = SumFunctionOnSet(f, T) + f[x]
        /\ SumFunctionOnSet(g, T \union {x}) = SumFunctionOnSet(g, T) + g[x]
    BY <1>2, <2>1, <2>2, SumAdd
  <2> QED BY <1>2, <2>3
<1>3. S \in Good
  <2> HIDE DEF Good
  <2> QED BY <1>1, <1>2, FiniteInduction
<1> QED BY <1>3

\* A function that is changed at one point.
LEMMA SumChange ==
    ASSUME NEW S, IsFiniteSet(S), NEW f, NEW g, NEW x \in S,
           \A y \in S : f[y] \in Int /\ g[y] \in Int,
           \A y \in S \ {x} : g[y] = f[y]
    PROVE  SumFunctionOnSet(g, S) = SumFunctionOnSet(f, S) + g[x] - f[x]
<1>1. IsFiniteSet(S \ {x})
  BY FS_Subset
<1>2. /\ SumFunctionOnSet(f, S) = f[x] + SumFunctionOnSet(f, S \ {x})
      /\ SumFunctionOnSet(g, S) = g[x] + SumFunctionOnSet(g, S \ {x})
  BY SumRemove
<1>3. SumFunctionOnSet(g, S \ {x}) = SumFunctionOnSet(f, S \ {x})
  BY <1>1, SumAgree
<1>4. SumFunctionOnSet(f, S \ {x}) \in Int
  BY <1>1, SumType
<1> QED BY <1>2, <1>3, <1>4

\* A sum without its first term, and the terms after it numbered from one again.
LEMMA SumShift ==
    ASSUME NEW n \in Nat, NEW f, \A i \in 1..(n + 1) : f[i] \in Int,
           NEW g, \A i \in 1..n : g[i] = f[i + 1]
    PROVE  SumFunctionOnSet(f, 1..(n + 1)) = f[1] + SumFunctionOnSet(g, 1..n)
<1> DEFINE F(k) == SumFunctionOnSet(f, 1..k)
           G(k) == SumFunctionOnSet(g, 1..k)
           Good == {k \in Nat : k <= n => F(k + 1) = f[1] + G(k)}
<1>1. ASSUME NEW k \in Nat, NEW h, \A i \in 1..(k + 1) : h[i] \in Int
      PROVE  /\ SumFunctionOnSet(h, 1..(k + 1)) = SumFunctionOnSet(h, 1..k) + h[k + 1]
             /\ SumFunctionOnSet(h, 1..k) \in Int
  <2>1. IsFiniteSet(1..k) /\ k + 1 \notin 1..k /\ (1..k) \union {k + 1} = 1..(k + 1)
    <3>1. 1 \in Int /\ k \in Int
      OBVIOUS
    <3>2. IsFiniteSet(1..k)
      BY <3>1, FS_Interval
    <3> QED BY <3>2
  <2>2. \A i \in (1..k) \union {k + 1} : h[i] \in Int
    BY <1>1, <2>1
  <2>3. SumFunctionOnSet(h, (1..k) \union {k + 1}) = SumFunctionOnSet(h, 1..k) + h[k + 1]
    <3>1. PICK I : I = 1..k
      OBVIOUS
    <3>2. PICK x : x = k + 1
      OBVIOUS
    <3>3. IsFiniteSet(I) /\ x \notin I /\ \A i \in I \union {x} : h[i] \in Int
      BY <2>1, <2>2, <3>1, <3>2
    <3>4. SumFunctionOnSet(h, I \union {x}) = SumFunctionOnSet(h, I) + h[x]
      BY <3>3, SumAdd
    <3> QED BY <3>1, <3>2, <3>4
  <2>4. SumFunctionOnSet(h, 1..k) \in Int
    BY <2>1, <2>2, SumType
  <2> QED BY <2>1, <2>3, <2>4
<1>2. 1..0 = {} /\ F(0) = 0 /\ G(0) = 0
  BY SumEmpty
<1>3. 0 \in Good
  <2>1. \A i \in 1..(0 + 1) : f[i] \in Int
    OBVIOUS
  <2>2. F(0 + 1) = F(0) + f[0 + 1]
    <3>1. 0 \in Nat
      OBVIOUS
    <3> QED BY <1>1, <2>1, <3>1
  <2>3. f[1] \in Int
    OBVIOUS
  <2> HIDE DEF F, G
  <2> QED BY <1>2, <2>2, <2>3
<1>4. ASSUME NEW k \in Nat, k \in Good PROVE k + 1 \in Good
  <2> SUFFICES ASSUME k + 1 <= n PROVE F((k + 1) + 1) = f[1] + G(k + 1)
    <3> HIDE DEF F, G
    <3> QED OBVIOUS
  <2>1. /\ \A i \in 1..((k + 1) + 1) : f[i] \in Int
        /\ \A i \in 1..(k + 1) : g[i] \in Int
    <3>1. \A i \in 1..((k + 1) + 1) : i \in 1..(n + 1)
      OBVIOUS
    <3>2. \A i \in 1..(k + 1) : i \in 1..n /\ i + 1 \in 1..(n + 1)
      OBVIOUS
    <3> QED BY <3>1, <3>2
  <2>2. F((k + 1) + 1) = F(k + 1) + f[(k + 1) + 1]
    BY <1>1, <2>1
  <2>3. G(k + 1) = G(k) + g[k + 1] /\ G(k) \in Int
    BY <1>1, <2>1
  <2>4. g[k + 1] = f[(k + 1) + 1] /\ g[k + 1] \in Int /\ f[1] \in Int
    <3>1. k + 1 \in 1..n
      OBVIOUS
    <3> QED BY <2>1, <3>1
  <2>5. F(k + 1) = f[1] + G(k)
    BY <1>4
  <2> HIDE DEF F, G
  <2> QED BY <2>2, <2>3, <2>4, <2>5
<1>5. n \in Good
  <2> HIDE DEF Good
  <2> QED BY <1>3, <1>4, NaturalInduction
<1> QED BY <1>5

\* Functions that are nothing everywhere.
LEMMA SumZero ==
    ASSUME NEW S, IsFiniteSet(S), NEW f, \A x \in S : f[x] = 0
    PROVE  SumFunctionOnSet(f, S) = 0
<1> DEFINE Good == {T \in SUBSET S : SumFunctionOnSet(f, T) = 0}
<1>1. {} \in Good
  BY SumEmpty
<1>2. ASSUME NEW T \in SUBSET S, NEW x \in S \ T, T \in Good
      PROVE  T \union {x} \in Good
  <2>1. IsFiniteSet(T)
    BY FS_Subset
  <2>2. \A y \in T \union {x} : f[y] \in Int
    BY <1>2
  <2>3. SumFunctionOnSet(f, T \union {x}) = SumFunctionOnSet(f, T) + f[x]
    BY <1>2, <2>1, <2>2, SumAdd
  <2> QED BY <1>2, <2>3
<1>3. S \in Good
  <2> HIDE DEF Good
  <2> QED BY <1>1, <1>2, FiniteInduction
<1> QED BY <1>3

-----------------------------------------------------------------------------
(* Places in a set of numbers                                              *)

\* The elements of a set of numbers that are less than x.
Less(S, x) == {y \in S : y < x}

\* No two elements have the same place.
LEMMA PlaceStrict ==
    ASSUME NEW S \in SUBSET Int, IsFiniteSet(S), NEW x \in S, NEW y \in S, x < y
    PROVE  /\ Cardinality(Less(S, x)) \in Nat /\ Cardinality(Less(S, y)) \in Nat
           /\ Cardinality(Less(S, x)) < Cardinality(Less(S, y))
<1>1. IsFiniteSet(Less(S, x)) /\ IsFiniteSet(Less(S, y))
  BY FS_Subset DEF Less
<1>2. Less(S, x) \in SUBSET Less(S, y) /\ x \in Less(S, y) /\ x \notin Less(S, x)
  <2>1. x \in Int /\ y \in Int /\ \A z \in S : z \in Int
    OBVIOUS
  <2>2. ASSUME NEW z \in Less(S, x) PROVE z \in Less(S, y)
    <3>1. z \in S /\ z < x
      BY DEF Less
    <3>2. z < y
      BY <2>1, <3>1
    <3> QED BY <3>1, <3>2 DEF Less
  <2>3. x \in Less(S, y)
    BY DEF Less
  <2>4. x \notin Less(S, x)
    BY <2>1 DEF Less
  <2> QED BY <2>2, <2>3, <2>4
<1>3. Cardinality(Less(S, x)) \in Nat /\ Cardinality(Less(S, y)) \in Nat
  BY <1>1, FS_CardinalityType
<1>4. Cardinality(Less(S, x)) <= Cardinality(Less(S, y))
  BY <1>1, <1>2, FS_Subset
<1>5. Cardinality(Less(S, x)) # Cardinality(Less(S, y))
  BY <1>1, <1>2, FS_Subset
<1> QED BY <1>3, <1>4, <1>5

\* Every place is taken.
LEMMA PlacesTaken ==
    ASSUME NEW S \in SUBSET Int, IsFiniteSet(S), NEW i \in 1..Cardinality(S)
    PROVE  \E x \in S : Cardinality(Less(S, x)) = i - 1
<1> DEFINE n == Cardinality(S)
           T == 0..(n - 1)
           f == [x \in S |-> Cardinality(Less(S, x))]
<1>1. n \in Nat /\ n > 0
  BY FS_CardinalityType
<1>2. IsFiniteSet(T) /\ Cardinality(T) = n
  <2> HIDE DEF n
  <2>1. 0 \in Int /\ n - 1 \in Int
    BY <1>1
  <2>2. IsFiniteSet(0..(n - 1)) /\ Cardinality(0..(n - 1)) = IF 0 > n - 1 THEN 0 ELSE n - 1 - 0 + 1
    BY <2>1, FS_Interval
  <2> QED BY <1>1, <2>2
<1>3. ASSUME NEW x \in S PROVE f[x] \in T
  <2>1. IsFiniteSet(Less(S, x)) /\ Less(S, x) \in SUBSET S /\ x \notin Less(S, x)
    BY FS_Subset DEF Less
  <2>2. Cardinality(Less(S, x)) \in Nat
    BY <2>1, FS_CardinalityType
  <2>3. Cardinality(Less(S, x)) <= n /\ Cardinality(Less(S, x)) # n
    BY <2>1, FS_Subset
  <2> QED BY <1>1, <2>2, <2>3
<1>4. ASSUME NEW x \in S, NEW y \in S, f[x] = f[y] PROVE x = y
  BY <1>4, PlaceStrict
<1>5. f \in Injection(S, T)
  BY <1>3, <1>4 DEF Injection, IsInjective
<1>6. f \in Surjection(S, T)
  <2> HIDE DEF f, T
  <2> QED BY <1>2, <1>5, FS_Injection
<1>7. i - 1 \in T
  BY <1>1
<1>8. \E x \in S : f[x] = i - 1
  <2> HIDE DEF f, T
  <2> QED BY <1>6, <1>7 DEF Surjection
<1> QED BY <1>8

\* A set of numbers without a gap from 1 on is as large as its largest one.
LEMMA LeadingCount ==
    ASSUME NEW e \in Nat, NEW S \in SUBSET (1..e), \A i \in S : \A j \in 1..e : j < i => j \in S
    PROVE  Cardinality(S) \in 0..e /\ \A i \in 1..e : i \in S <=> i <= Cardinality(S)
<1>1. IsFiniteSet(1..e) /\ Cardinality(1..e) = e
  <2>1. 1 \in Int /\ e \in Int
    OBVIOUS
  <2>2. IsFiniteSet(1..e) /\ Cardinality(1..e) = IF 1 > e THEN 0 ELSE e - 1 + 1
    BY <2>1, FS_Interval
  <2> QED BY <2>2
<1>2. IsFiniteSet(S) /\ Cardinality(S) \in Nat /\ Cardinality(S) <= e
  BY <1>1, FS_Subset, FS_CardinalityType
<1> PICK b \in Nat : b = Cardinality(S) /\ b <= e
  BY <1>2
<1>3. ASSUME NEW i \in 1..e PROVE Cardinality(1..i) = i /\ IsFiniteSet(1..i)
  <2>1. 1 \in Int /\ i \in Int
    OBVIOUS
  <2>2. IsFiniteSet(1..i) /\ Cardinality(1..i) = IF 1 > i THEN 0 ELSE i - 1 + 1
    BY <2>1, FS_Interval
  <2> QED BY <2>2
<1>4. ASSUME NEW i \in 1..e, i \in S PROVE i <= b
  <2>1. 1..i \in SUBSET S
    BY <1>4
  <2>2. Cardinality(1..i) <= Cardinality(S)
    BY <1>2, <2>1, FS_Subset
  <2> QED BY <1>3, <2>2
<1>5. ASSUME NEW i \in 1..e, i \notin S PROVE b < i
  <2>1. \A j \in S : j < i
    <3> SUFFICES ASSUME NEW j \in S PROVE j < i
      OBVIOUS
    <3>1. j \in 1..e /\ j # i /\ ~(i < j)
      BY <1>5
    <3> QED BY <3>1
  <2>2. S \in SUBSET (1..i) /\ S # 1..i
    <3>1. i \in 1..i
      OBVIOUS
    <3> QED BY <1>5, <2>1, <3>1
  <2>3. Cardinality(S) <= Cardinality(1..i) /\ (Cardinality(S) = Cardinality(1..i) => S = 1..i)
    BY <1>3, <2>2, FS_Subset
  <2> QED BY <1>3, <2>2, <2>3
<1> QED BY <1>4, <1>5

-----------------------------------------------------------------------------
(* Walks                                                                   *)

\* A step from x along the numbers K, which key gives to the places V: to the next
\* number, or from the last one to the end.
IsWalkStep(V, key, K, end, x, y) ==
    \/ y = end /\ \A k \in K : k <= key[x]
    \/ y \in V /\ key[x] < key[y] /\ \A k \in K : k <= key[x] \/ key[y] <= k

\* n steps, the first from the place of the least number.
IsWalk(at, V, key, K, n, end) ==
    /\ K \in SUBSET Int /\ IsFiniteSet(K) /\ n = Cardinality(K)
    /\ key \in [V -> K] /\ end \notin V
    /\ at[0] \in V /\ \A k \in K : key[at[0]] <= k
    /\ \A i \in 0..(n - 1) : at[i] \in V => IsWalkStep(V, key, K, end, at[i], at[i + 1])

\* The walk is at a place for each of the n numbers, in their order, and then at the end.
IsWhole(at, V, key, n, end) ==
    /\ n \in Nat /\ \A i \in 0..(n - 1) : at[i] \in V
    /\ \A i \in 1..(n - 1) : key[at[i - 1]] < key[at[i]]
    /\ at[n] = end

\* A number and those below it.
LEMMA LessAndOne ==
    ASSUME NEW K \in SUBSET Int, IsFiniteSet(K), NEW x \in K
    PROVE  /\ IsFiniteSet(Less(K, x) \union {x}) /\ Less(K, x) \union {x} \subseteq K
           /\ Cardinality(Less(K, x)) \in Nat
           /\ Cardinality(Less(K, x) \union {x}) = Cardinality(Less(K, x)) + 1
<1>1. Less(K, x) \subseteq K
  BY DEF Less
<1>2. x \notin Less(K, x)
  <2>1. x \in Int /\ ~(x < x)
    OBVIOUS
  <2> QED BY <2>1 DEF Less
<1>3. IsFiniteSet(Less(K, x))
  BY <1>1, FS_Subset
<1> QED BY <1>1, <1>2, <1>3, FS_AddElement, FS_CardinalityType

\* Such a walk is whole: it skips no number and comes to the end after the last.
LEMMA WalkWhole ==
    ASSUME NEW at, NEW V, NEW key, NEW K, NEW n, NEW end, IsWalk(at, V, key, K, n, end)
    PROVE  IsWhole(at, V, key, n, end)
<1>1. /\ K \in SUBSET Int /\ IsFiniteSet(K) /\ n = Cardinality(K)
      /\ key \in [V -> K] /\ end \notin V
      /\ at[0] \in V /\ \A k \in K : key[at[0]] <= k
      /\ \A i \in 0..(n - 1) : at[i] \in V => IsWalkStep(V, key, K, end, at[i], at[i + 1])
  BY DEF IsWalk
<1>0. ASSUME NEW x \in K
      PROVE  /\ Less(K, x) \union {x} \subseteq K
             /\ Cardinality(Less(K, x) \union {x}) = Cardinality(Less(K, x)) + 1
  <2>1. K \in SUBSET Int /\ IsFiniteSet(K)
    BY <1>1
  <2> QED BY <2>1, LessAndOne
<1>2. n \in Nat /\ n # 0
  <2>1. key[at[0]] \in K
    BY <1>1
  <2> QED BY <1>1, <2>1, FS_CardinalityType, FS_EmptySet
<1> DEFINE Good == {i \in Nat : i < n => at[i] \in V /\ Cardinality(Less(K, key[at[i]])) = i}
<1>3. 0 \in Good
  <2>1. Less(K, key[at[0]]) = {}
    <3>1. \A k \in K : ~(k < key[at[0]])
      <4>1. \A k \in K : k \in Int /\ key[at[0]] \in Int /\ key[at[0]] <= k
        BY <1>1
      <4> QED BY <4>1
    <3> QED BY <3>1 DEF Less
  <2> QED BY <1>1, <2>1, FS_EmptySet
<1>4. ASSUME NEW i \in Nat, i \in Good, i < n, NEW x, x = key[at[i]], NEW y, y = key[at[i + 1]]
      PROVE  /\ at[i] \in V /\ x \in K /\ Cardinality(Less(K, x)) = i
             /\ IF at[i + 1] \in V THEN x < y /\ y \in K /\ Less(K, y) = Less(K, x) \union {x}
                                   ELSE at[i + 1] = end /\ K = Less(K, x) \union {x}
  <2>1. at[i] \in V /\ Cardinality(Less(K, x)) = i
    BY <1>4
  <2>2. x \in K
    BY <1>1, <1>4, <2>1
  <2>3. IsWalkStep(V, key, K, end, at[i], at[i + 1])
    <3>1. i \in 0..(n - 1)
      BY <1>2, <1>4
    <3> QED BY <1>1, <2>1, <3>1
  <2>4. \A k \in K : k \in Int
    BY <1>1
  <2>5. CASE at[i + 1] \in V
    <3>1. y \in K /\ x < y /\ \A k \in K : k <= x \/ y <= k
      BY <1>1, <1>4, <2>3, <2>5 DEF IsWalkStep
    <3>2. ASSUME NEW k \in K PROVE k < y <=> k < x \/ k = x
      <4>1. k \in Int /\ x \in Int /\ y \in Int /\ x < y /\ (k <= x \/ y <= k)
        BY <2>2, <2>4, <3>1
      <4> QED BY <4>1
    <3>3. Less(K, y) = Less(K, x) \union {x}
      BY <2>2, <3>2 DEF Less
    <3> QED BY <2>1, <2>2, <2>5, <3>1, <3>3
  <2>6. CASE at[i + 1] \notin V
    <3>1. at[i + 1] = end /\ \A k \in K : k <= x
      BY <1>4, <2>3, <2>6 DEF IsWalkStep
    <3>2. ASSUME NEW k \in K PROVE k < x \/ k = x
      <4>1. k \in Int /\ x \in Int /\ k <= x
        BY <2>2, <2>4, <3>1
      <4> QED BY <4>1
    <3>3. K = Less(K, x) \union {x}
      BY <2>2, <3>2 DEF Less
    <3> QED BY <2>1, <2>2, <2>6, <3>1, <3>3
  <2> QED BY <2>5, <2>6
<1>5. ASSUME NEW i \in Nat, i \in Good PROVE i + 1 \in Good
  <2> SUFFICES ASSUME i + 1 < n PROVE at[i + 1] \in V /\ Cardinality(Less(K, key[at[i + 1]])) = i + 1
    OBVIOUS
  <2> PICK x : x = key[at[i]]
    OBVIOUS
  <2> PICK y : y = key[at[i + 1]]
    OBVIOUS
  <2>0. i < n
    BY <1>2
  <2> HIDE DEF Good
  <2>1. /\ at[i] \in V /\ x \in K /\ Cardinality(Less(K, x)) = i
        /\ IF at[i + 1] \in V THEN x < y /\ y \in K /\ Less(K, y) = Less(K, x) \union {x}
                              ELSE at[i + 1] = end /\ K = Less(K, x) \union {x}
    BY <1>4, <1>5, <2>0
  <2>2. Cardinality(Less(K, x) \union {x}) = i + 1
    BY <1>0, <2>1
  <2>3. at[i + 1] \in V
    <3>1. ASSUME at[i + 1] \notin V PROVE FALSE
      <4>1. n = i + 1
        BY <1>1, <2>1, <2>2, <3>1
      <4> QED BY <1>2, <4>1
    <3> QED BY <3>1
  <2> QED BY <2>1, <2>2, <2>3
<1>6. \A i \in 0..(n - 1) : i \in Good
  <2> HIDE DEF Good
  <2>1. Nat \subseteq Good
    BY <1>3, <1>5, NaturalInduction
  <2> QED BY <1>2, <2>1
<1>7. \A i \in 0..(n - 1) : at[i] \in V
  <2>1. \A i \in 0..(n - 1) : i \in Nat /\ i < n
    BY <1>2
  <2> QED BY <1>6, <2>1
<1>8. ASSUME NEW i \in 1..(n - 1) PROVE key[at[i - 1]] < key[at[i]]
  <2>1. PICK j \in 0..(n - 1) : j = i - 1 /\ j + 1 = i /\ j < n /\ j \in Nat
    BY <1>2
  <2>2. at[j] \in V /\ at[j + 1] \in V
    BY <1>2, <1>7, <2>1
  <2>3. IsWalkStep(V, key, K, end, at[j], at[j + 1])
    BY <1>1, <2>2
  <2>4. key[at[j]] < key[at[j + 1]]
    BY <1>1, <2>2, <2>3 DEF IsWalkStep
  <2> QED BY <2>1, <2>4
<1>9. at[n] = end
  <2>1. PICK j \in Nat : j \in 0..(n - 1) /\ j + 1 = n /\ j < n
    <3>1. n - 1 \in Nat /\ n - 1 \in 0..(n - 1) /\ (n - 1) + 1 = n /\ n - 1 < n
      BY <1>2
    <3> QED BY <3>1
  <2> PICK x : x = key[at[j]]
    OBVIOUS
  <2> PICK y : y = key[at[j + 1]]
    OBVIOUS
  <2>2. j \in Good
    BY <1>6, <2>1
  <2> HIDE DEF Good
  <2>3. /\ x \in K /\ Cardinality(Less(K, x)) = j
        /\ IF at[j + 1] \in V THEN y \in K /\ Less(K, y) = Less(K, x) \union {x}
                              ELSE at[j + 1] = end
    BY <1>4, <2>1, <2>2
  <2>4. ASSUME at[j + 1] \in V PROVE FALSE
    <3>1. Cardinality(Less(K, y)) = n
      BY <1>0, <2>1, <2>3, <2>4
    <3>2. Cardinality(Less(K, y) \union {y}) = n + 1 /\ Less(K, y) \union {y} \subseteq K
      BY <1>0, <2>3, <2>4, <3>1
    <3>3. n + 1 <= n
      BY <1>1, <3>2, FS_Subset
    <3> QED BY <1>2, <3>3
  <2> QED BY <2>1, <2>3, <2>4
<1> QED BY <1>2, <1>7, <1>8, <1>9 DEF IsWhole

-----------------------------------------------------------------------------
(* Sequences                                                               *)

\* A piece of a sequence.
LEMMA PieceFacts ==
    ASSUME NEW S, NEW s \in Seq(S), NEW a \in Nat \ {0}, NEW b \in Nat, b <= Len(s)
    PROVE  /\ SubSeq(s, a, b) \in Seq(S)
           /\ Len(SubSeq(s, a, b)) = IF a <= b THEN b - a + 1 ELSE 0
           /\ \A i \in 1..Len(SubSeq(s, a, b)) : SubSeq(s, a, b)[i] = s[a + i - 1]
<1>1. \A i \in a..b : s[i] \in S
  BY ElementOfSeq
<1>2. a \in Int /\ b \in Int
  OBVIOUS
<1>3. /\ SubSeq(s, a, b) \in Seq(S)
      /\ Len(SubSeq(s, a, b)) = IF a <= b THEN b - a + 1 ELSE 0
      /\ \A i \in 1..(b - a + 1) : SubSeq(s, a, b)[i] = s[a + i - 1]
  BY <1>1, <1>2, SubSeqProperties
<1>4. ASSUME NEW i \in 1..Len(SubSeq(s, a, b)) PROVE i \in 1..(b - a + 1)
  BY <1>3
<1> QED BY <1>3, <1>4

\* An element put into a sequence.
LEMMA InsertFacts ==
    ASSUME NEW S, NEW s \in Seq(S), NEW e \in S, NEW i \in 1..(Len(s) + 1)
    PROVE  /\ InsertAt(s, i, e) \in Seq(S)
           /\ Len(InsertAt(s, i, e)) = Len(s) + 1
           /\ \A j \in 1..(Len(s) + 1) : InsertAt(s, i, e)[j] =
                IF j < i THEN s[j] ELSE IF j = i THEN e ELSE s[j - 1]
<1> DEFINE a == SubSeq(s, 1, i - 1)
           b == SubSeq(s, i, Len(s))
<1>1. Len(s) \in Nat /\ i \in Nat \ {0} /\ i - 1 \in Nat /\ i - 1 <= Len(s)
  OBVIOUS
<1>2. a \in Seq(S) /\ Len(a) = i - 1 /\ \A j \in 1..Len(a) : a[j] = s[j]
  BY <1>1, PieceFacts
<1>3. b \in Seq(S) /\ Len(b) = Len(s) - i + 1 /\ \A j \in 1..Len(b) : b[j] = s[i + j - 1]
  BY <1>1, PieceFacts
<1>4. <<e>> \in Seq(S) /\ Len(<<e>>) = 1 /\ <<e>>[1] = e
  OBVIOUS
<1> HIDE DEF a, b
<1>5. PICK f : f = a \o <<e>>
  OBVIOUS
<1>6. f \in Seq(S) /\ Len(f) = i /\ \A j \in 1..i : f[j] = IF j < i THEN s[j] ELSE e
  <2>1. /\ f \in Seq(S) /\ Len(f) = Len(a) + 1
        /\ \A j \in 1..(Len(a) + 1) : f[j] = IF j <= Len(a) THEN a[j] ELSE <<e>>[j - Len(a)]
    BY <1>2, <1>4, <1>5, ConcatProperties
  <2> QED BY <1>1, <1>2, <1>4, <2>1
<1>7. PICK g : g = f \o b
  OBVIOUS
<1>8. /\ g \in Seq(S) /\ Len(g) = Len(f) + Len(b)
      /\ \A j \in 1..(Len(f) + Len(b)) : g[j] = IF j <= Len(f) THEN f[j] ELSE b[j - Len(f)]
  BY <1>3, <1>6, <1>7, ConcatProperties
<1>9. Len(g) = Len(s) + 1
  BY <1>1, <1>3, <1>6, <1>8
<1>10. ASSUME NEW j \in 1..(Len(s) + 1)
       PROVE  g[j] = IF j < i THEN s[j] ELSE IF j = i THEN e ELSE s[j - 1]
  <2>1. CASE j <= i
    <3>1. j \in 1..i
      BY <2>1
    <3>2. j \in 1..(Len(f) + Len(b)) /\ j <= Len(f)
      BY <1>1, <1>3, <1>6, <2>1
    <3>3. g[j] = f[j]
      BY <1>8, <3>2
    <3> QED BY <1>6, <2>1, <3>1, <3>3
  <2>2. CASE j > i
    <3>1. j - i \in 1..Len(b) /\ i + (j - i) - 1 = j - 1
      BY <1>1, <1>3, <2>2
    <3>2. j \in 1..(Len(f) + Len(b)) /\ ~(j <= Len(f)) /\ j - Len(f) = j - i
      BY <1>1, <1>3, <1>6, <2>2
    <3>3. g[j] = b[j - i]
      BY <1>8, <3>2
    <3> QED BY <1>1, <1>3, <2>2, <3>1, <3>3
  <2> QED BY <1>1, <2>1, <2>2
<1>11. g = InsertAt(s, i, e)
  BY <1>5, <1>7 DEF InsertAt, a, b
<1> QED BY <1>8, <1>9, <1>10, <1>11

\* The m elements of s behind the first o.
IsPiece(r, s, o, m, S) ==
    r \in Seq(S) /\ Len(r) = m /\ \A j \in 1..m : r[j] = s[o + j]

\* SubSeq is a piece.
LEMMA IsPieceFacts ==
    ASSUME NEW S, NEW s \in Seq(S), NEW o \in Nat, NEW m \in Nat, o + m <= Len(s),
           NEW a, a = o + 1, NEW b, b = o + m
    PROVE  IsPiece(SubSeq(s, a, b), s, o, m, S)
<1>1. a \in Nat \ {0} /\ b \in Nat /\ b <= Len(s)
  OBVIOUS
<1>2. PICK r : r = SubSeq(s, a, b)
  OBVIOUS
<1>3. /\ r \in Seq(S) /\ Len(r) = IF a <= b THEN b - a + 1 ELSE 0
      /\ \A i \in 1..Len(r) : r[i] = s[a + i - 1]
  BY <1>1, <1>2, PieceFacts
<1>4. Len(r) = m
  BY <1>1, <1>3
<1>5. ASSUME NEW j \in 1..m PROVE r[j] = s[o + j]
  <2>1. r[j] = s[a + j - 1] /\ a + j - 1 = o + j
    BY <1>3, <1>4
  <2> QED BY <2>1
<1> QED BY <1>2, <1>3, <1>4, <1>5 DEF IsPiece

\* Sequence s with e put at place i.
IsInserted(r, s, i, e, S) ==
    /\ r \in Seq(S) /\ Len(r) = Len(s) + 1
    /\ \A j \in 1..(Len(s) + 1) :
         r[j] = IF j < i THEN s[j] ELSE IF j = i THEN e ELSE s[j - 1]

\* InsertAt, as a fact to cite.
LEMMA IsInsertedFacts ==
    ASSUME NEW S, NEW s \in Seq(S), NEW e \in S, NEW i \in 1..(Len(s) + 1)
    PROVE  IsInserted(InsertAt(s, i, e), s, i, e, S)
<1>1. /\ InsertAt(s, i, e) \in Seq(S)
      /\ Len(InsertAt(s, i, e)) = Len(s) + 1
      /\ \A j \in 1..(Len(s) + 1) : InsertAt(s, i, e)[j] =
           IF j < i THEN s[j] ELSE IF j = i THEN e ELSE s[j - 1]
  BY InsertFacts
<1> QED BY <1>1 DEF IsInserted

-----------------------------------------------------------------------------
(* A sequence of sequences as one                                          *)

\* F[i] is the first i members of f, one after the other.
IsFlat(F, f, n, B) ==
    F \in [1..n -> Seq(B)] /\ F[1] = f[1] /\ \A i \in 2..n : F[i] = F[i - 1] \o f[i]

\* There are such prefixes, and the last is the flat sequence.
LEMMA FlatSteps ==
    ASSUME NEW B, NEW n \in Nat \ {0}, NEW f \in [1..n -> Seq(B)]
    PROVE  \E F : IsFlat(F, f, n, B) /\ FlattenSeq(f) = F[n]
<1> DEFINE Step(F, i) == IF i = 1 THEN f[i] ELSE F[i - 1] \o f[i]
           Is(F, k) == F \in [1..k -> Seq(B)] /\ \A i \in 1..k : F[i] = Step(F, i)
           Good == {k \in Nat : k <= n => \E F : Is(F, k)}
           One(F) == F = [i \in 1..n |-> IF i = 1 THEN f[i] ELSE F[i - 1] \o f[i]]
           G == CHOOSE F : One(F)
<1>1. 0 \in Good
  <2>1. Is([i \in 1..0 |-> <<>>], 0)
    OBVIOUS
  <2> QED BY <2>1
<1>2. ASSUME NEW k \in Nat, k \in Good PROVE k + 1 \in Good
  <2> SUFFICES ASSUME k + 1 <= n PROVE \E F : Is(F, k + 1)
    <3> HIDE DEF Is
    <3> QED OBVIOUS
  <2>1. PICK F : Is(F, k)
    <3> HIDE DEF Is
    <3>1. k <= n
      OBVIOUS
    <3> QED BY <1>2, <3>1
  <2> DEFINE H == [i \in 1..(k + 1) |-> IF i = k + 1 THEN Step(F, i) ELSE F[i]]
  <2>2. Step(F, k + 1) \in Seq(B)
    <3>1. f[k + 1] \in Seq(B)
      OBVIOUS
    <3>2. k # 0 => F[k] \in Seq(B)
      BY <2>1
    <3>3. k # 0 => F[k] \o f[k + 1] \in Seq(B)
      BY <3>1, <3>2, ConcatProperties
    <3>4. (k + 1 = 1 <=> k = 0) /\ k + 1 - 1 = k
      OBVIOUS
    <3> QED BY <3>1, <3>3, <3>4
  <2>3. \A i \in 1..k : i \in 1..(k + 1) /\ i # k + 1 /\ F[i] \in Seq(B)
    BY <2>1
  <2>4. H \in [1..(k + 1) -> Seq(B)]
    BY <2>2, <2>3
  <2>5. \A i \in 1..(k + 1) : i # 1 => i - 1 \in 1..k
    OBVIOUS
  <2>6. \A i \in 1..(k + 1) : Step(H, i) = Step(F, i)
    BY <2>3, <2>5
  <2>7. \A i \in 1..(k + 1) : H[i] = Step(F, i)
    <3>1. \A i \in 1..k : F[i] = Step(F, i)
      BY <2>1
    <3>2. \A i \in 1..(k + 1) : i = k + 1 \/ i \in 1..k
      OBVIOUS
    <3> HIDE DEF Step
    <3> QED BY <3>1, <3>2
  <2>8. Is(H, k + 1)
    BY <2>4, <2>6, <2>7
  <2> QED BY <2>8
<1>3. \E F : Is(F, n)
  <2> HIDE DEF Is
  <2>1. Nat \subseteq Good
    <3> HIDE DEF Good
    <3> QED BY <1>1, <1>2, NaturalInduction
  <2> QED BY <2>1
<1>4. \E F : One(F)
  BY <1>3
<1>5. One(G)
  <2> HIDE DEF One
  <2> QED BY <1>4
<1>6. DOMAIN f = 1..n /\ Len(f) = n
  OBVIOUS
<1>7. FlattenSeq(f) = G[n]
  BY <1>6 DEF FlattenSeq
<1> HIDE DEF G
<1>8. \A i \in 1..n : G[i] = Step(G, i)
  BY <1>5
<1>9. DOMAIN G = 1..n /\ G = [i \in 1..n |-> G[i]]
  BY <1>5
<1> DEFINE Typed == {k \in Nat : k \in 1..n => G[k] \in Seq(B)}
<1>10. \A k \in Nat : k \in Typed
  <2>1. 0 \in Typed
    OBVIOUS
  <2>2. ASSUME NEW k \in Nat, k \in Typed PROVE k + 1 \in Typed
    <3> SUFFICES ASSUME k + 1 \in 1..n PROVE G[k + 1] \in Seq(B)
      OBVIOUS
    <3>1. f[k + 1] \in Seq(B)
      OBVIOUS
    <3>2. k # 0 => G[k] \o f[k + 1] \in Seq(B)
      <4>1. k # 0 => G[k] \in Seq(B)
        BY <2>2
      <4> QED BY <3>1, <4>1, ConcatProperties
    <3>3. (k + 1 = 1 <=> k = 0) /\ k + 1 - 1 = k
      OBVIOUS
    <3>4. G[k + 1] = Step(G, k + 1)
      BY <1>8
    <3>5. CASE k = 0
      BY <3>1, <3>4, <3>5
    <3>6. CASE k # 0
      <4>1. G[k + 1] = G[k] \o f[k + 1]
        <5>1. \A i \in 1..n : i # 1 => G[i] = G[i - 1] \o f[i]
          BY <1>8
        <5> PICK j \in 1..n : j = k + 1
          OBVIOUS
        <5>2. j # 1 /\ j - 1 = k
          BY <3>6
        <5>3. G[j] = G[j - 1] \o f[j]
          BY <5>1, <5>2
        <5> QED BY <5>2, <5>3, Zenon
      <4> QED BY <3>2, <3>6, <4>1
    <3> QED BY <3>5, <3>6
  <2> HIDE DEF Typed
  <2> QED BY <2>1, <2>2, NaturalInduction
<1>11. \A k \in 1..n : G[k] \in Seq(B)
  BY <1>10
<1>12. IsFlat(G, f, n, B)
  <2>1. 1 \in 1..n /\ \A i \in 2..n : i \in 1..n /\ i # 1
    OBVIOUS
  <2>2. G \in [1..n -> Seq(B)]
    BY <1>9, <1>11
  <2> QED BY <1>8, <2>1, <2>2 DEF IsFlat
<1> QED BY <1>7, <1>12

\* The flat sequence has the members of its parts.
LEMMA FlatType ==
    ASSUME NEW B, NEW n \in Nat \ {0}, NEW f \in [1..n -> Seq(B)]
    PROVE  FlattenSeq(f) \in Seq(B)
<1>1. PICK F : IsFlat(F, f, n, B) /\ FlattenSeq(f) = F[n]
  BY FlatSteps
<1>2. n \in 1..n /\ F \in [1..n -> Seq(B)]
  BY <1>1 DEF IsFlat
<1> QED BY <1>1, <1>2

-----------------------------------------------------------------------------
(* Sequences that rise                                                     *)

\* Keys in a node ascend, and those before and behind child i surround it.
Rising(s) == \A i, j \in 1..Len(s) : i < j => s[i] < s[j]
Between(s, i, k) == (i > 1 => s[i - 1] <= k) /\ (i <= Len(s) => k < s[i])
Inside(s, i, k) == (i > 1 => s[i - 1] < k) /\ (i <= Len(s) => k < s[i])
IsRising(s) == Len(s) \in Nat /\ (\A i \in 1..Len(s) : s[i] \in Int) /\ Rising(s)

\* Which keys go to which child after a key k0, from the range of child i, was put
\* into the keys s of a node at place i.
Widened(s, s2, i, k0) ==
    /\ IsRising(s2)
    /\ \A j \in 1..(i - 1), k \in Int : Between(s2, j, k) <=> Between(s, j, k)
    /\ \A k \in Int : Between(s2, i, k) <=> Between(s, i, k) /\ k < k0
    /\ \A k \in Int : Between(s2, i + 1, k) <=> Between(s, i, k) /\ k0 <= k
    /\ \A j \in (i + 2)..(Len(s) + 2), k \in Int : Between(s2, j, k) <=> Between(s, j - 1, k)

\* A key put where it belongs.
LEMMA WidenedFacts ==
    ASSUME NEW s, IsRising(s), NEW i \in 1..(Len(s) + 1), NEW k0 \in Int, Inside(s, i, k0),
           NEW s2, Len(s2) = Len(s) + 1,
           \A j \in 1..(Len(s) + 1) : s2[j] = IF j < i THEN s[j] ELSE IF j = i THEN k0 ELSE s[j - 1]
    PROVE  Widened(s, s2, i, k0)
<1> PICK e \in Nat : e = Len(s)
  BY DEF IsRising
<1>1. /\ \A j \in 1..e : s[j] \in Int
      /\ \A j, l \in 1..e : j < l => s[j] < s[l]
  BY DEF IsRising, Rising
<1>2. i \in 1..(e + 1) /\ Len(s2) = e + 1
  OBVIOUS
<1>3. /\ \A j \in 1..(e + 1) : j < i => s2[j] = s[j] /\ s[j] \in Int
      /\ s2[i] = k0
      /\ \A j \in 1..(e + 1) : j > i => s2[j] = s[j - 1] /\ s[j - 1] \in Int
  BY <1>1, <1>2
<1>4. (i > 1 => s[i - 1] < k0) /\ (i <= e => k0 < s[i])
  BY DEF Inside
<1>5. \A j \in 1..e : j < i => s[j] < k0
  <2> SUFFICES ASSUME NEW j \in 1..e, j < i PROVE s[j] < k0
    OBVIOUS
  <2>1. i - 1 \in 1..e /\ i > 1
    BY <1>2
  <2>2. s[i - 1] < k0 /\ s[i - 1] \in Int /\ s[j] \in Int
    BY <1>1, <1>4, <2>1
  <2>3. CASE j = i - 1
    BY <2>2, <2>3
  <2>4. CASE j # i - 1
    <3>1. s[j] < s[i - 1]
      BY <1>1, <2>1, <2>4
    <3> QED BY <2>2, <3>1
  <2> QED BY <2>3, <2>4
<1>6. \A j \in 1..e : j >= i => k0 < s[j]
  <2> SUFFICES ASSUME NEW j \in 1..e, j >= i PROVE k0 < s[j]
    OBVIOUS
  <2>1. i \in 1..e
    BY <1>2
  <2>2. k0 < s[i] /\ s[i] \in Int /\ s[j] \in Int
    BY <1>1, <1>4, <2>1
  <2>3. j = i \/ s[i] < s[j]
    BY <1>1, <2>1
  <2> QED BY <2>2, <2>3
<1>7. IsRising(s2)
  <2>1. \A j \in 1..(e + 1) : s2[j] \in Int
    <3> SUFFICES ASSUME NEW j \in 1..(e + 1) PROVE s2[j] \in Int
      OBVIOUS
    <3>1. j < i \/ j = i \/ j > i
      BY <1>2
    <3> QED BY <1>3, <3>1
  <2>2. ASSUME NEW j \in 1..(e + 1), NEW l \in 1..(e + 1), j < l PROVE s2[j] < s2[l]
    <3>1. CASE l < i
      <4>1. s2[j] = s[j] /\ s2[l] = s[l] /\ j \in 1..e /\ l \in 1..e
        BY <1>2, <1>3, <2>2, <3>1
      <4> QED BY <1>1, <2>2, <4>1
    <3>2. CASE l = i
      <4>1. s2[j] = s[j] /\ s2[l] = k0 /\ j \in 1..e /\ s2[j] \in Int /\ j < i
        BY <1>2, <1>3, <2>2, <3>2
      <4> QED BY <1>5, <4>1
    <3>3. CASE l > i
      <4>1. s2[l] = s[l - 1] /\ l - 1 \in 1..e /\ s2[l] \in Int
        BY <1>2, <1>3, <3>3
      <4>2. CASE j < i
        <5>1. s2[j] = s[j] /\ j \in 1..e /\ j < l - 1
          BY <1>2, <1>3, <3>3, <4>2
        <5> QED BY <1>1, <4>1, <5>1
      <4>3. CASE j = i
        <5>1. s2[j] = k0 /\ l - 1 >= i
          BY <1>2, <1>3, <3>3, <4>3
        <5> QED BY <1>6, <4>1, <5>1
      <4>4. CASE j > i
        <5>1. s2[j] = s[j - 1] /\ j - 1 \in 1..e /\ j - 1 < l - 1
          BY <1>2, <1>3, <2>2, <4>4
        <5> QED BY <1>1, <4>1, <5>1
      <4> QED BY <1>2, <4>2, <4>3, <4>4
    <3> QED BY <1>2, <3>1, <3>2, <3>3
  <2> QED BY <2>1, <2>2 DEF IsRising, Rising
<1>8. ASSUME NEW j \in 1..(i - 1), NEW k \in Int PROVE Between(s2, j, k) <=> Between(s, j, k)
  <2>1. j \in 1..e /\ j \in 1..(e + 1) /\ j < i
    BY <1>2
  <2>2. s2[j] = s[j] /\ (j > 1 => j - 1 \in 1..(e + 1) /\ s2[j - 1] = s[j - 1])
    BY <1>2, <1>3, <2>1
  <2> QED BY <1>2, <2>1, <2>2 DEF Between
<1>9. ASSUME NEW k \in Int PROVE Between(s2, i, k) <=> Between(s, i, k) /\ k < k0
  <2>1. i > 1 => i - 1 \in 1..(e + 1) /\ s2[i - 1] = s[i - 1]
    BY <1>2, <1>3
  <2>2. i <= e => k0 < s[i] /\ s[i] \in Int
    BY <1>1, <1>2, <1>4
  <2>3. k < k0 => (i <= e => k < s[i])
    BY <2>2
  <2>4. s2[i] = k0 /\ i <= e + 1
    BY <1>2, <1>3
  <2> QED BY <1>2, <2>1, <2>3, <2>4 DEF Between
<1>10. ASSUME NEW k \in Int PROVE Between(s2, i + 1, k) <=> Between(s, i, k) /\ k0 <= k
  <2>1. i > 1 => s[i - 1] < k0 /\ s[i - 1] \in Int
    BY <1>1, <1>2, <1>4
  <2>2. k0 <= k => (i > 1 => s[i - 1] <= k)
    BY <2>1
  <2>3. i + 1 <= e + 1 => s2[i + 1] = s[i]
    BY <1>2, <1>3
  <2>4. i + 1 > 1 /\ (i + 1) - 1 = i /\ s2[i] = k0 /\ (i + 1 <= e + 1 <=> i <= e)
    BY <1>2, <1>3
  <2>5. Between(s2, i + 1, k) <=> k0 <= k /\ (i <= e => k < s[i])
    BY <1>2, <2>3, <2>4 DEF Between
  <2> QED BY <2>2, <2>5 DEF Between
<1>11. ASSUME NEW j \in (i + 2)..(e + 2), NEW k \in Int
       PROVE  Between(s2, j, k) <=> Between(s, j - 1, k)
  <2>1. j > 1 /\ j - 1 > 1 /\ j - 1 \in 1..(e + 1) /\ j - 1 > i /\ j > i /\ (j <= e + 1 <=> j - 1 <= e)
    BY <1>2
  <2>2. s2[j - 1] = s[j - 1 - 1]
    BY <1>3, <2>1
  <2>3. j <= e + 1 => s2[j] = s[j - 1]
    BY <1>3, <2>1
  <2> QED BY <1>2, <2>1, <2>2, <2>3 DEF Between
<1> QED BY <1>7, <1>8, <1>9, <1>10, <1>11 DEF Widened

\* The keys of a node before its q-th, and those behind it.
IsHead(s, s1, q) == Len(s1) = q /\ \A j \in 1..q : s1[j] = s[j]
IsTail(s, s1, q) == Len(s1) = Len(s) - q /\ \A j \in 1..(Len(s) - q) : s1[j] = s[q + j]
Headed(s, s1, q) ==
    /\ IsRising(s1) /\ \A j \in 1..q : s1[j] < s[q + 1]
    /\ \A j \in 1..(q + 1), k \in Int : Between(s, j, k) <=> Between(s1, j, k) /\ k < s[q + 1]
Tailed(s, s1, q) ==
    \A j \in 1..(Len(s) - q + 1), k \in Int :
      Between(s, q + j, k) <=> Between(s1, j, k) /\ s[q] <= k

\* The first keys of a node.
LEMMA FirstKeys ==
    ASSUME NEW s, IsRising(s), NEW q \in Nat, q + 1 <= Len(s), NEW s1, IsHead(s, s1, q)
    PROVE  Headed(s, s1, q)
<1> PICK e \in Nat : e = Len(s)
  BY DEF IsRising
<1>1. /\ \A j \in 1..e : s[j] \in Int
      /\ \A j, l \in 1..e : j < l => s[j] < s[l]
  BY DEF IsRising, Rising
<1>2. Len(s1) = q /\ q + 1 <= e /\ q + 1 \in 1..e /\ \A j \in 1..q : j \in 1..e /\ s1[j] = s[j]
  BY DEF IsHead
<1>3. IsRising(s1)
  BY <1>1, <1>2 DEF IsRising, Rising
<1>4. \A j \in 1..q : s1[j] < s[q + 1]
  BY <1>1, <1>2
<1>5. ASSUME NEW j \in 1..(q + 1), NEW k \in Int
      PROVE  Between(s, j, k) <=> Between(s1, j, k) /\ k < s[q + 1]
  <2>1. j > 1 => s1[j - 1] = s[j - 1]
    BY <1>2
  <2>2. CASE j = q + 1
    <3>1. j <= e /\ ~(j <= q)
      BY <1>2, <2>2
    <3> QED BY <1>2, <2>1, <2>2, <3>1 DEF Between
  <2>3. CASE j # q + 1
    <3>1. j \in 1..q /\ j <= e /\ s1[j] = s[j] /\ s[j] < s[q + 1] /\ s[j] \in Int /\ s[q + 1] \in Int
      BY <1>1, <1>2, <2>3
    <3> QED BY <1>2, <2>1, <3>1 DEF Between
  <2> QED BY <2>2, <2>3
<1> QED BY <1>3, <1>4, <1>5 DEF Headed

\* The last keys of a node.
LEMMA TailRises ==
    ASSUME NEW s, IsRising(s), NEW q \in Nat, q <= Len(s), NEW s1, IsTail(s, s1, q)
    PROVE  IsRising(s1) /\ \A j \in 1..Len(s1), l \in 1..q : s[l] < s1[j]
<1> PICK e \in Nat : e = Len(s)
  BY DEF IsRising
<1>1. /\ \A j \in 1..e : s[j] \in Int
      /\ \A j, l \in 1..e : j < l => s[j] < s[l]
  BY DEF IsRising, Rising
<1>2. Len(s1) = e - q /\ Len(s1) \in Nat /\ \A j \in 1..(e - q) : q + j \in 1..e /\ s1[j] = s[q + j]
  BY DEF IsTail
<1>3. IsRising(s1)
  BY <1>1, <1>2 DEF IsRising, Rising
<1>4. ASSUME NEW j \in 1..(e - q), NEW l \in 1..q PROVE s[l] < s1[j]
  <2>1. l \in 1..e /\ q + j \in 1..e /\ l < q + j
    BY <1>2
  <2> QED BY <1>1, <1>2, <2>1
<1> QED BY <1>2, <1>3, <1>4

\* The last keys of a node, as separators.
LEMMA LastKeys ==
    ASSUME NEW s, IsRising(s), NEW q \in Nat, q >= 1, q <= Len(s), NEW s1, IsTail(s, s1, q)
    PROVE  Tailed(s, s1, q)
<1> PICK e \in Nat : e = Len(s)
  BY DEF IsRising
<1>1. /\ \A j \in 1..e : s[j] \in Int
      /\ \A j, l \in 1..e : j < l => s[j] < s[l]
  BY DEF IsRising, Rising
<1>2. Len(s1) = e - q /\ Len(s1) \in Nat /\ \A j \in 1..(e - q) : q + j \in 1..e /\ s1[j] = s[q + j]
  BY DEF IsTail
<1>3. ASSUME NEW j \in 1..(e - q + 1), NEW k \in Int
      PROVE  Between(s, q + j, k) <=> Between(s1, j, k) /\ s[q] <= k
  <2>1. (q + j <= e <=> j <= Len(s1)) /\ (j <= Len(s1) => s1[j] = s[q + j]) /\ q + j > 1
    BY <1>2
  <2>2. CASE j = 1
    <3>1. (q + j) - 1 = q /\ ~(j > 1)
      BY <2>2
    <3> QED BY <2>1, <3>1 DEF Between
  <2>3. CASE j # 1
    <3>1. j - 1 \in 1..(e - q) /\ j > 1 /\ (q + j) - 1 = q + (j - 1)
      BY <2>3
    <3>2. s1[j - 1] = s[(q + j) - 1] /\ (q + j) - 1 \in 1..e /\ q \in 1..e /\ q < (q + j) - 1
      BY <1>2, <3>1
    <3>3. s[q] < s1[j - 1] /\ s[q] \in Int /\ s1[j - 1] \in Int
      BY <1>1, <3>2
    <3>4. s1[j - 1] <= k => s[q] <= k
      BY <3>3
    <3> QED BY <2>1, <3>1, <3>2, <3>4 DEF Between
  <2> QED BY <2>2, <2>3
<1> QED BY <1>3 DEF Tailed
=============================================================================
