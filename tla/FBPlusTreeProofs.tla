-------------------------- MODULE FBPlusTreeProofs --------------------------
(***************************************************************************)
(* FBPlusTree keeps its types and its ownership, is a set of maps, and is  *)
(* iterated over completely, for every degree, every set of keys and       *)
(* values and every number of nodes and trees: Invariance, TypeCorrect and *)
(* OneOwnerHolds in "The invariant", ImplementsMapsHolds and               *)
(* IterationHolds at the end.  The nodes are a forest whose shape two      *)
(* functions witness: a node's rank, its distance from the leaves, and its *)
(* owner, the tree it is in.  A third, the zone of a node, is the set of   *)
(* keys a search that reaches the node may be after; the zones of a tree's *)
(* leaves are in the order of the chain.                                   *)
(***************************************************************************)
EXTENDS FBPlusTree, FiniteFolds, SequenceTheorems, TLAPS

-----------------------------------------------------------------------------
(* Nodes that are free                                                     *)

\* A finite set of numbers as a sequence.
LEMMA AscendingFacts ==
    ASSUME NEW S \in SUBSET Int, IsFiniteSet(S)
    PROVE  /\ Ascending(S) \in Seq(S) /\ Len(Ascending(S)) = Cardinality(S)
           /\ \A i, j \in 1..Cardinality(S) : i < j => Ascending(S)[i] < Ascending(S)[j]
           /\ \A x \in S : \E i \in 1..Cardinality(S) : Ascending(S)[i] = x
<1> DEFINE n == Cardinality(S)
           At(i) == CHOOSE x \in S : Cardinality({y \in S : y < x}) = i - 1
           s == [i \in 1..n |-> At(i)]
<1>1. n \in Nat
  BY FS_CardinalityType
<1>2. ASSUME NEW i \in 1..n PROVE s[i] \in S /\ Cardinality(Less(S, s[i])) = i - 1
  BY PlacesTaken DEF Less
<1>3. s = Ascending(S)
  BY DEF Ascending
<1> HIDE DEF s
<1>4. DOMAIN s = 1..n
  BY DEF s
<1>5. s \in Seq(S) /\ Len(s) = n
  <2>1. s \in [1..n -> S]
    BY <1>2, <1>4 DEF s
  <2> QED BY <1>1, <2>1, IsASeq, LenProperties
<1>6. ASSUME NEW i \in 1..n, NEW j \in 1..n, i < j PROVE s[i] < s[j]
  <2>1. s[i] \in S /\ s[j] \in S /\ s[i] \in Int /\ s[j] \in Int
    BY <1>2
  <2>2. Cardinality(Less(S, s[i])) = i - 1 /\ Cardinality(Less(S, s[j])) = j - 1
    BY <1>2
  <2>3. s[i] # s[j]
    BY <1>6, <2>2
  <2>4. ~(s[j] < s[i])
    <3> SUFFICES ASSUME s[j] < s[i] PROVE FALSE
      OBVIOUS
    <3>1. Cardinality(Less(S, s[j])) < Cardinality(Less(S, s[i]))
      BY <2>1, PlaceStrict
    <3> QED BY <1>6, <2>2, <3>1
  <2> QED BY <2>1, <2>3, <2>4
<1>7. ASSUME NEW x \in S PROVE \E i \in 1..n : s[i] = x
  <2>1. IsFiniteSet(Less(S, x)) /\ Less(S, x) \in SUBSET S /\ x \notin Less(S, x)
    BY FS_Subset DEF Less
  <2>2. Cardinality(Less(S, x)) \in Nat
    BY <2>1, FS_CardinalityType
  <2>3. Cardinality(Less(S, x)) <= n /\ Cardinality(Less(S, x)) # n
    BY <2>1, FS_Subset
  <2>4. PICK i : i = Cardinality(Less(S, x)) + 1
    OBVIOUS
  <2>5. i \in 1..n
    BY <1>1, <2>2, <2>3, <2>4
  <2>6. s[i] \in S /\ Cardinality(Less(S, s[i])) = Cardinality(Less(S, x))
    BY <1>2, <2>2, <2>4, <2>5
  <2>7. s[i] = x
    <3> DEFINE y == s[i]
    <3>1. y \in S /\ y \in Int /\ x \in Int
      BY <2>6
    <3>2. y < x => Cardinality(Less(S, y)) < Cardinality(Less(S, x))
      BY <3>1, PlaceStrict
    <3>3. x < y => Cardinality(Less(S, x)) < Cardinality(Less(S, y))
      BY <3>1, PlaceStrict
    <3> QED BY <2>2, <2>6, <3>1, <3>2, <3>3
  <2> QED BY <2>5, <2>7
<1> QED BY <1>3, <1>5, <1>6, <1>7

\* The nodes new returns are different ones and not in use.
AreFree(s, h, k) ==
    /\ s \in Seq((1..MaxNodes) \ DOMAIN h) /\ Len(s) = k
    /\ \A i, j \in 1..k : s[i] = s[j] => i = j

\* What new returns when k nodes are free.
LEMMA FreeFacts ==
    ASSUME NEW h, DOMAIN h \subseteq 1..MaxNodes, NEW k \in Nat,
           Cardinality(DOMAIN h) + k <= MaxNodes
    PROVE  AreFree(FreeNodes(h, k), h, k)
<1> DEFINE S == (1..MaxNodes) \ DOMAIN h
<1>1. IsFiniteSet(1..MaxNodes) /\ Cardinality(1..MaxNodes) = MaxNodes
  <2>1. 1 \in Int /\ MaxNodes \in Int
    BY MaxNodesAssumption
  <2>2. IsFiniteSet(1..MaxNodes) /\ Cardinality(1..MaxNodes) = IF 1 > MaxNodes THEN 0 ELSE MaxNodes - 1 + 1
    BY <2>1, FS_Interval
  <2> QED BY <2>2, MaxNodesAssumption
<1>2. IsFiniteSet(S) /\ Cardinality(S) = MaxNodes - Cardinality(DOMAIN h) /\ Cardinality(S) \in Nat
  <2>1. (1..MaxNodes) \intersect DOMAIN h = DOMAIN h
    OBVIOUS
  <2>2. /\ IsFiniteSet((1..MaxNodes) \ DOMAIN h)
        /\ Cardinality((1..MaxNodes) \ DOMAIN h) =
             Cardinality(1..MaxNodes) - Cardinality((1..MaxNodes) \intersect DOMAIN h)
    BY <1>1, FS_Difference
  <2> QED BY <1>1, <2>1, <2>2, FS_CardinalityType
<1>3. S \in SUBSET Int
  BY MaxNodesAssumption
<1>4. Cardinality(DOMAIN h) \in Nat
  BY <1>1, FS_Subset, FS_CardinalityType
<1>5. PICK s : s = Ascending(S)
  OBVIOUS
<1> HIDE DEF S
<1>6. /\ s \in Seq(S) /\ Len(s) = Cardinality(S)
      /\ \A i, j \in 1..Cardinality(S) : i < j => s[i] < s[j]
  BY <1>2, <1>3, <1>5, AscendingFacts
<1>7. k <= Len(s)
  BY <1>2, <1>4, <1>6, MaxNodesAssumption
<1>8. PICK f : f = SubSeq(s, 1, k)
  OBVIOUS
<1>9. f \in Seq(S) /\ Len(f) = k /\ \A i \in 1..k : f[i] = s[i]
  <2>1. 1 \in Nat \ {0}
    OBVIOUS
  <2>2. /\ f \in Seq(S) /\ Len(f) = IF 1 <= k THEN k - 1 + 1 ELSE 0
        /\ \A i \in 1..Len(f) : f[i] = s[1 + i - 1]
    BY <1>6, <1>7, <1>8, <2>1, PieceFacts
  <2>3. Len(f) = k
    BY <2>2
  <2> QED BY <2>2, <2>3
<1>10. ASSUME NEW i \in 1..k, NEW j \in 1..k, f[i] = f[j] PROVE i = j
  <2>1. i \in 1..Cardinality(S) /\ j \in 1..Cardinality(S)
    BY <1>2, <1>6, <1>7
  <2>2. s[i] \in Int /\ s[j] \in Int
    BY <1>3, <1>6, <2>1, ElementOfSeq
  <2>3. s[i] = s[j]
    BY <1>9, <1>10
  <2>4. i \in Int /\ j \in Int
    OBVIOUS
  <2> QED BY <1>6, <2>1, <2>2, <2>3, <2>4
<1>11. f = FreeNodes(h, k)
  BY <1>5, <1>8 DEF FreeNodes, S
<1> QED BY <1>9, <1>10, <1>11 DEF S, AreFree

-----------------------------------------------------------------------------
(* Forests                                                                 *)

IsNode(n) ==
    /\ DOMAIN n = {"leaf", "keys", "values", "children", "next"}
    /\ n.leaf \in BOOLEAN /\ n.keys \in Seq(Keys)
    /\ n.values \in Seq(Values) /\ n.children \in Seq(1..MaxNodes)
HeapType(h) == DOMAIN h \subseteq 1..MaxNodes /\ \A n \in DOMAIN h : IsNode(h[n])

\* The rank of a node is its height above the leaves; its owner is the tree it is in.
Linked(h, rank, own) ==
    /\ HeapType(h)
    /\ rank \in [DOMAIN h -> Nat] /\ own \in [DOMAIN h -> Trees]
    /\ \A n \in DOMAIN h :
         /\ h[n].leaf <=> rank[n] = 0
         /\ IF h[n].leaf THEN h[n].children = <<>> /\ Len(h[n].values) = Len(h[n].keys)
                         ELSE Len(h[n].children) = Len(h[n].keys) + 1
         /\ \A i \in 1..Len(h[n].children) :
              /\ h[n].children[i] \in DOMAIN h
              /\ rank[h[n].children[i]] + 1 = rank[n]
              /\ own[h[n].children[i]] = own[n]

IsChild(h, n, c) == \E i \in 1..Len(h[n].children) : h[n].children[i] = c

\* Every node is the root of its tree, or a child of one node, at one place.
Rooted(h, r, own) ==
    /\ r \in [Trees -> DOMAIN h \union {Nil}]
    /\ \A t \in Trees : r[t] # Nil => own[r[t]] = t
    /\ \A n \in DOMAIN h : n = r[own[n]] <=> ~\E m \in DOMAIN h : IsChild(h, m, n)
    /\ \A m, n \in DOMAIN h :
         \A i \in 1..Len(h[m].children), j \in 1..Len(h[n].children) :
           h[m].children[i] = h[n].children[j] => m = n /\ i = j

Forest(h, r, rank, own) == Linked(h, rank, own) /\ Rooted(h, r, own)

\* There are finitely many nodes, and Nil is none.
LEMMA HeapFinite ==
    ASSUME NEW h, HeapType(h)
    PROVE  IsFiniteSet(DOMAIN h) /\ Nil \notin DOMAIN h
<1>1. IsFiniteSet(1..MaxNodes)
  <2>1. 1 \in Int /\ MaxNodes \in Int
    BY MaxNodesAssumption
  <2> QED BY <2>1, FS_Interval
<1> QED BY <1>1, FS_Subset, NilAssumption DEF HeapType

\* A node and the nodes below it.
LEMMA SubtreeStep ==
    ASSUME NEW h, NEW rank, NEW own, Linked(h, rank, own)
    PROVE  /\ Subtree(h, Nil) = {}
           /\ \A n \in DOMAIN h :
                /\ Subtree(h, n) \subseteq DOMAIN h
                /\ Subtree(h, n) = {n} \union
                     UNION {Subtree(h, h[n].children[i]) : i \in DOMAIN h[n].children}
<1> DEFINE D == DOMAIN h
           B == SUBSET D
           step == [p \in D \X [D -> B] |->
                      {p[1]} \union UNION {p[2][h[p[1]].children[i]] : i \in DOMAIN h[p[1]].children}]
           Is(f) == f = [m \in D |-> {m} \union UNION {f[h[m].children[i]] : i \in DOMAIN h[m].children}]
           G == CHOOSE f : Is(f)
<1>1. IsFiniteSet(D) /\ Nil \notin D
  BY HeapFinite DEF Linked
<1>2. ASSUME NEW m \in D, NEW i \in DOMAIN h[m].children
      PROVE  h[m].children[i] \in D /\ rank[h[m].children[i]] < rank[m]
  <2>1. h[m].children \in Seq(1..MaxNodes)
    BY DEF Linked, HeapType, IsNode
  <2>2. i \in 1..Len(h[m].children)
    BY <2>1
  <2>3. h[m].children[i] \in D /\ rank[h[m].children[i]] + 1 = rank[m]
    BY <2>2 DEF Linked
  <2>4. rank[h[m].children[i]] \in Nat
    BY <2>3 DEF Linked
  <2> QED BY <2>3, <2>4
<1>3. step \in [D \X [D -> B] -> B]
  <2> SUFFICES ASSUME NEW m \in D, NEW f \in [D -> B]
               PROVE  {m} \union UNION {f[h[m].children[i]] : i \in DOMAIN h[m].children} \in B
    OBVIOUS
  <2> QED BY <1>2
<1>4. ASSUME NEW m \in D, NEW f \in [D -> B], NEW g \in [D -> B],
             \A x \in D : rank[x] < rank[m] => f[x] = g[x]
      PROVE  step[<<m, f>>] = step[<<m, g>>]
  <2>1. \A i \in DOMAIN h[m].children : f[h[m].children[i]] = g[h[m].children[i]]
    BY <1>2, <1>4
  <2>2. {f[h[m].children[i]] : i \in DOMAIN h[m].children} =
          {g[h[m].children[i]] : i \in DOMAIN h[m].children}
    BY <2>1
  <2>3. /\ step[<<m, f>>] = {m} \union UNION {f[h[m].children[i]] : i \in DOMAIN h[m].children}
        /\ step[<<m, g>>] = {m} \union UNION {g[h[m].children[i]] : i \in DOMAIN h[m].children}
    OBVIOUS
  <2> HIDE DEF step
  <2> QED BY <2>2, <2>3
<1>5. \E f : IsRecursive(f, D, B, step)
  <2>1. rank \in [D -> Nat] /\ {} \in B
    BY DEF Linked
  <2> HIDE DEF D, B, step
  <2>2. IsRankedStep(step, D, rank, B)
    BY <1>3, <1>4 DEF IsRankedStep
  <2>3. IsFiniteSet(D)
    BY <1>1
  <2> QED BY <2>1, <2>2, <2>3, RankedRecursion
<1>6. \E f : Is(f)
  <2>1. PICK f \in [D -> B] : \A m \in D : f[m] = step[<<m, f>>]
    BY <1>5 DEF IsRecursive
  <2>2. \A m \in D : step[<<m, f>>] =
                        {m} \union UNION {f[h[m].children[i]] : i \in DOMAIN h[m].children}
    OBVIOUS
  <2>3. f = [m \in D |-> {m} \union UNION {f[h[m].children[i]] : i \in DOMAIN h[m].children}]
    <3> HIDE DEF step
    <3> QED BY <2>1, <2>2
  <2> QED BY <2>3
<1>7. Is(G)
  <2> HIDE DEF Is
  <2> QED BY <1>6
<1>8. \A n : Subtree(h, n) = IF n = Nil THEN {} ELSE G[n]
  BY DEF Subtree
<1> HIDE DEF G
<1>9. \A n \in D : G[n] = {n} \union UNION {G[h[n].children[i]] : i \in DOMAIN h[n].children}
  BY <1>7
<1>10. \A n \in D : Subtree(h, n) = {n} \union
                      UNION {Subtree(h, h[n].children[i]) : i \in DOMAIN h[n].children}
  <2> SUFFICES ASSUME NEW n \in D
               PROVE  Subtree(h, n) = {n} \union
                        UNION {Subtree(h, h[n].children[i]) : i \in DOMAIN h[n].children}
    OBVIOUS
  <2>1. \A i \in DOMAIN h[n].children : Subtree(h, h[n].children[i]) = G[h[n].children[i]]
    BY <1>1, <1>2, <1>8
  <2>2. Subtree(h, n) = G[n]
    BY <1>1, <1>8
  <2> QED BY <1>9, <2>1, <2>2
<1> DEFINE Good == {n \in D : Subtree(h, n) \subseteq D}
<1>11. D \subseteq Good
  <2>1. ASSUME NEW m \in D, \A x \in D : rank[x] < rank[m] => x \in Good PROVE m \in Good
    <3>1. \A i \in DOMAIN h[m].children : Subtree(h, h[m].children[i]) \subseteq D
      BY <1>2, <2>1
    <3> QED BY <1>10, <3>1
  <2>2. rank \in [D -> Nat]
    BY DEF Linked
  <2> HIDE DEF Good, D
  <2> QED BY <2>1, <2>2, RankInduction
<1> QED BY <1>8, <1>10, <1>11

\* A node's children.
LEMMA ChildFacts ==
    ASSUME NEW h, NEW rank, NEW own, Linked(h, rank, own), NEW n \in DOMAIN h
    PROVE  /\ h[n].children \in Seq(1..MaxNodes) /\ Len(h[n].children) \in Nat
           /\ DOMAIN h[n].children = 1..Len(h[n].children)
           /\ h[n].keys \in Seq(Keys) /\ Len(h[n].keys) \in Nat
           /\ rank[n] \in Nat /\ own[n] \in Trees /\ n # Nil
           /\ \A i \in 1..Len(h[n].children) :
                /\ h[n].children[i] \in DOMAIN h
                /\ rank[h[n].children[i]] \in Nat /\ rank[h[n].children[i]] < rank[n]
<1>1. h[n].children \in Seq(1..MaxNodes) /\ h[n].keys \in Seq(Keys) /\ n # Nil
  <2>1. HeapType(h)
    BY DEF Linked
  <2>2. Nil \notin DOMAIN h /\ IsNode(h[n])
    BY <2>1, HeapFinite DEF HeapType
  <2> QED BY <2>2 DEF IsNode
<1>2. rank[n] \in Nat /\ own[n] \in Trees
  BY DEF Linked
<1>3. ASSUME NEW i \in 1..Len(h[n].children)
      PROVE  h[n].children[i] \in DOMAIN h /\ rank[h[n].children[i]] + 1 = rank[n]
  BY DEF Linked
<1>4. \A m \in DOMAIN h : rank[m] \in Nat
  BY DEF Linked
<1> QED BY <1>1, <1>2, <1>3, <1>4

\* All nodes below a node are in its tree, and their children are below it too.
LEMMA SubtreeClosed ==
    ASSUME NEW h, NEW rank, NEW own, Linked(h, rank, own)
    PROVE  \A n \in DOMAIN h : \A m \in Subtree(h, n) :
             own[m] = own[n] /\ \A c \in DOMAIN h : IsChild(h, m, c) => c \in Subtree(h, n)
<1> DEFINE Closed(n) == \A m \in Subtree(h, n) :
              own[m] = own[n] /\ \A c \in DOMAIN h : IsChild(h, m, c) => c \in Subtree(h, n)
           Good == {n \in DOMAIN h : Closed(n)}
<1>1. ASSUME NEW n \in DOMAIN h, \A x \in DOMAIN h : rank[x] < rank[n] => x \in Good
      PROVE  Closed(n)
  <2>1. ASSUME NEW i \in 1..Len(h[n].children)
        PROVE  /\ h[n].children[i] \in Good /\ own[h[n].children[i]] = own[n]
               /\ Subtree(h, h[n].children[i]) \subseteq Subtree(h, n)
    <3>1. h[n].children[i] \in Good
      BY <1>1, ChildFacts, ZenonT(40)
    <3>2. own[h[n].children[i]] = own[n]
      BY DEF Linked
    <3>3. i \in DOMAIN h[n].children
      BY ChildFacts
    <3> QED BY <3>1, <3>2, <3>3, SubtreeStep
  <2>2. \A i \in 1..Len(h[n].children) : h[n].children[i] \in Subtree(h, n)
    <3> SUFFICES ASSUME NEW i \in 1..Len(h[n].children) PROVE h[n].children[i] \in Subtree(h, n)
      OBVIOUS
    <3>1. h[n].children[i] \in Subtree(h, h[n].children[i])
      BY ChildFacts, SubtreeStep
    <3> QED BY <2>1, <3>1
  <2>3. ASSUME NEW m \in Subtree(h, n)
        PROVE  own[m] = own[n] /\ \A c \in DOMAIN h : IsChild(h, m, c) => c \in Subtree(h, n)
    <3>1. CASE m = n
      BY <2>2, <3>1 DEF IsChild
    <3>2. CASE m # n
      <4>1. PICK i \in 1..Len(h[n].children) : m \in Subtree(h, h[n].children[i])
        BY <3>2, SubtreeStep, ChildFacts
      <4> QED BY <2>1, <4>1
    <3> QED BY <3>1, <3>2
  <2> QED BY <2>3
<1>2. DOMAIN h \subseteq Good
  <2>1. rank \in [DOMAIN h -> Nat]
    BY DEF Linked
  <2>2. \A n \in DOMAIN h : (\A x \in DOMAIN h : rank[x] < rank[n] => x \in Good) => n \in Good
    BY <1>1
  <2> HIDE DEF Good
  <2> QED BY <2>1, <2>2, RankInduction
<1> QED BY <1>2

\* The nodes of a tree are those it owns.
LEMMA SubtreeOwned ==
    ASSUME NEW h, NEW r, NEW rank, NEW own, Forest(h, r, rank, own), NEW t \in Trees
    PROVE  /\ Subtree(h, r[t]) = {n \in DOMAIN h : own[n] = t}
           /\ r[t] = Nil => \A n \in DOMAIN h : own[n] # t
<1> USE DEF Forest
<1> DEFINE Lost == {n \in DOMAIN h : own[n] = t /\ n \notin Subtree(h, r[t])}
<1>1. IsFiniteSet(DOMAIN h) /\ Nil \notin DOMAIN h
  BY HeapFinite DEF Linked
<1>2. r[t] \in DOMAIN h \union {Nil}
  BY DEF Rooted
<1>3. Subtree(h, r[t]) \subseteq {n \in DOMAIN h : own[n] = t}
  <2>1. CASE r[t] = Nil
    BY <2>1, SubtreeStep
  <2>2. CASE r[t] # Nil
    <3>1. r[t] \in DOMAIN h /\ own[r[t]] = t
      BY <1>2, <2>2 DEF Rooted
    <3> QED BY <3>1, SubtreeStep, SubtreeClosed
  <2> QED BY <2>1, <2>2
<1>4. Lost = {}
  <2> SUFFICES ASSUME Lost # {} PROVE FALSE
    OBVIOUS
  <2>1. rank \in [DOMAIN h -> Nat] /\ Lost \in SUBSET DOMAIN h
    BY DEF Linked
  <2>2. PICK n \in Lost : \A x \in Lost : rank[x] <= rank[n]
    <3> HIDE DEF Lost
    <3> QED BY <1>1, <2>1, GreatestRank
  <2>3. n \in DOMAIN h /\ own[n] = t /\ n \notin Subtree(h, r[t])
    OBVIOUS
  <2>4. n # r[t]
    <3>1. n \in Subtree(h, n)
      BY <2>3, SubtreeStep
    <3> QED BY <2>3, <3>1
  <2>5. PICK m \in DOMAIN h : IsChild(h, m, n)
    BY <2>3, <2>4 DEF Rooted
  <2>6. own[m] = t /\ rank[m] > rank[n] /\ rank[n] \in Nat /\ rank[m] \in Nat
    <3>1. PICK i \in 1..Len(h[m].children) : h[m].children[i] = n
      BY <2>5 DEF IsChild
    <3>2. own[n] = own[m]
      BY <3>1 DEF Linked
    <3> QED BY <2>3, <3>1, <3>2, ChildFacts
  <2>7. m \in Subtree(h, r[t])
    <3>1. m \notin Lost
      BY <2>2, <2>6
    <3> QED BY <2>6, <3>1
  <2>8. r[t] \in DOMAIN h
    BY <1>2, <2>7, SubtreeStep
  <2> QED BY <2>3, <2>5, <2>7, <2>8, SubtreeClosed
<1>5. ASSUME r[t] = Nil, NEW n \in DOMAIN h, own[n] = t PROVE FALSE
  <2>1. n \in Subtree(h, Nil)
    BY <1>4, <1>5
  <2> QED BY <2>1, SubtreeStep
<1> QED BY <1>3, <1>4, <1>5

-----------------------------------------------------------------------------
(* Splits                                                                  *)

\* What split_child does to child c, the i-th of parent p.
Middle(n) == Len(n.keys) \div 2
LeftHalf(n, neu) ==
    IF n.leaf THEN Leaf(SubSeq(n.keys, 1, Middle(n)), SubSeq(n.values, 1, Middle(n)), neu)
    ELSE Inner(SubSeq(n.keys, 1, Middle(n)), SubSeq(n.children, 1, Middle(n) + 1))
RightHalf(n) ==
    IF n.leaf THEN Leaf(SubSeq(n.keys, Middle(n) + 1, Len(n.keys)),
                        SubSeq(n.values, Middle(n) + 1, Len(n.keys)), n.next)
    ELSE Inner(SubSeq(n.keys, Middle(n) + 2, Len(n.keys)),
               SubSeq(n.children, Middle(n) + 2, Len(n.children)))
SplitParent(h, p, i, c, neu) ==
    Inner(InsertAt(h[p].keys, i, h[c].keys[Middle(h[c]) + 1]), InsertAt(h[p].children, i + 1, neu))
IsSplit(h, g, p, i, c, neu) ==
    /\ DOMAIN g = DOMAIN h \union {neu}
    /\ g[p] = SplitParent(h, p, i, c, neu)
    /\ g[c] = LeftHalf(h[c], neu) /\ g[neu] = RightHalf(h[c])
    /\ \A n \in DOMAIN h \ {p, c} : g[n] = h[n]

\* What split_child does to the nodes, whatever their contents.
LEMMA SplitFacts ==
    ASSUME NEW h, NEW rank, NEW own, Linked(h, rank, own),
           NEW p \in DOMAIN h, NEW i \in 1..Len(h[p].children), NEW neu \in (1..MaxNodes) \ DOMAIN h
    PROVE  IsSplit(h, SplitChild(h, p, i, neu), p, i, h[p].children[i], neu)
<1> DEFINE c == h[p].children[i]
<1>1. c \in DOMAIN h /\ c # p /\ neu # c /\ neu # p
  <2>1. c \in DOMAIN h /\ rank[c] < rank[p] /\ rank[p] \in Nat
    BY ChildFacts
  <2> QED BY <2>1
<1> HIDE DEF c
<1> DEFINE split == IF h[c].leaf THEN SplitLeaf(h, c, neu) ELSE SplitInner(h, c, neu)
<1>2. SplitChild(h, p, i, neu) = With(split, p, SplitParent(h, p, i, c, neu))
  BY DEF SplitChild, c, SplitParent, Middle
<1>3. split = With(With(h, c, LeftHalf(h[c], neu)), neu, RightHalf(h[c]))
  BY <1>1 DEF SplitLeaf, SplitInner, LeftHalf, RightHalf, Middle
<1> HIDE DEF split
<1>4. PICK f : f = With(h, c, LeftHalf(h[c], neu))
  OBVIOUS
<1>5. /\ DOMAIN f = DOMAIN h /\ f[c] = LeftHalf(h[c], neu)
      /\ \A n \in DOMAIN h \ {c} : f[n] = h[n]
  BY <1>1, <1>4 DEF With
<1>6. /\ DOMAIN split = DOMAIN h \union {neu} /\ split[c] = LeftHalf(h[c], neu)
      /\ split[neu] = RightHalf(h[c])
      /\ \A n \in DOMAIN h \ {c} : split[n] = h[n]
  BY <1>1, <1>3, <1>4, <1>5 DEF With
<1>7. PICK g : g = SplitChild(h, p, i, neu)
  OBVIOUS
<1>8. IsSplit(h, g, p, i, c, neu)
  BY <1>1, <1>2, <1>6, <1>7 DEF With, IsSplit
<1> QED BY <1>7, <1>8 DEF c

\* What the two halves of a full node n hold.
Halved(n, l, r, neu) ==
    LET q == Middle(n) IN
    /\ IsNode(l) /\ IsNode(r) /\ l.leaf = n.leaf /\ r.leaf = n.leaf
    /\ Len(l.keys) = q /\ \A j \in 1..q : l.keys[j] = n.keys[j]
    /\ n.leaf =>
         /\ Len(r.keys) = Len(n.keys) - q
         /\ \A j \in 1..(Len(n.keys) - q) : r.keys[j] = n.keys[q + j]
         /\ Len(l.values) = q /\ \A j \in 1..q : l.values[j] = n.values[j]
         /\ Len(r.values) = Len(n.keys) - q
         /\ \A j \in 1..(Len(n.keys) - q) : r.values[j] = n.values[q + j]
         /\ l.children = <<>> /\ r.children = <<>> /\ l.next = neu /\ r.next = n.next
    /\ ~n.leaf =>
         /\ Len(r.keys) = Len(n.keys) - q - 1
         /\ \A j \in 1..(Len(n.keys) - q - 1) : r.keys[j] = n.keys[q + 1 + j]
         /\ Len(l.children) = q + 1
         /\ \A j \in 1..(q + 1) : l.children[j] = n.children[j]
         /\ Len(r.children) = Len(n.children) - q - 1
         /\ \A j \in 1..(Len(n.children) - q - 1) : r.children[j] = n.children[q + 1 + j]
         /\ l.values = <<>> /\ r.values = <<>>

\* A node with keys and values only, and one with keys and children.
LEMMA LeafIsNode ==
    ASSUME NEW keys \in Seq(Keys), NEW values \in Seq(Values), NEW next
    PROVE  IsNode(Leaf(keys, values, next))
<1>1. <<>> \in Seq(1..MaxNodes)
  OBVIOUS
<1> QED BY <1>1 DEF IsNode, Leaf

\* An inner node has the members of a node.
LEMMA InnerIsNode ==
    ASSUME NEW keys \in Seq(Keys), NEW children \in Seq(1..MaxNodes)
    PROVE  IsNode(Inner(keys, children))
<1>1. <<>> \in Seq(Values)
  OBVIOUS
<1> QED BY <1>1 DEF IsNode, Inner

\* The halves of a full node's keys, without the middle one, are large enough.
LEMMA HalfOf ==
    ASSUME NEW k \in Nat, NEW d \in Nat, d >= 2, k >= 2 * d - 1
    PROVE  k \div 2 \in Nat /\ k \div 2 >= d - 1 /\ k - (k \div 2) - 1 >= d - 1
<1>1. k \div 2 \in Int /\ 2 * (k \div 2) <= k /\ k < 2 * (k \div 2) + 2
  BY SMT
<1> QED BY <1>1

\* A full node has keys on both sides of the middle.
LEMMA MiddleFacts ==
    ASSUME NEW n, n.keys \in Seq(Keys), Full(n)
    PROVE  /\ Middle(n) \in Nat /\ Middle(n) >= MinDegree - 1 /\ Middle(n) >= 1
           /\ Len(n.keys) \in Nat /\ MinDegree \in Nat /\ MinDegree >= 2
           /\ Len(n.keys) - Middle(n) - 1 >= MinDegree - 1
<1>1. PICK k \in Nat : k = Len(n.keys)
  BY LenProperties
<1>2. MinDegree \in Nat /\ MinDegree >= 2 /\ k >= 2 * MinDegree - 1
  BY <1>1, MinDegreeAssumption DEF Full, MaxKeys
<1>3. /\ k \div 2 \in Nat /\ k \div 2 >= MinDegree - 1
      /\ k - (k \div 2) - 1 >= MinDegree - 1
  BY <1>2, HalfOf
<1>4. Middle(n) = k \div 2
  BY <1>1 DEF Middle
<1>5. k - Middle(n) - 1 >= MinDegree - 1 /\ Middle(n) \in Nat /\ Middle(n) >= MinDegree - 1
  BY <1>3, <1>4
<1>6. Middle(n) >= 1
  BY <1>2, <1>5
<1> QED BY <1>1, <1>2, <1>5, <1>6

\* Both halves of a full node are nodes, and how long they are.
LEMMA HalvesFacts ==
    ASSUME NEW n, IsNode(n), Full(n), NEW neu \in 1..MaxNodes,
           IF n.leaf THEN Len(n.values) = Len(n.keys) ELSE Len(n.children) = Len(n.keys) + 1
    PROVE  Halved(n, LeftHalf(n, neu), RightHalf(n), neu)
<1>1. n.keys \in Seq(Keys) /\ n.values \in Seq(Values) /\ n.children \in Seq(1..MaxNodes)
      /\ n.leaf \in BOOLEAN
  BY DEF IsNode
<1> PICK q : q = Middle(n)
  OBVIOUS
<1> PICK k : k = Len(n.keys)
  OBVIOUS
<1>2. q \in Nat /\ q >= 1 /\ k \in Nat /\ q + 1 <= k
  BY <1>1, MiddleFacts, MinDegreeAssumption
<1>3. q + 1 \in Nat /\ k - q \in Nat /\ k - q - 1 \in Nat /\ 0 \in Nat /\ 1 = 0 + 1 /\ q = 0 + q
      /\ k = q + (k - q) /\ k = (q + 1) + (k - q - 1) /\ q + 2 = (q + 1) + 1 /\ q + 1 = 0 + (q + 1)
  BY <1>2, SMTT(30)
<1>4. PICK lk : lk = SubSeq(n.keys, 1, q)
  OBVIOUS
<1>5. IsPiece(lk, n.keys, 0, q, Keys)
  <2>1. 0 + q <= Len(n.keys)
    BY <1>2
  <2> QED BY <1>1, <1>2, <1>3, <1>4, <2>1, IsPieceFacts
<1>6. CASE n.leaf
  <2>1. PICK rk : rk = SubSeq(n.keys, q + 1, k)
    OBVIOUS
  <2>2. PICK lv : lv = SubSeq(n.values, 1, q)
    OBVIOUS
  <2>3. PICK rv : rv = SubSeq(n.values, q + 1, k)
    OBVIOUS
  <2>4. IsPiece(rk, n.keys, q, k - q, Keys)
    <3>1. q + (k - q) <= Len(n.keys)
      BY <1>2
    <3> QED BY <1>1, <1>2, <1>3, <2>1, <3>1, IsPieceFacts
  <2>5. IsPiece(lv, n.values, 0, q, Values) /\ IsPiece(rv, n.values, q, k - q, Values)
    <3>1. 0 + q <= Len(n.values) /\ q + (k - q) <= Len(n.values)
      BY <1>2, <1>6
    <3> QED BY <1>1, <1>2, <1>3, <2>2, <2>3, <3>1, IsPieceFacts
  <2>6. PICK l : l = Leaf(lk, lv, neu)
    OBVIOUS
  <2>7. PICK r : r = Leaf(rk, rv, n.next)
    OBVIOUS
  <2>8. IsNode(l) /\ IsNode(r)
    BY <1>5, <2>4, <2>5, <2>6, <2>7, LeafIsNode DEF IsPiece
  <2>9. /\ l.leaf = TRUE /\ l.keys = lk /\ l.values = lv /\ l.children = <<>> /\ l.next = neu
        /\ r.leaf = TRUE /\ r.keys = rk /\ r.values = rv /\ r.children = <<>> /\ r.next = n.next
    BY <2>6, <2>7 DEF Leaf
  <2>10. n.leaf = TRUE
    BY <1>1, <1>6
  <2>11. Len(lk) = q /\ \A j \in 1..q : lk[j] = n.keys[j]
    BY <1>2, <1>5 DEF IsPiece
  <2>12. Len(rk) = k - q /\ \A j \in 1..(k - q) : rk[j] = n.keys[q + j]
    BY <2>4 DEF IsPiece
  <2>13. Len(lv) = q /\ \A j \in 1..q : lv[j] = n.values[j]
    BY <1>2, <2>5 DEF IsPiece
  <2>14. Len(rv) = k - q /\ \A j \in 1..(k - q) : rv[j] = n.values[q + j]
    BY <2>5 DEF IsPiece
  <2>15. Halved(n, l, r, neu)
    BY <2>8, <2>9, <2>10, <2>11, <2>12, <2>13, <2>14 DEF Halved
  <2> QED BY <1>4, <1>6, <2>1, <2>2, <2>3, <2>6, <2>7, <2>15 DEF LeftHalf, RightHalf
<1>7. CASE ~n.leaf
  <2> PICK ids : ids = 1..MaxNodes
    OBVIOUS
  <2> PICK u : u = n.children
    OBVIOUS
  <2>1. u \in Seq(ids) /\ Len(u) = k + 1 /\ Len(u) = (q + 1) + (k - q)
    <3>1. u \in Seq(ids)
      BY <1>1
    <3>2. Len(u) = k + 1
      BY <1>7
    <3>3. k + 1 = (q + 1) + (k - q)
      BY <1>2
    <3> QED BY <3>1, <3>2, <3>3
  <2>2. PICK rk : rk = SubSeq(n.keys, q + 2, k)
    OBVIOUS
  <2>3. PICK lc : lc = SubSeq(u, 1, q + 1)
    OBVIOUS
  <2>4. PICK rc : rc = SubSeq(u, q + 2, Len(u))
    OBVIOUS
  <2>5. IsPiece(rk, n.keys, q + 1, k - q - 1, Keys)
    <3>1. (q + 1) + (k - q - 1) <= Len(n.keys)
      BY <1>2
    <3> QED BY <1>1, <1>2, <1>3, <2>2, <3>1, IsPieceFacts
  <2>6. IsPiece(lc, u, 0, q + 1, ids)
    <3>1. 0 + (q + 1) <= Len(u)
      BY <1>2, <2>1
    <3> QED BY <1>3, <2>1, <2>3, <3>1, IsPieceFacts
  <2>7. IsPiece(rc, u, q + 1, k - q, ids)
    <3>1. (q + 1) + (k - q) <= Len(u)
      BY <1>2, <2>1
    <3> QED BY <1>3, <2>1, <2>4, <3>1, IsPieceFacts
  <2>8. PICK l : l = Inner(lk, lc)
    OBVIOUS
  <2>9. PICK r : r = Inner(rk, rc)
    OBVIOUS
  <2>10. IsNode(l) /\ IsNode(r)
    BY <1>5, <2>5, <2>6, <2>7, <2>8, <2>9, InnerIsNode DEF IsPiece
  <2>11. /\ l.leaf = FALSE /\ l.keys = lk /\ l.values = <<>> /\ l.children = lc
         /\ r.leaf = FALSE /\ r.keys = rk /\ r.values = <<>> /\ r.children = rc
    BY <2>8, <2>9 DEF Inner
  <2>12. n.leaf = FALSE
    BY <1>1, <1>7
  <2>13. Len(lk) = q /\ \A j \in 1..q : lk[j] = n.keys[j]
    BY <1>2, <1>5 DEF IsPiece
  <2>14. Len(rk) = k - q - 1 /\ \A j \in 1..(k - q - 1) : rk[j] = n.keys[q + 1 + j]
    BY <2>5 DEF IsPiece
  <2>15. Len(lc) = q + 1 /\ \A j \in 1..(q + 1) : lc[j] = n.children[j]
    BY <1>2, <2>6 DEF IsPiece
  <2>16. Len(rc) = Len(n.children) - q - 1
         /\ \A j \in 1..(Len(n.children) - q - 1) : rc[j] = n.children[q + 1 + j]
    <3>1. Len(n.children) - q - 1 = k - q
      BY <1>2, <2>1
    <3> QED BY <2>7, <3>1 DEF IsPiece
  <2>17. Halved(n, l, r, neu)
    BY <2>10, <2>11, <2>12, <2>13, <2>14, <2>15, <2>16 DEF Halved
  <2> QED BY <1>4, <1>7, <2>2, <2>3, <2>4, <2>8, <2>9, <2>17 DEF LeftHalf, RightHalf
<1> QED BY <1>1, <1>6, <1>7

\* What the parent holds after the split.
Promoted(n, m, i, k, neu) ==
    /\ IsNode(m) /\ ~m.leaf /\ m.values = <<>>
    /\ Len(m.keys) = Len(n.keys) + 1 /\ Len(m.children) = Len(n.children) + 1
    /\ \A j \in 1..(Len(n.keys) + 1) : m.keys[j] =
         IF j < i THEN n.keys[j] ELSE IF j = i THEN k ELSE n.keys[j - 1]
    /\ \A j \in 1..(Len(n.children) + 1) : m.children[j] =
         IF j < i + 1 THEN n.children[j] ELSE IF j = i + 1 THEN neu ELSE n.children[j - 1]

\* The parent of a split node: one key and one child more.
LEMMA PromotedFacts ==
    ASSUME NEW n, IsNode(n), ~n.leaf, Len(n.children) = Len(n.keys) + 1,
           NEW i \in 1..Len(n.children), NEW k \in Keys, NEW neu \in 1..MaxNodes
    PROVE  Promoted(n, Inner(InsertAt(n.keys, i, k), InsertAt(n.children, i + 1, neu)), i, k, neu)
<1>1. PICK ids : ids = 1..MaxNodes
  OBVIOUS
<1>2. PICK s \in Seq(Keys) : s = n.keys
  BY DEF IsNode
<1>3. PICK u \in Seq(ids) : u = n.children
  BY <1>1 DEF IsNode
<1>4. PICK i1 : i1 = i + 1
  OBVIOUS
<1>5. i \in 1..(Len(s) + 1) /\ i1 \in 1..(Len(u) + 1) /\ neu \in ids
  BY <1>1, <1>2, <1>3, <1>4
<1>6. PICK a : a = InsertAt(s, i, k)
  OBVIOUS
<1>7. PICK b : b = InsertAt(u, i1, neu)
  OBVIOUS
<1>8. IsInserted(a, s, i, k, Keys)
  BY <1>5, <1>6, IsInsertedFacts
<1>9. IsInserted(b, u, i1, neu, ids)
  BY <1>5, <1>7, IsInsertedFacts
<1>10. PICK m : m = Inner(a, b)
  OBVIOUS
<1>11. IsNode(m)
  BY <1>1, <1>8, <1>9, <1>10, InnerIsNode DEF IsInserted
<1>12. ~m.leaf /\ m.values = <<>> /\ m.keys = a /\ m.children = b
  BY <1>10 DEF Inner
<1>13. Promoted(n, m, i, k, neu)
  BY <1>2, <1>3, <1>4, <1>8, <1>9, <1>11, <1>12 DEF Promoted, IsInserted
<1> QED BY <1>2, <1>3, <1>4, <1>6, <1>7, <1>10, <1>13

\* Node x is the j-th child of node m.
Slot(h, m, j, x) == m \in DOMAIN h /\ j \in 1..Len(h[m].children) /\ h[m].children[j] = x

\* The j-th child of m after a split was the j1-th child of m1 before it.
Moved(p, i, c, neu, q, m, j, m1, j1) ==
    \/ m \notin {p, c, neu} /\ m1 = m /\ j1 = j
    \/ m = p /\ m1 = p /\ j <= i /\ j1 = j
    \/ m = p /\ m1 = p /\ j > i + 1 /\ j1 = j - 1
    \/ m = c /\ m1 = c /\ j <= q + 1 /\ j1 = j
    \/ m = neu /\ m1 = c /\ j1 = q + 1 + j

\* A split of child c of p, with what the three nodes hold.
IsFullSplit(h, g, p, i, c, neu) ==
    /\ IsSplit(h, g, p, i, c, neu) /\ Full(h[c])
    /\ h[c].keys[Middle(h[c]) + 1] \in Keys
    /\ Halved(h[c], g[c], g[neu], neu)
    /\ Promoted(h[p], g[p], i, h[c].keys[Middle(h[c]) + 1], neu)

\* The split of a full child, in full.
LEMMA FullSplitFacts ==
    ASSUME NEW h, NEW rank, NEW own, Linked(h, rank, own),
           NEW p \in DOMAIN h, NEW i \in 1..Len(h[p].children), NEW neu \in (1..MaxNodes) \ DOMAIN h,
           NEW c, c = h[p].children[i], Full(h[c])
    PROVE  /\ IsFullSplit(h, SplitChild(h, p, i, neu), p, i, c, neu)
           /\ c \in DOMAIN h /\ c # p /\ ~h[p].leaf /\ rank[p] > 0
<1>1. c \in DOMAIN h /\ rank[c] < rank[p] /\ rank[c] \in Nat /\ rank[p] \in Nat
  BY ChildFacts
<1>2. IsNode(h[c]) /\ IsNode(h[p]) /\ rank[p] > 0 /\ c # p /\ ~h[p].leaf
  <2>1. rank[p] > 0 /\ c # p
    BY <1>1
  <2>2. IsNode(h[c]) /\ IsNode(h[p])
    BY <1>1 DEF Linked, HeapType
  <2>3. h[p].leaf <=> rank[p] = 0
    BY DEF Linked
  <2> QED BY <2>1, <2>2, <2>3
<1>3. PICK g : g = SplitChild(h, p, i, neu)
  OBVIOUS
<1>4. IsSplit(h, g, p, i, c, neu)
  BY <1>3, SplitFacts
<1>5. h[c].keys[Middle(h[c]) + 1] \in Keys
  <2>1. h[c].keys \in Seq(Keys)
    BY <1>2 DEF IsNode
  <2>2. Middle(h[c]) + 1 \in 1..Len(h[c].keys)
    BY <2>1, MiddleFacts, SMTT(30)
  <2> QED BY <2>1, <2>2, ElementOfSeq
<1>6. Halved(h[c], g[c], g[neu], neu)
  <2>1. IF h[c].leaf THEN Len(h[c].values) = Len(h[c].keys) ELSE Len(h[c].children) = Len(h[c].keys) + 1
    BY <1>1 DEF Linked
  <2>2. Halved(h[c], LeftHalf(h[c], neu), RightHalf(h[c]), neu)
    BY <1>2, <2>1, HalvesFacts
  <2> QED BY <1>4, <2>2 DEF IsSplit
<1>7. Promoted(h[p], g[p], i, h[c].keys[Middle(h[c]) + 1], neu)
  <2>1. Len(h[p].children) = Len(h[p].keys) + 1
    BY <1>2 DEF Linked
  <2>2. Promoted(h[p], SplitParent(h, p, i, c, neu), i, h[c].keys[Middle(h[c]) + 1], neu)
    BY <1>2, <1>5, <2>1, PromotedFacts DEF SplitParent
  <2> QED BY <1>4, <2>2 DEF IsSplit
<1> QED BY <1>1, <1>2, <1>3, <1>4, <1>5, <1>6, <1>7 DEF IsFullSplit

\* Every child has one place after a split: that of before, or that of the new node.
SameSlots(h, g, p, i, c, neu, q) ==
    /\ \A m, j, x : Slot(g, m, j, x) =>
         \/ m = p /\ j = i + 1 /\ x = neu
         \/ \E m1, j1 : Moved(p, i, c, neu, q, m, j, m1, j1) /\ Slot(h, m1, j1, x)
    /\ \A m1, j1, x : Slot(h, m1, j1, x) =>
         \E m, j : Moved(p, i, c, neu, q, m, j, m1, j1) /\ Slot(g, m, j, x)
    /\ Slot(g, p, i + 1, neu)

\* Where the children are after a split: the moved ones in the new node, at their place.
LEMMA SplitSlots ==
    ASSUME NEW h, NEW rank, NEW own, Linked(h, rank, own), NEW g,
           NEW p \in DOMAIN h, NEW i \in 1..Len(h[p].children), NEW neu \in (1..MaxNodes) \ DOMAIN h,
           NEW c \in DOMAIN h \ {p}, ~h[p].leaf, IsFullSplit(h, g, p, i, c, neu)
    PROVE  SameSlots(h, g, p, i, c, neu, Middle(h[c]))
<1> PICK q : q = Middle(h[c])
  OBVIOUS
<1>1. /\ Len(h[p].children) \in Nat /\ Len(h[c].children) \in Nat /\ i \in Nat /\ i >= 1 /\ i <= Len(h[p].children)
      /\ h[c].keys \in Seq(Keys)
  BY ChildFacts
<1>2. q \in Nat /\ Len(h[c].keys) \in Nat /\ Len(h[c].keys) >= q + 1
  BY <1>1, MiddleFacts DEF IsFullSplit
<1>3. h[c].leaf => h[c].children = <<>>
  BY DEF Linked
<1>4. ~h[c].leaf => Len(h[c].children) = Len(h[c].keys) + 1
  BY DEF Linked
<1>5. /\ DOMAIN g = DOMAIN h \union {neu} /\ neu \notin DOMAIN h
      /\ \A m \in DOMAIN h \ {p, c} : g[m] = h[m]
  BY DEF IsFullSplit, IsSplit
<1>6. /\ Len(g[p].children) = Len(h[p].children) + 1
      /\ \A j \in 1..(Len(h[p].children) + 1) : g[p].children[j] =
           IF j < i + 1 THEN h[p].children[j] ELSE IF j = i + 1 THEN neu ELSE h[p].children[j - 1]
  BY DEF IsFullSplit, Promoted
<1>7. h[c].leaf => g[c].children = <<>> /\ g[neu].children = <<>>
  BY DEF IsFullSplit, Halved
<1>8. ~h[c].leaf =>
        /\ Len(g[c].children) = q + 1
        /\ \A j \in 1..(q + 1) : g[c].children[j] = h[c].children[j]
        /\ Len(g[neu].children) = Len(h[c].children) - q - 1
        /\ \A j \in 1..(Len(h[c].children) - q - 1) : g[neu].children[j] = h[c].children[q + 1 + j]
  BY DEF IsFullSplit, Halved
<1>9. Len(<<>>) = 0
  OBVIOUS
<1>10. ASSUME NEW m, NEW j, NEW x, Slot(g, m, j, x)
       PROVE  \/ m = p /\ j = i + 1 /\ x = neu
              \/ \E m1, j1 : Moved(p, i, c, neu, q, m, j, m1, j1) /\ Slot(h, m1, j1, x)
  <2>1. m \in DOMAIN g /\ j \in 1..Len(g[m].children) /\ g[m].children[j] = x
    BY <1>10 DEF Slot
  <2>2. CASE m = p
    <3>1. j \in 1..(Len(h[p].children) + 1)
      BY <1>6, <2>1, <2>2
    <3>2. CASE j <= i
      <4>1. Slot(h, p, j, x)
        <5>1. j \in 1..Len(h[p].children)
          BY <1>1, <3>1, <3>2
        <5>2. j < i + 1
          BY <1>1, <3>1, <3>2
        <5> QED BY <1>6, <2>1, <2>2, <3>1, <5>1, <5>2 DEF Slot
      <4> QED BY <2>2, <3>2, <4>1 DEF Moved
    <3>3. CASE j = i + 1
      BY <1>1, <1>6, <2>1, <2>2, <3>1, <3>3
    <3>4. CASE j > i + 1
      <4>1. Slot(h, p, j - 1, x)
        <5>1. j - 1 \in 1..Len(h[p].children)
          BY <1>1, <3>1, <3>4
        <5>2. ~(j < i + 1) /\ j # i + 1
          BY <1>1, <3>1, <3>4
        <5> QED BY <1>6, <2>1, <2>2, <3>1, <5>1, <5>2 DEF Slot
      <4> QED BY <2>2, <3>4, <4>1 DEF Moved
    <3> QED BY <1>1, <3>1, <3>2, <3>3, <3>4
  <2>3. CASE m = c
    <3>1. ~h[c].leaf
      BY <1>7, <1>9, <2>1, <2>3
    <3>2. j \in 1..(q + 1) /\ j \in 1..Len(h[c].children) /\ j <= q + 1
      BY <1>2, <1>4, <1>8, <2>1, <2>3, <3>1
    <3>3. Slot(h, c, j, x)
      BY <1>8, <2>1, <2>3, <3>1, <3>2 DEF Slot
    <3> QED BY <2>3, <3>2, <3>3 DEF Moved
  <2>4. CASE m = neu
    <3>1. ~h[c].leaf
      BY <1>7, <1>9, <2>1, <2>4
    <3> PICK k \in Nat : k = Len(h[c].children)
      BY <1>1
    <3>0. j \in 1..(k - q - 1)
      BY <1>8, <2>1, <2>4, <3>1
    <3>2. j \in 1..(k - q - 1) /\ q + 1 + j \in 1..k
      BY <1>2, <3>0
    <3>3. Slot(h, c, q + 1 + j, x)
      BY <1>8, <2>1, <2>4, <3>1, <3>2 DEF Slot
    <3> QED BY <2>4, <3>3 DEF Moved
  <2>5. CASE m \notin {p, c, neu}
    BY <1>5, <2>1, <2>5 DEF Moved, Slot
  <2> QED BY <2>2, <2>3, <2>4, <2>5
<1>11. ASSUME NEW m1, NEW j1, NEW x, Slot(h, m1, j1, x)
       PROVE  \E m, j : Moved(p, i, c, neu, q, m, j, m1, j1) /\ Slot(g, m, j, x)
  <2>1. m1 \in DOMAIN h /\ j1 \in 1..Len(h[m1].children) /\ h[m1].children[j1] = x
    BY <1>11 DEF Slot
  <2>2. CASE m1 = p
    <3>1. CASE j1 <= i
      <4>1. Slot(g, p, j1, x)
        <5>1. j1 \in 1..(Len(h[p].children) + 1) /\ j1 < i + 1
          BY <1>1, <2>1, <2>2, <3>1
        <5> QED BY <1>5, <1>6, <2>1, <2>2, <5>1 DEF Slot
      <4> QED BY <2>2, <3>1, <4>1 DEF Moved
    <3>2. CASE j1 > i
      <4> PICK j : j = j1 + 1
        OBVIOUS
      <4>1. j \in 1..(Len(h[p].children) + 1) /\ ~(j < i + 1) /\ j # i + 1 /\ j - 1 = j1 /\ j > i + 1
        BY <1>1, <2>1, <2>2, <3>2
      <4>2. Slot(g, p, j, x)
        BY <1>5, <1>6, <2>1, <2>2, <4>1 DEF Slot
      <4> QED BY <2>2, <4>1, <4>2 DEF Moved
    <3> QED BY <1>1, <2>1, <2>2, <3>1, <3>2
  <2>3. CASE m1 = c
    <3>1. ~h[c].leaf
      BY <1>3, <1>9, <2>1, <2>3
    <3>2. CASE j1 <= q + 1
      <4>1. j1 \in 1..(q + 1)
        BY <1>2, <2>1, <2>3, <3>2
      <4>2. Slot(g, c, j1, x)
        BY <1>5, <1>8, <2>1, <2>3, <3>1, <4>1 DEF Slot
      <4> QED BY <2>3, <3>2, <4>2 DEF Moved
    <3>3. CASE j1 > q + 1
      <4> PICK j : j = j1 - q - 1
        OBVIOUS
      <4> PICK k \in Nat : k = Len(h[c].children)
        BY <1>1
      <4>0. j1 \in 1..k
        BY <2>1, <2>3
      <4>1. j \in 1..(k - q - 1) /\ q + 1 + j = j1
        BY <1>2, <3>3, <4>0, SMTT(30)
      <4>2. Slot(g, neu, j, x)
        BY <1>5, <1>8, <2>1, <2>3, <3>1, <4>1 DEF Slot
      <4> QED BY <2>3, <4>1, <4>2 DEF Moved
    <3> QED BY <1>1, <1>2, <2>1, <2>3, <3>2, <3>3
  <2>4. CASE m1 \notin {p, c}
    <3>1. m1 # neu
      BY <1>5, <2>1
    <3> QED BY <1>5, <2>1, <2>4, <3>1 DEF Moved, Slot
  <2> QED BY <2>2, <2>3, <2>4
<1>12. Slot(g, p, i + 1, neu)
  <2>1. i + 1 \in 1..(Len(h[p].children) + 1) /\ ~(i + 1 < i + 1)
    BY <1>1
  <2> QED BY <1>5, <1>6, <2>1 DEF Slot
<1> QED BY <1>10, <1>11, <1>12 DEF SameSlots

\* Slots and children are the same thing.
LEMMA SlotFacts ==
    ASSUME NEW h, NEW r, NEW rank, NEW own, Forest(h, r, rank, own)
    PROVE  /\ \A m, j, x : Slot(h, m, j, x) =>
                m \in DOMAIN h /\ x \in DOMAIN h /\ j \in Nat /\ j >= 1
                /\ rank[x] + 1 = rank[m] /\ own[x] = own[m]
           /\ \A m, j, x, m1, j1 : Slot(h, m, j, x) /\ Slot(h, m1, j1, x) => m = m1 /\ j = j1
           /\ \A x : (\E m \in DOMAIN h : IsChild(h, m, x)) <=> \E m, j : Slot(h, m, j, x)
           /\ \A n \in DOMAIN h : n = r[own[n]] <=> ~\E m, j : Slot(h, m, j, n)
<1>1. ASSUME NEW m, NEW j, NEW x, Slot(h, m, j, x)
      PROVE  m \in DOMAIN h /\ x \in DOMAIN h /\ j \in Nat /\ j >= 1
             /\ rank[x] + 1 = rank[m] /\ own[x] = own[m]
  <2>1. m \in DOMAIN h /\ j \in 1..Len(h[m].children) /\ h[m].children[j] = x
    BY <1>1 DEF Slot
  <2>2. x \in DOMAIN h /\ rank[x] + 1 = rank[m] /\ own[x] = own[m]
    BY <2>1 DEF Forest, Linked
  <2>3. Len(h[m].children) \in Nat
    BY <2>1, ChildFacts DEF Forest
  <2> QED BY <2>1, <2>2, <2>3
<1>2. \A m, j, x, m1, j1 : Slot(h, m, j, x) /\ Slot(h, m1, j1, x) => m = m1 /\ j = j1
  BY DEF Forest, Rooted, Slot
<1>3. \A x : (\E m \in DOMAIN h : IsChild(h, m, x)) <=> \E m, j : Slot(h, m, j, x)
  BY DEF Slot, IsChild
<1>4. \A n \in DOMAIN h : n = r[own[n]] <=> ~\E m \in DOMAIN h : IsChild(h, m, n)
  BY DEF Forest, Rooted
<1> QED BY <1>1, <1>2, <1>3, <1>4

BySlots(h, r, own) ==
    /\ r \in [Trees -> DOMAIN h \union {Nil}]
    /\ \A t \in Trees : r[t] # Nil => own[r[t]] = t
    /\ \A n \in DOMAIN h : n = r[own[n]] <=> ~\E m, j : Slot(h, m, j, n)
    /\ \A m, j, x, m1, j1 : Slot(h, m, j, x) /\ Slot(h, m1, j1, x) => m = m1 /\ j = j1

\* Where the children are is all that a forest depends on.
LEMMA RootedBySlots ==
    ASSUME NEW h, NEW r, NEW rank, NEW own, Linked(h, rank, own), BySlots(h, r, own)
    PROVE  Forest(h, r, rank, own)
<1>1. \A x : (\E m \in DOMAIN h : IsChild(h, m, x)) <=> \E m, j : Slot(h, m, j, x)
  BY DEF Slot, IsChild
<1>2. \A m, n \in DOMAIN h :
        \A i \in 1..Len(h[m].children), j \in 1..Len(h[n].children) :
          h[m].children[i] = h[n].children[j] => m = n /\ i = j
  BY ZenonT(40) DEF Slot, BySlots
<1> QED BY <1>1, <1>2 DEF Forest, Rooted, BySlots

\* A place of before is the place of one place after.
LEMMA MovedOnce ==
    ASSUME NEW p, NEW c, c # p, NEW neu, neu # p, neu # c, NEW q \in Nat, NEW i \in Nat,
           NEW m1, NEW j1 \in Nat, NEW m2, NEW j2 \in Nat, j1 >= 1, j2 >= 1,
           NEW n, n # neu, NEW k,
           Moved(p, i, c, neu, q, m1, j1, n, k), Moved(p, i, c, neu, q, m2, j2, n, k)
    PROVE  m1 = m2 /\ j1 = j2
<1>1. CASE n = p
  BY <1>1 DEF Moved
<1>2. CASE n = c
  BY <1>2 DEF Moved
<1>3. CASE n \notin {p, c}
  BY <1>3 DEF Moved
<1> QED BY <1>1, <1>2, <1>3

\* Rank and owner, with the new node like the one it was split from.
Like(f, neu, c) == With(f, neu, f[c])

\* A new node that takes the ghost value of an old one.
LEMMA LikeFacts ==
    ASSUME NEW D, NEW f, DOMAIN f = D, NEW c \in D, NEW neu, neu \notin D,
           NEW f2, f2 = Like(f, neu, c)
    PROVE  f2[neu] = f[c] /\ \A n \in D : f2[n] = f[n]
BY DEF Like, With

\* A split keeps the nodes in a forest, with the same roots.
LEMMA SplitForest ==
    ASSUME NEW h, NEW r, NEW rank, NEW own, Forest(h, r, rank, own), NEW g,
           NEW p \in DOMAIN h, NEW i \in 1..Len(h[p].children), NEW neu \in (1..MaxNodes) \ DOMAIN h,
           NEW c \in DOMAIN h \ {p}, c = h[p].children[i], ~h[p].leaf,
           IsFullSplit(h, g, p, i, c, neu)
    PROVE  Forest(g, r, Like(rank, neu, c), Like(own, neu, c))
<1> PICK rank2 : rank2 = Like(rank, neu, c)
  OBVIOUS
<1> PICK own2 : own2 = Like(own, neu, c)
  OBVIOUS
<1> PICK q : q = Middle(h[c])
  OBVIOUS
<1> DEFINE M(m, j, m1, j1) == Moved(p, i, c, neu, q, m, j, m1, j1)
<1>1. Linked(h, rank, own) /\ HeapType(h) /\ neu \notin DOMAIN h /\ i \in Nat
  BY DEF Forest, Linked
<1>2. /\ rank2 \in [DOMAIN h \union {neu} -> Nat] /\ rank2[neu] = rank[c]
      /\ \A n \in DOMAIN h : rank2[n] = rank[n]
  <2> PICK D : D = DOMAIN h
    OBVIOUS
  <2>1. rank \in [D -> Nat] /\ c \in D /\ neu \notin D
    BY <1>1 DEF Linked
  <2>2. /\ rank2 \in [D \union {neu} -> Nat]
        /\ rank2[neu] = rank[c] /\ \A n \in D : rank2[n] = rank[n]
    BY <2>1 DEF Like, With
  <2> QED BY <2>2
<1>3. /\ own2 \in [DOMAIN h \union {neu} -> Trees] /\ own2[neu] = own[c]
      /\ \A n \in DOMAIN h : own2[n] = own[n]
  <2> PICK D : D = DOMAIN h
    OBVIOUS
  <2>1. own \in [D -> Trees] /\ c \in D /\ neu \notin D
    BY <1>1 DEF Linked
  <2>2. /\ own2 \in [D \union {neu} -> Trees]
        /\ own2[neu] = own[c] /\ \A n \in D : own2[n] = own[n]
    BY <2>1 DEF Like, With
  <2> QED BY <2>2
<1>4. /\ DOMAIN g = DOMAIN h \union {neu}
      /\ \A m \in DOMAIN h \ {p, c} : g[m] = h[m]
  BY DEF IsFullSplit, IsSplit
<1>5. /\ \A m, j, x : Slot(h, m, j, x) =>
           m \in DOMAIN h /\ x \in DOMAIN h /\ j \in Nat /\ j >= 1
           /\ rank[x] + 1 = rank[m] /\ own[x] = own[m]
      /\ \A m, j, x, m1, j1 : Slot(h, m, j, x) /\ Slot(h, m1, j1, x) => m = m1 /\ j = j1
      /\ \A n \in DOMAIN h : n = r[own[n]] <=> ~\E m, j : Slot(h, m, j, n)
  BY SlotFacts
<1>6. /\ \A m, j, x : Slot(g, m, j, x) =>
           \/ m = p /\ j = i + 1 /\ x = neu
           \/ \E m1, j1 : M(m, j, m1, j1) /\ Slot(h, m1, j1, x)
      /\ \A m1, j1, x : Slot(h, m1, j1, x) => \E m, j : M(m, j, m1, j1) /\ Slot(g, m, j, x)
      /\ Slot(g, p, i + 1, neu)
  <2>1. SameSlots(h, g, p, i, c, neu, q)
    BY <1>1, SplitSlots
  <2> QED BY <2>1 DEF SameSlots
<1>7. q \in Nat
  <2>1. h[c].keys \in Seq(Keys)
    BY <1>1, ChildFacts
  <2> QED BY <2>1, MiddleFacts DEF IsFullSplit
<1>8. Slot(h, p, i, c)
  BY DEF Slot
<1>9. ASSUME NEW m, NEW j, NEW m1, NEW j1, M(m, j, m1, j1), m1 \in DOMAIN h
      PROVE  rank2[m] = rank[m1] /\ own2[m] = own[m1]
  BY <1>2, <1>3, <1>9 DEF Moved
<1>10. HeapType(g)
  <2>1. ASSUME NEW m \in DOMAIN g PROVE IsNode(g[m])
    <3>1. CASE m \in {p, c, neu}
      BY <3>1, Zenon DEF IsFullSplit, Halved, Promoted
    <3>2. CASE m \notin {p, c, neu}
      BY <1>1, <1>4, <3>2 DEF HeapType
    <3> QED BY <3>1, <3>2, Zenon
  <2> QED BY <1>1, <1>4, <2>1 DEF HeapType
<1>11. \A m \in DOMAIN g : \A j \in 1..Len(g[m].children) : j \in Nat /\ j >= 1
  <2> SUFFICES ASSUME NEW m \in DOMAIN g, NEW j \in 1..Len(g[m].children) PROVE j \in Nat /\ j >= 1
    OBVIOUS
  <2>1. g[m].children \in Seq(1..MaxNodes)
    BY <1>10 DEF HeapType, IsNode
  <2>2. Len(g[m].children) \in Nat
    BY <2>1, LenProperties
  <2> QED BY <2>2
<1>12. Linked(g, rank2, own2)
  <2>1. ASSUME NEW m \in DOMAIN g PROVE g[m].leaf <=> rank2[m] = 0
    <3>1. CASE m = neu
      <4>1. g[neu].leaf = h[c].leaf /\ (h[c].leaf <=> rank[c] = 0)
        BY <1>1, ZenonT(40) DEF Linked, IsFullSplit, Halved
      <4> QED BY <1>2, <3>1, <4>1, Zenon
    <3>2. CASE m = c
      <4>1. g[c].leaf = h[c].leaf /\ (h[c].leaf <=> rank[c] = 0)
        BY <1>1, ZenonT(40) DEF Linked, IsFullSplit, Halved
      <4> QED BY <1>2, <3>2, <4>1
    <3>3. CASE m = p
      <4>1. ~g[p].leaf /\ (h[p].leaf <=> rank[p] = 0)
        BY <1>1 DEF Linked, IsFullSplit, Promoted
      <4> QED BY <1>2, <3>3, <4>1
    <3>4. CASE m \notin {p, c, neu}
      BY <1>1, <1>2, <1>4, <3>4 DEF Linked
    <3> QED BY <3>1, <3>2, <3>3, <3>4
  <2>2. ASSUME NEW m \in DOMAIN g
        PROVE  IF g[m].leaf THEN g[m].children = <<>> /\ Len(g[m].values) = Len(g[m].keys)
                            ELSE Len(g[m].children) = Len(g[m].keys) + 1
    <3>1. CASE m \in {c, neu}
      <4>1. h[c].leaf \in BOOLEAN /\ h[c].keys \in Seq(Keys) /\ h[c].children \in Seq(1..MaxNodes)
        BY <1>1 DEF HeapType, IsNode
      <4>2. Len(h[c].keys) \in Nat /\ Len(h[c].children) \in Nat
        BY <4>1, LenProperties
      <4>3. CASE h[c].leaf
        <5> PICK k : k = Len(h[c].keys)
          OBVIOUS
        <5>1. Halved(h[c], g[c], g[neu], neu)
          BY SMTT(30) DEF IsFullSplit
        <5>2. /\ g[c].leaf /\ g[c].children = <<>> /\ Len(g[c].keys) = q /\ Len(g[c].values) = q
              /\ g[neu].leaf /\ g[neu].children = <<>>
              /\ Len(g[neu].keys) = k - q /\ Len(g[neu].values) = k - q
          BY <4>3, <5>1 DEF Halved
        <5> QED BY <3>1, <5>2
      <4>4. CASE ~h[c].leaf
        <5>1. Len(h[c].children) = Len(h[c].keys) + 1
          BY <1>1, <4>4, Zenon DEF Linked
        <5>2. /\ ~g[m].leaf
              /\ m = c => Len(g[m].keys) = q /\ Len(g[m].children) = q + 1
              /\ m = neu => Len(g[m].keys) = Len(h[c].keys) - q - 1
                            /\ Len(g[m].children) = Len(h[c].children) - q - 1
          BY <3>1, <4>4, Zenon DEF IsFullSplit, Halved
        <5> PICK k \in Nat : k = Len(h[c].keys)
          BY <4>2
        <5>3. (k + 1) - q - 1 = (k - q - 1) + 1
          BY <1>7
        <5> QED BY <3>1, <5>1, <5>2, <5>3
      <4> QED BY <4>3, <4>4
    <3>2. CASE m = p
      <4>1. Len(h[p].children) = Len(h[p].keys) + 1
        BY <1>1 DEF Linked
      <4> QED BY <3>2, <4>1 DEF IsFullSplit, Promoted
    <3>3. CASE m \notin {p, c, neu}
      BY <1>1, <1>4, <3>3 DEF Linked
    <3> QED BY <3>1, <3>2, <3>3
  <2>3. ASSUME NEW m \in DOMAIN g, NEW j \in 1..Len(g[m].children)
        PROVE  /\ g[m].children[j] \in DOMAIN g
               /\ rank2[g[m].children[j]] + 1 = rank2[m]
               /\ own2[g[m].children[j]] = own2[m]
    <3> PICK x : x = g[m].children[j]
      OBVIOUS
    <3>1. Slot(g, m, j, x)
      BY DEF Slot
    <3>2. CASE m = p /\ x = neu
      <4>1. rank[c] + 1 = rank[p] /\ own[c] = own[p]
        BY <1>5, <1>8
      <4> QED BY <1>2, <1>3, <1>4, <3>2, <4>1
    <3>3. CASE \E m1, j1 : M(m, j, m1, j1) /\ Slot(h, m1, j1, x)
      <4>1. PICK m1, j1 : M(m, j, m1, j1) /\ Slot(h, m1, j1, x)
        BY <3>3
      <4>2. m1 \in DOMAIN h /\ x \in DOMAIN h /\ rank[x] + 1 = rank[m1] /\ own[x] = own[m1]
        BY <1>5, <4>1
      <4>3. rank2[m] = rank[m1] /\ own2[m] = own[m1]
        BY <1>9, <4>1, <4>2
      <4> QED BY <1>2, <1>3, <1>4, <4>2, <4>3
    <3> QED BY <1>6, <3>1, <3>2, <3>3
  <2> QED BY <1>2, <1>3, <1>4, <1>10, <2>1, <2>2, <2>3 DEF Linked
<1>13. r \in [Trees -> DOMAIN g \union {Nil}]
  BY <1>4 DEF Forest, Rooted
<1>14. \A t \in Trees : r[t] # Nil => own2[r[t]] = t
  BY <1>3 DEF Forest, Rooted
<1>15. ASSUME NEW n \in DOMAIN g PROVE n = r[own2[n]] <=> ~\E m, j : Slot(g, m, j, n)
  <2>1. CASE n = neu
    <3>1. neu # Nil
      BY NilAssumption
    <3>2. own2[neu] \in Trees
      BY <1>2, <1>3, <1>4
    <3>3. neu # r[own2[neu]]
      BY <1>1, <3>1, <3>2 DEF Forest, Rooted
    <3> QED BY <1>6, <2>1, <3>3
  <2>2. CASE n # neu
    <3>1. n \in DOMAIN h /\ own2[n] = own[n]
      BY <1>3, <1>4, <2>2
    <3>2. (\E m, j : Slot(g, m, j, n)) <=> \E m, j : Slot(h, m, j, n)
      BY <1>6, <2>2
    <3> QED BY <1>5, <3>1, <3>2
  <2> QED BY <2>1, <2>2
<1>16. ASSUME NEW m, NEW j, NEW x, NEW m2, NEW j2, Slot(g, m, j, x), Slot(g, m2, j2, x)
       PROVE  m = m2 /\ j = j2
  <2>1. CASE x = neu
    <3>1. ~\E m1, j1 : Slot(h, m1, j1, x)
      BY <1>1, <1>5, <2>1
    <3> QED BY <1>6, <1>16, <3>1
  <2>2. CASE x # neu
    <3>1. PICK m1, j1 : M(m, j, m1, j1) /\ Slot(h, m1, j1, x)
      BY <1>6, <1>16, <2>2
    <3>2. PICK m3, j3 : M(m2, j2, m3, j3) /\ Slot(h, m3, j3, x)
      BY <1>6, <1>16, <2>2
    <3>3. m1 = m3 /\ j1 = j3 /\ m1 \in DOMAIN h
      BY <1>5, <3>1, <3>2
    <3>4. j \in Nat /\ j >= 1 /\ j2 \in Nat /\ j2 >= 1
      BY <1>11, <1>16 DEF Slot
    <3>5. c # p /\ neu # p /\ neu # c /\ m1 # neu
      BY <1>1, <3>3
    <3> QED BY <1>1, <1>7, <3>1, <3>2, <3>3, <3>4, <3>5, MovedOnce
  <2> QED BY <2>1, <2>2
<1>17. BySlots(g, r, own2)
  BY <1>13, <1>14, <1>15, <1>16 DEF BySlots
<1> QED BY <1>12, <1>17, RootedBySlots

\* The node that becomes the root of tree t: a leaf, or the parent of its root.
IsNewRoot(node, r, rank, t, k) ==
    /\ IsNode(node)
    /\ \/ /\ node.leaf /\ node.children = <<>> /\ Len(node.values) = Len(node.keys)
          /\ r[t] = Nil /\ k = 0
       \/ /\ ~node.leaf /\ node.children = <<r[t]>> /\ Len(node.keys) = 0
          /\ r[t] # Nil /\ k = rank[r[t]] + 1

\* A node that points to a root takes its place: the forest grows by one level.
LEMMA NewRootForest ==
    ASSUME NEW h, NEW r, NEW rank, NEW own, Forest(h, r, rank, own), NEW t \in Trees,
           NEW l \in (1..MaxNodes) \ DOMAIN h, NEW node, NEW k, IsNewRoot(node, r, rank, t, k)
    PROVE  Forest(With(h, l, node), [r EXCEPT ![t] = l], With(rank, l, k), With(own, l, t))
<1> PICK g : g = With(h, l, node)
  OBVIOUS
<1> PICK r2 : r2 = [r EXCEPT ![t] = l]
  OBVIOUS
<1> PICK rank2 : rank2 = With(rank, l, k)
  OBVIOUS
<1> PICK own2 : own2 = With(own, l, t)
  OBVIOUS
<1>1. /\ Linked(h, rank, own) /\ HeapType(h) /\ l \notin DOMAIN h /\ l # Nil
      /\ r \in [Trees -> DOMAIN h \union {Nil}] /\ rank \in [DOMAIN h -> Nat]
      /\ own \in [DOMAIN h -> Trees] /\ Nil \notin DOMAIN h
  BY HeapFinite, NilAssumption DEF Forest, Linked, Rooted
<1>2. DOMAIN g = DOMAIN h \union {l} /\ g[l] = node /\ \A m \in DOMAIN h : g[m] = h[m]
  BY <1>1 DEF With
<1>3. r[t] # Nil => r[t] \in DOMAIN h /\ rank[r[t]] \in Nat /\ own[r[t]] = t
  <2>1. \A u \in Trees : r[u] # Nil => own[r[u]] = u
    BY DEF Forest, Rooted
  <2> QED BY <1>1, <2>1
<1>4. k \in Nat
  BY <1>3 DEF IsNewRoot
<1>5. rank2 \in [DOMAIN g -> Nat] /\ rank2[l] = k /\ \A m \in DOMAIN h : rank2[m] = rank[m]
  BY <1>1, <1>2, <1>4 DEF With
<1>6. own2 \in [DOMAIN g -> Trees] /\ own2[l] = t /\ \A m \in DOMAIN h : own2[m] = own[m]
  BY <1>1, <1>2 DEF With
<1>7. /\ r2 \in [Trees -> DOMAIN g \union {Nil}] /\ r2[t] = l
      /\ \A u \in Trees \ {t} : r2[u] = r[u]
  BY <1>1, <1>2
<1>8. /\ \A m, j, x : Slot(h, m, j, x) =>
           m \in DOMAIN h /\ x \in DOMAIN h /\ j \in Nat /\ j >= 1
           /\ rank[x] + 1 = rank[m] /\ own[x] = own[m]
      /\ \A m, j, x, m1, j1 : Slot(h, m, j, x) /\ Slot(h, m1, j1, x) => m = m1 /\ j = j1
      /\ \A n \in DOMAIN h : n = r[own[n]] <=> ~\E m, j : Slot(h, m, j, n)
  BY SlotFacts
<1>9. \A m, j, x : Slot(g, m, j, x) <=>
        Slot(h, m, j, x) \/ (m = l /\ j = 1 /\ x = r[t] /\ r[t] # Nil)
  <2>1. \A j, x : Slot(g, l, j, x) <=> j = 1 /\ x = r[t] /\ r[t] # Nil
    <3>1. CASE node.children = <<>> /\ r[t] = Nil
      <4>1. Len(<<>>) = 0
        OBVIOUS
      <4> QED BY <1>2, <3>1, <4>1 DEF Slot
    <3>2. CASE node.children = <<r[t]>> /\ r[t] # Nil
      <4> PICK s : s = <<r[t]>>
        OBVIOUS
      <4>1. Len(s) = 1 /\ s[1] = r[t]
        OBVIOUS
      <4>2. \A j : j \in 1..1 <=> j = 1
        OBVIOUS
      <4> QED BY <1>2, <3>2, <4>1, <4>2 DEF Slot
    <3> QED BY <3>1, <3>2 DEF IsNewRoot
  <2>2. \A m, j, x : m # l => (Slot(g, m, j, x) <=> Slot(h, m, j, x))
    BY <1>2 DEF Slot
  <2>3. \A j, x : ~Slot(h, l, j, x)
    BY <1>1 DEF Slot
  <2> QED BY <2>1, <2>2, <2>3
<1>10. Linked(g, rank2, own2)
  <2>1. HeapType(g)
    BY <1>1, <1>2 DEF HeapType, IsNewRoot
  <2>2. ASSUME NEW m \in DOMAIN g
        PROVE  /\ g[m].leaf <=> rank2[m] = 0
               /\ IF g[m].leaf THEN g[m].children = <<>> /\ Len(g[m].values) = Len(g[m].keys)
                               ELSE Len(g[m].children) = Len(g[m].keys) + 1
    <3>1. CASE m = l
      <4>1. CASE node.leaf
        BY <1>2, <1>5, <3>1, <4>1 DEF IsNewRoot
      <4>2. CASE ~node.leaf
        <5> PICK s : s = <<r[t]>>
          OBVIOUS
        <5>1. Len(s) = 1
          OBVIOUS
        <5>2. ~node.leaf /\ node.children = s /\ Len(node.keys) = 0 /\ k = rank[r[t]] + 1 /\ k # 0
          BY <1>3, <4>2 DEF IsNewRoot
        <5>3. g[m] = node /\ rank2[m] = k
          BY <1>2, <1>5, <3>1
        <5>4. Len(node.children) = Len(node.keys) + 1
          BY <5>1, <5>2
        <5> QED BY <5>2, <5>3, <5>4
      <4> QED BY <4>1, <4>2
    <3>2. CASE m # l
      BY <1>1, <1>2, <1>5, <3>2 DEF Linked
    <3> QED BY <3>1, <3>2
  <2>3. ASSUME NEW m \in DOMAIN g, NEW j \in 1..Len(g[m].children)
        PROVE  /\ g[m].children[j] \in DOMAIN g
               /\ rank2[g[m].children[j]] + 1 = rank2[m]
               /\ own2[g[m].children[j]] = own2[m]
    <3> PICK x : x = g[m].children[j]
      OBVIOUS
    <3>1. Slot(g, m, j, x)
      BY DEF Slot
    <3>2. CASE Slot(h, m, j, x)
      BY <1>2, <1>5, <1>6, <1>8, <3>2
    <3>3. CASE m = l /\ j = 1 /\ x = r[t] /\ r[t] # Nil
      <4>1. k = rank[r[t]] + 1
        BY <3>3 DEF IsNewRoot
      <4> QED BY <1>2, <1>3, <1>5, <1>6, <3>3, <4>1
    <3> QED BY <1>9, <3>1, <3>2, <3>3
  <2> QED BY <1>5, <1>6, <2>1, <2>2, <2>3 DEF Linked
<1>11. \A u \in Trees : r2[u] # Nil => own2[r2[u]] = u
  <2>1. \A u \in Trees : r[u] # Nil => own[r[u]] = u
    BY DEF Forest, Rooted
  <2> QED BY <1>1, <1>6, <1>7, <2>1
<1>12. ASSUME NEW n \in DOMAIN g PROVE n = r2[own2[n]] <=> ~\E m, j : Slot(g, m, j, n)
  <2>1. CASE n = l
    <3>1. ~\E m, j : Slot(g, m, j, n)
      BY <1>1, <1>3, <1>8, <1>9, <2>1
    <3> QED BY <1>6, <1>7, <2>1, <3>1
  <2>2. CASE n # l /\ own[n] = t
    <3>1. n \in DOMAIN h /\ own2[n] = t /\ n # r2[t]
      BY <1>2, <1>6, <1>7, <2>2
    <3>2. r[t] # Nil
      BY <2>2, <3>1, SubtreeOwned
    <3>3. n # r[t] => \E m, j : Slot(h, m, j, n)
      BY <1>8, <2>2, <3>1
    <3>4. \E m, j : Slot(g, m, j, n)
      BY <1>9, <3>2, <3>3
    <3> QED BY <3>1, <3>4
  <2>3. CASE n # l /\ own[n] # t
    <3>1. n \in DOMAIN h /\ own2[n] = own[n] /\ r2[own[n]] = r[own[n]]
      BY <1>1, <1>2, <1>6, <1>7, <2>3
    <3>2. n # r[t]
      BY <1>1, <1>3, <2>3, <3>1
    <3> QED BY <1>8, <1>9, <3>1, <3>2
  <2> QED BY <2>1, <2>2, <2>3
<1>13. ASSUME NEW m, NEW j, NEW x, NEW m2, NEW j2, Slot(g, m, j, x), Slot(g, m2, j2, x)
       PROVE  m = m2 /\ j = j2
  <2>1. CASE Slot(h, m, j, x) /\ Slot(h, m2, j2, x)
    BY <1>8, <2>1
  <2>2. CASE x = r[t] /\ r[t] # Nil
    <3>1. ~\E m1, j1 : Slot(h, m1, j1, x)
      BY <1>3, <1>8, <2>2
    <3> QED BY <1>9, <1>13, <3>1
  <2> QED BY <1>9, <1>13, <2>1, <2>2
<1>14. r2 \in [Trees -> DOMAIN g \union {Nil}]
  BY <1>7
<1>15. BySlots(g, r2, own2)
  BY <1>11, <1>12, <1>13, <1>14 DEF BySlots
<1> QED BY <1>10, <1>15, RootedBySlots

\* A change of keys and values leaves the forest as it is.
LEMMA SameForest ==
    ASSUME NEW h, NEW r, NEW rank, NEW own, Forest(h, r, rank, own), NEW g, DOMAIN g = DOMAIN h,
           \A n \in DOMAIN h :
             /\ IsNode(g[n]) /\ g[n].leaf = h[n].leaf /\ g[n].children = h[n].children
             /\ IF h[n].leaf THEN Len(g[n].values) = Len(g[n].keys)
                             ELSE Len(g[n].keys) = Len(h[n].keys)
    PROVE  Forest(g, r, rank, own)
<1>1. HeapType(g)
  BY DEF Forest, Linked, HeapType
<1>2. Linked(g, rank, own)
  <2>1. ASSUME NEW n \in DOMAIN h
        PROVE  /\ g[n].leaf <=> rank[n] = 0
               /\ IF g[n].leaf THEN g[n].children = <<>> /\ Len(g[n].values) = Len(g[n].keys)
                               ELSE Len(g[n].children) = Len(g[n].keys) + 1
               /\ \A i \in 1..Len(g[n].children) :
                    /\ g[n].children[i] \in DOMAIN h
                    /\ rank[g[n].children[i]] + 1 = rank[n]
                    /\ own[g[n].children[i]] = own[n]
    <3>1. /\ h[n].leaf <=> rank[n] = 0
          /\ IF h[n].leaf THEN h[n].children = <<>> /\ Len(h[n].values) = Len(h[n].keys)
                          ELSE Len(h[n].children) = Len(h[n].keys) + 1
          /\ \A i \in 1..Len(h[n].children) :
               /\ h[n].children[i] \in DOMAIN h
               /\ rank[h[n].children[i]] + 1 = rank[n]
               /\ own[h[n].children[i]] = own[n]
      BY DEF Forest, Linked
    <3>2. /\ g[n].leaf = h[n].leaf /\ g[n].children = h[n].children
          /\ IF h[n].leaf THEN Len(g[n].values) = Len(g[n].keys)
                          ELSE Len(g[n].keys) = Len(h[n].keys)
      OBVIOUS
    <3> QED BY <3>1, <3>2
  <2>2. rank \in [DOMAIN g -> Nat] /\ own \in [DOMAIN g -> Trees]
    BY DEF Forest, Linked
  <2> QED BY <1>1, <2>1, <2>2 DEF Linked
<1>3. \A m, c : m \in DOMAIN h => (IsChild(g, m, c) <=> IsChild(h, m, c))
  BY DEF IsChild
<1>4. Rooted(g, r, own)
  BY <1>3 DEF Forest, Rooted
<1> QED BY <1>2, <1>4 DEF Forest

\* A function on a part of its domain.
Part(f, S) == [n \in S |-> f[n]]

\* The heap without the nodes of tree t, which has no root then.
LEMMA RemoveForest ==
    ASSUME NEW h, NEW r, NEW rank, NEW own, Forest(h, r, rank, own), NEW t \in Trees,
           NEW D \in SUBSET DOMAIN h, \A n \in DOMAIN h : n \in D <=> own[n] # t
    PROVE  Forest(Part(h, D), [r EXCEPT ![t] = Nil], Part(rank, D), Part(own, D))
<1> PICK g : g = Part(h, D)
  OBVIOUS
<1> PICK r2 : r2 = [r EXCEPT ![t] = Nil]
  OBVIOUS
<1> PICK rank2 : rank2 = Part(rank, D)
  OBVIOUS
<1> PICK own2 : own2 = Part(own, D)
  OBVIOUS
<1>1. /\ Linked(h, rank, own) /\ HeapType(h)
      /\ r \in [Trees -> DOMAIN h \union {Nil}] /\ rank \in [DOMAIN h -> Nat]
      /\ own \in [DOMAIN h -> Trees] /\ Nil \notin DOMAIN h
      /\ \A u \in Trees : r[u] # Nil => own[r[u]] = u
  BY HeapFinite DEF Forest, Linked, Rooted
<1>2. \A n : n \in D <=> n \in DOMAIN h /\ own[n] # t
  OBVIOUS
<1>3. DOMAIN g = D /\ \A n \in D : g[n] = h[n] /\ rank2[n] = rank[n] /\ own2[n] = own[n]
  BY DEF Part
<1>4. rank2 \in [D -> Nat] /\ own2 \in [D -> Trees]
  BY <1>1, <1>2 DEF Part
<1>5. /\ \A m, j, x : Slot(h, m, j, x) =>
           m \in DOMAIN h /\ x \in DOMAIN h /\ j \in Nat /\ j >= 1
           /\ rank[x] + 1 = rank[m] /\ own[x] = own[m]
      /\ \A m, j, x, m1, j1 : Slot(h, m, j, x) /\ Slot(h, m1, j1, x) => m = m1 /\ j = j1
      /\ \A n \in DOMAIN h : n = r[own[n]] <=> ~\E m, j : Slot(h, m, j, n)
  BY SlotFacts
<1>6. \A m, j, x : Slot(g, m, j, x) <=> Slot(h, m, j, x) /\ m \in D
  BY <1>2, <1>3 DEF Slot
<1>7. Linked(g, rank2, own2)
  <2>1. HeapType(g)
    BY <1>1, <1>2, <1>3 DEF HeapType
  <2>2. ASSUME NEW m \in D
        PROVE  /\ g[m].leaf <=> rank2[m] = 0
               /\ IF g[m].leaf THEN g[m].children = <<>> /\ Len(g[m].values) = Len(g[m].keys)
                               ELSE Len(g[m].children) = Len(g[m].keys) + 1
    BY <1>1, <1>2, <1>3 DEF Linked
  <2>3. ASSUME NEW m \in D, NEW j \in 1..Len(g[m].children)
        PROVE  /\ g[m].children[j] \in D
               /\ rank2[g[m].children[j]] + 1 = rank2[m]
               /\ own2[g[m].children[j]] = own2[m]
    <3> PICK x : x = g[m].children[j]
      OBVIOUS
    <3>1. Slot(h, m, j, x)
      BY <1>3, <1>6 DEF Slot
    <3> QED BY <1>2, <1>3, <1>5, <3>1
  <2> QED BY <1>3, <1>4, <2>1, <2>2, <2>3 DEF Linked
<1>8. r2 \in [Trees -> DOMAIN g \union {Nil}]
  <2>1. ASSUME NEW u \in Trees PROVE r2[u] \in D \union {Nil}
    BY <1>1, <1>2
  <2> QED BY <1>1, <1>3, <2>1
<1>9. \A u \in Trees : r2[u] # Nil => own2[r2[u]] = u
  <2> SUFFICES ASSUME NEW u \in Trees, r2[u] # Nil PROVE own2[r2[u]] = u
    OBVIOUS
  <2>1. u # t /\ r2[u] = r[u]
    BY <1>1
  <2> QED BY <1>1, <1>2, <1>3, <2>1
<1>10. ASSUME NEW n \in DOMAIN g PROVE n = r2[own2[n]] <=> ~\E m, j : Slot(g, m, j, n)
  <2>1. n \in D /\ n \in DOMAIN h /\ own2[n] = own[n] /\ own[n] # t /\ own[n] \in Trees
    BY <1>1, <1>2, <1>3
  <2>2. r2[own[n]] = r[own[n]]
    BY <1>1, <2>1
  <2>3. (\E m, j : Slot(g, m, j, n)) <=> \E m, j : Slot(h, m, j, n)
    BY <1>2, <1>5, <1>6, <2>1
  <2> QED BY <1>5, <2>1, <2>2, <2>3
<1>11. ASSUME NEW m, NEW j, NEW x, NEW m2, NEW j2, Slot(g, m, j, x), Slot(g, m2, j2, x)
       PROVE  m = m2 /\ j = j2
  BY <1>5, <1>6, <1>11
<1>12. BySlots(g, r2, own2)
  BY <1>8, <1>9, <1>10, <1>11 DEF BySlots
<1> QED BY <1>7, <1>12, RootedBySlots

\* The nodes of tree from change hands.
Handed(own, t, from) == [n \in DOMAIN own |-> IF own[n] = from THEN t ELSE own[n]]

RootHanded(r2, r, t, from) == r2 = [r EXCEPT ![t] = r[from], ![from] = Nil]

\* The nodes of one tree are handed to an object without any.
LEMMA HandForest ==
    ASSUME NEW h, NEW r, NEW rank, NEW own, Forest(h, r, rank, own), NEW t \in Trees,
           NEW from \in Trees, t # from, r[t] = Nil,
           NEW r2, RootHanded(r2, r, t, from)
    PROVE  Forest(h, r2, rank, Handed(own, t, from))
<1> PICK own2 : own2 = Handed(own, t, from)
  OBVIOUS
<1>1. /\ Linked(h, rank, own) /\ HeapType(h)
      /\ r \in [Trees -> DOMAIN h \union {Nil}] /\ rank \in [DOMAIN h -> Nat]
      /\ own \in [DOMAIN h -> Trees] /\ Nil \notin DOMAIN h
      /\ \A u \in Trees : r[u] # Nil => own[r[u]] = u
  BY HeapFinite DEF Forest, Linked, Rooted
<1>2. own2 \in [DOMAIN h -> Trees] /\ \A n \in DOMAIN h : own2[n] = IF own[n] = from THEN t ELSE own[n]
  BY <1>1 DEF Handed
<1>3. r2[t] = r[from] /\ r2[from] = Nil /\ \A u \in Trees \ {t, from} : r2[u] = r[u]
  BY <1>1 DEF RootHanded
<1>4. r2 \in [Trees -> DOMAIN h \union {Nil}]
  BY <1>1 DEF RootHanded
<1>5. \A n \in DOMAIN h : own[n] # t
  BY SubtreeOwned
<1>6. Linked(h, rank, own2)
  BY <1>1, <1>2 DEF Linked
<1>7. \A u \in Trees : r2[u] # Nil => own2[r2[u]] = u
  BY <1>1, <1>2, <1>3
<1>8. ASSUME NEW n \in DOMAIN h PROVE r2[own2[n]] = r[own[n]]
  BY <1>1, <1>2, <1>3, <1>5
<1>9. Rooted(h, r2, own2)
  BY <1>4, <1>7, <1>8 DEF Forest, Rooted
<1> QED BY <1>6, <1>9 DEF Forest

\* The nodes S of tree from are copied to the nodes F; f and s map the two to each other.
IsClone(h, g, S, F, f, s) ==
    /\ F \subseteq 1..MaxNodes /\ F \intersect DOMAIN h = {} /\ S \subseteq DOMAIN h
    /\ f \in [S -> F] /\ s \in [F -> S]
    /\ \A n \in S : s[f[n]] = n
    /\ \A m \in F : f[s[m]] = m
    /\ DOMAIN g = DOMAIN h \union F
    /\ \A n \in DOMAIN h : g[n] = h[n]
    /\ \A m \in F :
         /\ IsNode(g[m]) /\ g[m].leaf = h[s[m]].leaf
         /\ g[m].keys = h[s[m]].keys /\ (h[s[m]].leaf => g[m].values = h[s[m]].values)
         /\ Len(g[m].children) = Len(h[s[m]].children)
         /\ \A j \in 1..Len(h[s[m]].children) : g[m].children[j] = f[h[s[m]].children[j]]

\* Rank and owner of the copies.
CopyRank(rank, F, s) == [m \in DOMAIN rank \union F |-> IF m \in F THEN rank[s[m]] ELSE rank[m]]
CopyOwner(own, F, t) == [m \in DOMAIN own \union F |-> IF m \in F THEN t ELSE own[m]]

RootCopied(r2, r, t, from, f) ==
    r2 = [r EXCEPT ![t] = IF r[from] = Nil THEN Nil ELSE f[r[from]]]

\* The copies of a tree's nodes are a tree.
LEMMA CloneForest ==
    ASSUME NEW h, NEW r, NEW rank, NEW own, Forest(h, r, rank, own), NEW t \in Trees,
           NEW from \in Trees, t # from, r[t] = Nil, NEW g, NEW S, NEW F, NEW f, NEW s,
           \A n \in DOMAIN h : n \in S <=> own[n] = from, IsClone(h, g, S, F, f, s),
           NEW r2, RootCopied(r2, r, t, from, f)
    PROVE  Forest(g, r2, CopyRank(rank, F, s), CopyOwner(own, F, t))
<1> PICK rank2 : rank2 = CopyRank(rank, F, s)
  OBVIOUS
<1> PICK own2 : own2 = CopyOwner(own, F, t)
  OBVIOUS
<1>1. /\ Linked(h, rank, own) /\ HeapType(h)
      /\ r \in [Trees -> DOMAIN h \union {Nil}] /\ rank \in [DOMAIN h -> Nat]
      /\ own \in [DOMAIN h -> Trees] /\ Nil \notin DOMAIN h
      /\ \A u \in Trees : r[u] # Nil => own[r[u]] = u
  BY HeapFinite DEF Forest, Linked, Rooted
<1>2. /\ \A m \in F : m \in 1..MaxNodes /\ m \notin DOMAIN h /\ s[m] \in S /\ f[s[m]] = m
      /\ \A n \in S : n \in DOMAIN h /\ f[n] \in F /\ s[f[n]] = n
      /\ DOMAIN g = DOMAIN h \union F
      /\ \A n \in DOMAIN h : g[n] = h[n] /\ n \notin F
  BY DEF IsClone
<1>3. \A n \in S : own[n] = from
  BY <1>2
<1>4. /\ rank2 \in [DOMAIN g -> Nat] /\ \A n \in DOMAIN h : rank2[n] = rank[n]
      /\ \A m \in F : rank2[m] = rank[s[m]]
  <2>1. \A m \in F : rank[s[m]] \in Nat
    BY <1>1, <1>2
  <2> QED BY <1>1, <1>2, <2>1 DEF CopyRank
<1>5. /\ own2 \in [DOMAIN g -> Trees] /\ \A n \in DOMAIN h : own2[n] = own[n]
      /\ \A m \in F : own2[m] = t
  BY <1>1, <1>2 DEF CopyOwner
<1>6. \A n \in DOMAIN h : own[n] # t
  BY SubtreeOwned
<1>7. /\ \A m, j, x : Slot(h, m, j, x) =>
           m \in DOMAIN h /\ x \in DOMAIN h /\ j \in Nat /\ j >= 1
           /\ rank[x] + 1 = rank[m] /\ own[x] = own[m]
      /\ \A m, j, x, m1, j1 : Slot(h, m, j, x) /\ Slot(h, m1, j1, x) => m = m1 /\ j = j1
      /\ \A n \in DOMAIN h : n = r[own[n]] <=> ~\E m, j : Slot(h, m, j, n)
  BY SlotFacts
<1>8. \A m \in DOMAIN h : \A j, x : Slot(g, m, j, x) <=> Slot(h, m, j, x)
  BY <1>2 DEF Slot
<1>9. ASSUME NEW m \in F, NEW j, NEW x
      PROVE  Slot(g, m, j, x) <=> x \in F /\ Slot(h, s[m], j, s[x])
  <2>1. /\ Len(g[m].children) = Len(h[s[m]].children)
        /\ \A k \in 1..Len(h[s[m]].children) : g[m].children[k] = f[h[s[m]].children[k]]
    BY DEF IsClone
  <2>2. s[m] \in S /\ s[m] \in DOMAIN h /\ m \in DOMAIN g /\ own[s[m]] = from
    BY <1>2, <1>3
  <2>3. ASSUME Slot(g, m, j, x) PROVE x \in F /\ Slot(h, s[m], j, s[x])
    <3> PICK y : y = h[s[m]].children[j]
      OBVIOUS
    <3>1. j \in 1..Len(h[s[m]].children) /\ x = f[y]
      BY <2>1, <2>3 DEF Slot
    <3>2. Slot(h, s[m], j, y)
      BY <2>2, <3>1 DEF Slot
    <3>3. y \in S
      BY <1>7, <2>2, <3>2
    <3> QED BY <1>2, <3>1, <3>2, <3>3
  <2>4. ASSUME x \in F, Slot(h, s[m], j, s[x]) PROVE Slot(g, m, j, x)
    <3>1. j \in 1..Len(h[s[m]].children) /\ h[s[m]].children[j] = s[x]
      BY <2>4 DEF Slot
    <3>2. g[m].children[j] = x
      BY <1>2, <2>1, <2>4, <3>1
    <3> QED BY <2>1, <2>2, <3>1, <3>2 DEF Slot
  <2> QED BY <2>3, <2>4
<1>10. Linked(g, rank2, own2)
  <2>1. HeapType(g)
    <3>1. \A m \in F : IsNode(g[m])
      BY DEF IsClone
    <3> QED BY <1>1, <1>2, <3>1 DEF HeapType
  <2>2. ASSUME NEW m \in DOMAIN g
        PROVE  /\ g[m].leaf <=> rank2[m] = 0
               /\ IF g[m].leaf THEN g[m].children = <<>> /\ Len(g[m].values) = Len(g[m].keys)
                               ELSE Len(g[m].children) = Len(g[m].keys) + 1
    <3>1. CASE m \in F
      <4> PICK n : n = s[m]
        OBVIOUS
      <4>1. n \in DOMAIN h /\ rank2[m] = rank[n]
        BY <1>2, <1>4, <3>1
      <4>2. /\ IsNode(g[m]) /\ g[m].leaf = h[n].leaf
            /\ g[m].keys = h[n].keys /\ (h[n].leaf => g[m].values = h[n].values)
            /\ Len(g[m].children) = Len(h[n].children)
        BY <3>1 DEF IsClone
      <4>3. /\ h[n].leaf <=> rank[n] = 0
            /\ IF h[n].leaf THEN h[n].children = <<>> /\ Len(h[n].values) = Len(h[n].keys)
                            ELSE Len(h[n].children) = Len(h[n].keys) + 1
        BY <1>1, <4>1 DEF Linked
      <4>4. h[n].leaf => g[m].children = <<>>
        <5>1. g[m].children \in Seq(1..MaxNodes)
          BY <4>2 DEF IsNode
        <5>2. Len(<<>>) = 0
          OBVIOUS
        <5> QED BY <4>2, <4>3, <5>1, <5>2, EmptySeq
      <4> QED BY <4>1, <4>2, <4>3, <4>4
    <3>2. CASE m \in DOMAIN h
      BY <1>1, <1>2, <1>4, <3>2 DEF Linked
    <3> QED BY <1>2, <3>1, <3>2
  <2>3. ASSUME NEW m \in DOMAIN g, NEW j \in 1..Len(g[m].children)
        PROVE  /\ g[m].children[j] \in DOMAIN g
               /\ rank2[g[m].children[j]] + 1 = rank2[m]
               /\ own2[g[m].children[j]] = own2[m]
    <3> PICK x : x = g[m].children[j]
      OBVIOUS
    <3>1. Slot(g, m, j, x)
      BY DEF Slot
    <3>2. CASE m \in F
      <4>1. x \in F /\ Slot(h, s[m], j, s[x])
        BY <1>9, <3>1, <3>2
      <4>2. rank[s[x]] + 1 = rank[s[m]]
        BY <1>7, <4>1
      <4> QED BY <1>2, <1>4, <1>5, <3>2, <4>1, <4>2
    <3>3. CASE m \in DOMAIN h
      <4>1. Slot(h, m, j, x)
        BY <1>8, <3>1, <3>3
      <4>2. x \in DOMAIN h /\ rank[x] + 1 = rank[m] /\ own[x] = own[m]
        BY <1>7, <4>1
      <4> QED BY <1>2, <1>4, <1>5, <3>3, <4>2
    <3> QED BY <1>2, <3>2, <3>3
  <2> QED BY <1>4, <1>5, <2>1, <2>2, <2>3 DEF Linked
<1>11. r[from] # Nil => r[from] \in S
  BY <1>1
<1>12. /\ r2 \in [Trees -> DOMAIN g \union {Nil}]
       /\ r2[t] = IF r[from] = Nil THEN Nil ELSE f[r[from]]
       /\ \A u \in Trees \ {t} : r2[u] = r[u]
  BY <1>1, <1>2, <1>11 DEF RootCopied
<1>13. \A u \in Trees : r2[u] # Nil => own2[r2[u]] = u
  <2>1. ASSUME NEW u \in Trees \ {t}, r2[u] # Nil PROVE own2[r2[u]] = u
    BY <1>1, <1>5, <1>12, <2>1
  <2>2. r2[t] # Nil => own2[r2[t]] = t
    BY <1>2, <1>5, <1>11, <1>12
  <2> QED BY <2>1, <2>2
<1>14. ASSUME NEW n \in DOMAIN g PROVE n = r2[own2[n]] <=> ~\E m, j : Slot(g, m, j, n)
  <2>1. CASE n \in DOMAIN h
    <3>1. (\E m, j : Slot(g, m, j, n)) <=> \E m, j : Slot(h, m, j, n)
      <4>1. \A m, j : Slot(g, m, j, n) => m \in DOMAIN g
        BY DEF Slot
      <4>2. \A m, j : Slot(h, m, j, n) => m \in DOMAIN h
        BY DEF Slot
      <4> QED BY <1>2, <1>8, <1>9, <2>1, <4>1, <4>2
    <3>2. r2[own2[n]] = r[own[n]]
      BY <1>1, <1>5, <1>6, <1>12, <2>1
    <3> QED BY <1>7, <2>1, <3>1, <3>2
  <2>2. CASE n \in F
    <3>1. s[n] \in DOMAIN h /\ s[n] \in S /\ own[s[n]] = from /\ f[s[n]] = n
      BY <1>2, <1>3, <2>2
    <3>2. (\E m, j : Slot(g, m, j, n)) <=> \E m, j : Slot(h, m, j, s[n])
      <4>1. ASSUME NEW m, NEW j, Slot(g, m, j, n) PROVE \E m1, j1 : Slot(h, m1, j1, s[n])
        <5>1. m \in DOMAIN g
          BY <4>1 DEF Slot
        <5>2. m \in F
          BY <1>2, <1>7, <1>8, <2>2, <4>1, <5>1
        <5> QED BY <1>9, <4>1, <5>2
      <4>2. ASSUME NEW m, NEW j, Slot(h, m, j, s[n]) PROVE \E m1, j1 : Slot(g, m1, j1, n)
        <5>1. m \in S
          BY <1>7, <3>1, <4>2
        <5>2. f[m] \in F /\ s[f[m]] = m
          BY <1>2, <5>1
        <5> QED BY <1>9, <2>2, <4>2, <5>2
      <4> QED BY <4>1, <4>2
    <3>3. n = r2[t] <=> s[n] = r[from]
      <4>1. n # Nil /\ s[n] # Nil
        BY <1>1, <1>2, <2>2, <3>1, NilAssumption
      <4>2. CASE r[from] = Nil
        BY <1>12, <4>1, <4>2
      <4>3. CASE r[from] # Nil
        <5>1. r[from] \in S /\ r2[t] = f[r[from]]
          BY <1>11, <1>12, <4>3
        <5> QED BY <1>2, <3>1, <5>1
      <4> QED BY <4>2, <4>3
    <3> QED BY <1>5, <1>7, <2>2, <3>1, <3>2, <3>3
  <2> QED BY <1>2, <2>1, <2>2
<1>15. ASSUME NEW m, NEW j, NEW x, NEW m2, NEW j2, Slot(g, m, j, x), Slot(g, m2, j2, x)
       PROVE  m = m2 /\ j = j2
  <2>1. m \in DOMAIN g /\ m2 \in DOMAIN g
    BY <1>15 DEF Slot
  <2>2. CASE x \in F
    <3>1. m \in F /\ m2 \in F
      BY <1>2, <1>7, <1>8, <1>15, <2>1, <2>2
    <3>2. Slot(h, s[m], j, s[x]) /\ Slot(h, s[m2], j2, s[x])
      BY <1>9, <1>15, <3>1
    <3>3. s[m] = s[m2] /\ j = j2
      BY <1>7, <3>2
    <3> QED BY <1>2, <3>1, <3>3
  <2>3. CASE x \notin F
    <3>1. m \in DOMAIN h /\ m2 \in DOMAIN h
      BY <1>2, <1>9, <1>15, <2>1, <2>3
    <3> QED BY <1>7, <1>8, <1>15, <3>1
  <2> QED BY <2>2, <2>3
<1>16. r2 \in [Trees -> DOMAIN g \union {Nil}]
  BY <1>12
<1>17. BySlots(g, r2, own2)
  BY <1>13, <1>14, <1>15, <1>16 DEF BySlots
<1> QED BY <1>10, <1>17, RootedBySlots

-----------------------------------------------------------------------------
(* The invariant of nodes and pending calls                                *)

\* No node is empty or has too many keys, and only a root has few.
Fits(h, r, own, n) ==
    /\ Len(h[n].keys) >= 1 /\ Len(h[n].keys) <= MaxKeys
    /\ n # r[own[n]] => Len(h[n].keys) >= MinDegree - 1
Occupied(h, r, own) == \A n \in DOMAIN h : Fits(h, r, own, n)

\* The pending call is at a node of its tree that takes a key, and the nodes for the
\* splits below are there.
Spare(h, k) == Cardinality(DOMAIN h) + k <= MaxNodes
Pending(h, rank, own, c) ==
    c # Idle =>
      /\ c \in [tree : Trees, node : DOMAIN h, key : Keys, value : Values]
      /\ own[c.node] = c.tree /\ ~Full(h[c.node])
      /\ \/ Spare(h, rank[c.node])
         \/ /\ Spare(h, rank[c.node] - 1)
            /\ \A x : IsChild(h, c.node, x) => ~Full(h[x])

Core(h, r, rank, own, c) ==
    Forest(h, r, rank, own) /\ Occupied(h, r, own) /\ Pending(h, rank, own, c)

\* The height of a tree is the rank of its root.
LEMMA HeightIsRank ==
    ASSUME NEW rank, NEW own, Forest(heap, root, rank, own), NEW t \in Trees, root[t] # Nil
    PROVE  root[t] \in DOMAIN heap /\ own[root[t]] = t /\ Height(t) = rank[root[t]] + 1
<1> PICK h : h = heap
  OBVIOUS
<1> PICK r : r = root[t]
  OBVIOUS
<1> DEFINE D == DOMAIN h
           Is(f) == f = [m \in D |-> IF h[m].leaf THEN 1 ELSE 1 + f[h[m].children[1]]]
           G == CHOOSE f : Is(f)
<1>1. Linked(h, rank, own) /\ r \in D /\ own[r] = t
  BY DEF Forest, Rooted
<1>2. ASSUME NEW m \in D
      PROVE  /\ rank[m] \in Nat /\ (h[m].leaf <=> rank[m] = 0)
             /\ ~h[m].leaf => h[m].children[1] \in D /\ rank[h[m].children[1]] + 1 = rank[m]
                              /\ rank[h[m].children[1]] \in Nat
  <2>1. rank[m] \in Nat /\ Len(h[m].keys) \in Nat
    BY <1>1, ChildFacts
  <2>2. h[m].leaf <=> rank[m] = 0
    BY <1>1 DEF Linked
  <2>3. CASE ~h[m].leaf
    <3>1. Len(h[m].children) = Len(h[m].keys) + 1
      BY <1>1, <2>3 DEF Linked
    <3>2. 1 \in 1..Len(h[m].children)
      BY <2>1, <3>1
    <3>3. h[m].children[1] \in D /\ rank[h[m].children[1]] + 1 = rank[m]
      BY <1>1, <3>2 DEF Linked
    <3>4. rank[h[m].children[1]] \in Nat
      BY <1>1, <3>2, ChildFacts
    <3> QED BY <2>1, <2>2, <3>3, <3>4
  <2> QED BY <2>1, <2>2, <2>3
<1> HIDE DEF D
<1>3. \E f : Is(f)
  <2> DEFINE f == [m \in D |-> rank[m] + 1]
  <2>1. ASSUME NEW m \in D
        PROVE  rank[m] + 1 = IF h[m].leaf THEN 1 ELSE 1 + f[h[m].children[1]]
    BY <1>2
  <2>2. f = [m \in D |-> IF h[m].leaf THEN 1 ELSE 1 + f[h[m].children[1]]]
    BY <2>1
  <2> QED BY <2>2
<1>4. Is(G)
  <2> HIDE DEF Is
  <2> QED BY <1>3
<1>5. Height(t) = G[r]
  BY DEF Height, D
<1> HIDE DEF G
<1>6. \A m \in D : G[m] = IF h[m].leaf THEN 1 ELSE 1 + G[h[m].children[1]]
  BY <1>4
<1> DEFINE Good == {m \in D : G[m] = rank[m] + 1}
<1>7. \A m \in D : (\A x \in D : rank[x] < rank[m] => x \in Good) => m \in Good
  <2> SUFFICES ASSUME NEW m \in D, \A x \in D : rank[x] < rank[m] => x \in Good
               PROVE  G[m] = rank[m] + 1
    OBVIOUS
  <2>1. CASE h[m].leaf
    BY <1>2, <1>6, <2>1
  <2>2. CASE ~h[m].leaf
    <3> PICK x : x = h[m].children[1]
      OBVIOUS
    <3>1. x \in D /\ rank[x] + 1 = rank[m] /\ rank[x] \in Nat
      BY <1>2, <2>2
    <3>2. x \in Good
      BY <3>1
    <3> QED BY <1>6, <2>2, <3>1, <3>2
  <2> QED BY <2>1, <2>2
<1>8. D \subseteq Good
  <2>1. rank \in [D -> Nat]
    BY <1>1 DEF Linked, D
  <2> HIDE DEF Good
  <2> QED BY <1>7, <2>1, RankInduction
<1> QED BY <1>1, <1>5, <1>8 DEF D

\* All nodes are as they should be, but p may be a root without keys.
FitsExcept(h, r, own, p) ==
    /\ \A n \in DOMAIN h \ {p} : Fits(h, r, own, n)
    /\ ~Full(h[p])
    /\ p = r[own[p]] \/ Fits(h, r, own, p)

HalvesFit(g, r, own, c, neu) == Occupied(g, r, own) /\ ~Full(g[c]) /\ ~Full(g[neu])

\* After a split of a full node the two halves are neither full nor too small.
LEMMA SplitOccupied ==
    ASSUME NEW h, NEW r, NEW rank, NEW own, Forest(h, r, rank, own), NEW g,
           NEW p \in DOMAIN h, NEW i \in 1..Len(h[p].children), NEW neu \in (1..MaxNodes) \ DOMAIN h,
           NEW c \in DOMAIN h \ {p}, IsFullSplit(h, g, p, i, c, neu), FitsExcept(h, r, own, p)
    PROVE  HalvesFit(g, r, Like(own, neu, c), c, neu)
<1> PICK own2 : own2 = Like(own, neu, c)
  OBVIOUS
<1> PICK d \in Nat : d = MinDegree /\ d >= 2 /\ MaxKeys = 2 * d - 1
  BY MinDegreeAssumption DEF MaxKeys
<1> PICK k : k = Len(h[c].keys)
  OBVIOUS
<1> PICK q : q = Middle(h[c])
  OBVIOUS
<1>1. Linked(h, rank, own) /\ own \in [DOMAIN h -> Trees] /\ neu \notin DOMAIN h
  BY DEF Forest, Linked
<1>2. own2[neu] = own[c] /\ \A n \in DOMAIN h : own2[n] = own[n]
  BY <1>1 DEF Like, With
<1>3. k \in Nat /\ k = 2 * d - 1
  <2>1. h[c].keys \in Seq(Keys) /\ Len(h[c].keys) \in Nat
    BY <1>1, ChildFacts
  <2>2. Full(h[c]) /\ Fits(h, r, own, c)
    BY DEF IsFullSplit, FitsExcept
  <2>3. k >= MaxKeys /\ k <= MaxKeys /\ k \in Nat
    BY <2>1, <2>2 DEF Full, Fits
  <2> QED BY <2>3
<1>4. q \in Nat /\ q >= d - 1 /\ k - q - 1 >= d - 1
  <2>1. h[c].keys \in Seq(Keys)
    BY <1>1, ChildFacts
  <2> QED BY <2>1, MiddleFacts DEF IsFullSplit
<1>5. q = d - 1
  BY <1>3, <1>4
<1>6. Len(g[c].keys) = q /\ Len(g[neu].keys) \in {k - q, k - q - 1}
  <2>1. h[c].leaf \in BOOLEAN
    BY <1>1 DEF Linked, HeapType, IsNode
  <2> QED BY <2>1 DEF IsFullSplit, Halved
<1>7. Len(g[p].keys) = Len(h[p].keys) + 1 /\ Len(h[p].keys) \in Nat
  BY <1>1, ChildFacts DEF IsFullSplit, Promoted
<1>8. DOMAIN g = DOMAIN h \union {neu} /\ \A m \in DOMAIN h \ {p, c} : g[m] = h[m]
  BY DEF IsFullSplit, IsSplit
<1>9. Len(g[c].keys) = d - 1 /\ Len(g[neu].keys) >= d - 1 /\ Len(g[neu].keys) <= d
      /\ Len(g[neu].keys) \in Nat
  BY <1>3, <1>5, <1>6
<1>10. ASSUME NEW n \in DOMAIN g PROVE Fits(g, r, own2, n)
  <2>1. CASE n \in {c, neu}
    BY <1>9, <2>1 DEF Fits
  <2>2. CASE n = p
    <3> PICK j \in Nat : j = Len(h[p].keys)
      BY <1>7
    <3>1. ~(j >= MaxKeys) /\ own2[p] = own[p]
      BY <1>2 DEF Full, FitsExcept
    <3>2. p # r[own[p]] => j >= MinDegree - 1
      BY DEF Fits, FitsExcept
    <3>3. j + 1 >= 1 /\ j + 1 <= MaxKeys /\ (j >= MinDegree - 1 => j + 1 >= MinDegree - 1)
      BY <3>1
    <3>4. p # r[own2[p]] => Len(g[p].keys) >= MinDegree - 1
      BY <1>7, <3>1, <3>2, <3>3
    <3> QED BY <1>7, <2>2, <3>3, <3>4 DEF Fits
  <2>3. CASE n \notin {p, c, neu}
    <3>1. Fits(h, r, own, n)
      BY <1>8, <2>3 DEF FitsExcept
    <3> QED BY <1>2, <1>8, <2>3, <3>1 DEF Fits
  <2> QED BY <2>1, <2>2, <2>3
<1> QED BY <1>9, <1>10 DEF Occupied, Full, HalvesFit

\* One, or two, nodes that are free.
LEMMA FreeNode ==
    ASSUME NEW h, HeapType(h), NEW k \in Nat, k >= 1, Spare(h, k)
    PROVE  FreeNodes(h, 1)[1] \in (1..MaxNodes) \ DOMAIN h
<1>1. IsFiniteSet(DOMAIN h) /\ Cardinality(DOMAIN h) \in Nat
  BY HeapFinite, FS_CardinalityType
<1>2. DOMAIN h \subseteq 1..MaxNodes /\ Cardinality(DOMAIN h) + 1 <= MaxNodes
  BY <1>1, MaxNodesAssumption DEF HeapType, Spare
<1> PICK F : F = (1..MaxNodes) \ DOMAIN h
  OBVIOUS
<1> PICK s : s = FreeNodes(h, 1)
  OBVIOUS
<1>3. s \in Seq(F) /\ Len(s) = 1
  BY <1>2, FreeFacts DEF AreFree
<1> QED BY <1>3, ElementOfSeq

\* The two nodes that a full root needs are free, and not the same.
LEMMA FreePair ==
    ASSUME NEW h, HeapType(h), NEW k \in Nat, k >= 2, Spare(h, k)
    PROVE  /\ FreeNodes(h, 2)[1] \in (1..MaxNodes) \ DOMAIN h
           /\ FreeNodes(h, 2)[2] \in (1..MaxNodes) \ DOMAIN h
           /\ FreeNodes(h, 2)[1] # FreeNodes(h, 2)[2]
<1>1. IsFiniteSet(DOMAIN h) /\ Cardinality(DOMAIN h) \in Nat
  BY HeapFinite, FS_CardinalityType
<1>2. DOMAIN h \subseteq 1..MaxNodes /\ Cardinality(DOMAIN h) + 2 <= MaxNodes
  BY <1>1, MaxNodesAssumption DEF HeapType, Spare
<1> PICK F : F = (1..MaxNodes) \ DOMAIN h
  OBVIOUS
<1> PICK e \in Nat : e = 2
  OBVIOUS
<1> PICK s : s = FreeNodes(h, e)
  OBVIOUS
<1>3. s \in Seq(F) /\ Len(s) = e /\ \A i, j \in 1..e : s[i] = s[j] => i = j
  <2>1. Cardinality(DOMAIN h) + e <= MaxNodes
    BY <1>2
  <2>2. AreFree(s, h, e)
    BY <1>2, <2>1, FreeFacts
  <2> QED BY <2>2 DEF AreFree
<1>4. 1 \in 1..2 /\ 2 \in 1..2 /\ 1 # 2
  OBVIOUS
<1>5. s[1] \in F /\ s[2] \in F
  BY <1>3, <1>4, ElementOfSeq
<1> QED BY <1>3, <1>4, <1>5

\* A new node takes one of the spare ones.
LEMMA SpareTaken ==
    ASSUME NEW h, HeapType(h), NEW g, NEW n, n \notin DOMAIN h, DOMAIN g = DOMAIN h \union {n},
           NEW k \in Int, Spare(h, k)
    PROVE  Spare(g, k - 1)
<1>1. IsFiniteSet(DOMAIN h) /\ Cardinality(DOMAIN h) \in Nat
  BY HeapFinite, FS_CardinalityType
<1>2. Cardinality(DOMAIN g) = Cardinality(DOMAIN h) + 1
  BY <1>1, FS_AddElement
<1> QED BY <1>1, <1>2, MaxNodesAssumption DEF Spare

\* The half that the call goes on with.
GoesOn(h, g, p, i, k, c, neu) ==
    /\ HalfFor(g[p], i, k) = IF k >= h[c].keys[Middle(h[c]) + 1] THEN neu ELSE c
    /\ IsChild(g, p, c) /\ IsChild(g, p, neu)

\* The half that insertion goes on in is a child of the parent.
LEMMA HalfOfSplit ==
    ASSUME NEW h, NEW rank, NEW own, Linked(h, rank, own), NEW g,
           NEW p \in DOMAIN h, NEW i \in 1..Len(h[p].children), NEW neu, NEW c,
           c = h[p].children[i], ~h[p].leaf, IsFullSplit(h, g, p, i, c, neu), NEW k
    PROVE  GoesOn(h, g, p, i, k, c, neu)
<1>1. Len(h[p].children) \in Nat /\ Len(h[p].children) = Len(h[p].keys) + 1
  BY ChildFacts DEF Linked
<1> PICK e \in Nat : e = Len(h[p].children)
  BY <1>1
<1>2. /\ i \in 1..(e + 1) /\ i + 1 \in 1..(e + 1) /\ i < i + 1 /\ ~(i < i) /\ ~(i + 1 < i + 1)
      /\ i \in 1..Len(h[p].keys) + 1
  BY <1>1
<1>3. g[p].keys[i] = h[c].keys[Middle(h[c]) + 1]
  BY <1>2 DEF IsFullSplit, Promoted
<1>4. Len(g[p].children) = e + 1 /\ g[p].children[i] = c /\ g[p].children[i + 1] = neu
  BY <1>2 DEF IsFullSplit, Promoted
<1> QED BY <1>2, <1>3, <1>4 DEF HalfFor, IsChild, GoesOn

\* The first insertion makes a leaf the root.
LEMMA InsertFirstCore ==
    ASSUME NEW rank, NEW own, Core(heap, root, rank, own, call),
           NEW t \in Trees, NEW k \in Keys, NEW v \in Values, InsertFirst(t, k, v),
           NEW l, l = FreeNodes(heap, 1)[1]
    PROVE  Core(heap', root', With(rank, l, 0), With(own, l, t), call')
<1> PICK node : node = Leaf(<<k>>, <<v>>, Nil)
  OBVIOUS
<1> PICK own2 : own2 = With(own, l, t)
  OBVIOUS
<1> PICK rank2 : rank2 = With(rank, l, 0)
  OBVIOUS
<1> PICK r2 : r2 = [root EXCEPT ![t] = l]
  OBVIOUS
<1>1. HeapType(heap) /\ Forest(heap, root, rank, own) /\ Spare(heap, 1) /\ root[t] = Nil
  BY DEF Core, Forest, Linked, InsertFirst, Room, Spare
<1>2. l \in (1..MaxNodes) \ DOMAIN heap
  BY <1>1, FreeNode
<1>3. heap' = With(heap, l, node) /\ root' = r2 /\ call' = Idle
  BY DEF InsertFirst
<1>4. IsNewRoot(node, root, rank, t, 0) /\ Len(node.keys) = 1
  <2>1. <<k>> \in Seq(Keys) /\ <<v>> \in Seq(Values) /\ Len(<<k>>) = 1 /\ Len(<<v>>) = 1
    OBVIOUS
  <2>2. IsNode(node)
    BY <2>1, LeafIsNode
  <2>3. node.leaf /\ node.children = <<>> /\ node.keys = <<k>> /\ node.values = <<v>>
    BY DEF Leaf
  <2> QED BY <1>1, <2>1, <2>2, <2>3 DEF IsNewRoot
<1>5. Forest(heap', root', rank2, own2)
  BY <1>1, <1>2, <1>3, <1>4, NewRootForest
<1>6. Occupied(heap', root', own2)
  <2> PICK g : g = heap'
    OBVIOUS
  <2>1. DOMAIN g = DOMAIN heap \union {l} /\ g[l] = node /\ \A n \in DOMAIN heap : g[n] = heap[n]
    BY <1>2, <1>3 DEF With
  <2>2. own2[l] = t /\ own \in [DOMAIN heap -> Trees] /\ \A n \in DOMAIN heap : own2[n] = own[n]
    BY <1>1, <1>2 DEF With, Forest, Linked
  <2>3. r2[t] = l /\ \A u \in Trees \ {t} : r2[u] = root[u]
    BY <1>1 DEF Forest, Rooted
  <2>4. \A n \in DOMAIN heap : own[n] # t /\ own[n] \in Trees
    BY <1>1, <2>2, SubtreeOwned
  <2>5. ASSUME NEW n \in DOMAIN g PROVE Fits(g, r2, own2, n)
    <3>1. CASE n = l
      <4>1. 1 <= MaxKeys
        BY MinDegreeAssumption DEF MaxKeys
      <4>2. r2[own2[l]] = l /\ Len(g[l].keys) = 1
        BY <1>4, <2>1, <2>2, <2>3
      <4> QED BY <3>1, <4>1, <4>2 DEF Fits
    <3>2. CASE n \in DOMAIN heap
      <4>1. Fits(heap, root, own, n)
        BY <3>2 DEF Core, Occupied
      <4> QED BY <2>1, <2>2, <2>3, <2>4, <3>2, <4>1 DEF Fits
    <3> QED BY <2>1, <3>1, <3>2
  <2> QED BY <1>3, <2>5 DEF Occupied
<1> QED BY <1>3, <1>5, <1>6 DEF Core, Pending

\* An insertion into a tree whose root is not full changes nothing but the call.
LEMMA InsertCore ==
    ASSUME NEW rank, NEW own, Core(heap, root, rank, own, call),
           NEW t \in Trees, NEW k \in Keys, NEW v \in Values, Insert(t, k, v), ~Full(heap[root[t]])
    PROVE  Core(heap, root, rank, own, call')
<1>1. /\ root[t] \in DOMAIN heap /\ own[root[t]] = t /\ Height(t) = rank[root[t]] + 1
      /\ root[t] # Nil
  BY HeightIsRank DEF Core, Insert
<1>2. rank[root[t]] \in Nat /\ heap[root[t]].keys \in Seq(Keys) /\ Len(heap[root[t]].keys) \in Nat
  BY <1>1, ChildFacts DEF Core, Forest
<1>3. Reserve(t) = rank[root[t]]
  BY <1>1, <1>2, MinDegreeAssumption DEF Reserve, Full, MaxKeys
<1>4. Spare(heap, rank[root[t]])
  BY <1>3 DEF Insert, Room, Spare
<1>5. call' = [tree |-> t, node |-> root[t], key |-> k, value |-> v]
  BY DEF Insert
<1> PICK c : c = call'
  OBVIOUS
<1>6. c \in [tree : Trees, node : DOMAIN heap, key : Keys, value : Values] /\ c.tree = t /\ c.node = root[t]
  BY <1>1, <1>5
<1>7. Pending(heap, rank, own, c)
  BY <1>1, <1>4, <1>6 DEF Pending
<1> QED BY <1>7 DEF Core

\* The heap with a new parent of the root of t.
Raised(t, new) == With(heap, new, Inner(<<>>, <<root[t]>>))
RaisedRank(rank, t, new) == With(rank, new, rank[root[t]] + 1)

\* What a split of the root makes.
First(i) == i = 1
IsRootSplit(rank, own, t, k, v, p, i, neu, h, r2, c) ==
    /\ Forest(h, r2, RaisedRank(rank, t, p), With(own, p, t))
    /\ DOMAIN h = DOMAIN heap \union {p} /\ p \notin DOMAIN heap
    /\ \A n \in DOMAIN heap : h[n] = heap[n]
    /\ neu \in (1..MaxNodes) \ DOMAIN h /\ c \in DOMAIN h \ {p} /\ own[c] = t
    /\ h[p] = Inner(<<>>, <<c>>) /\ i \in 1..Len(h[p].children) /\ h[p].children[i] = c
    /\ ~h[p].leaf /\ Len(h[p].keys) = 0
    /\ rank[c] \in Nat /\ Spare(heap, rank[c] + 2)
    /\ IsFullSplit(h, heap', p, i, c, neu) /\ root' = r2
    /\ call' = [tree |-> t, node |-> p, key |-> k, value |-> v]

\* What Insert does when the root is full.
LEMMA RootSplitFacts ==
    ASSUME NEW rank, NEW own, Core(heap, root, rank, own, call),
           NEW t \in Trees, NEW k \in Keys, NEW v \in Values, Insert(t, k, v), Full(heap[root[t]]),
           NEW p, p = FreeNodes(heap, 2)[1], NEW neu, neu = FreeNodes(heap, 2)[2],
           NEW h, h = Raised(t, p), NEW r2, r2 = [root EXCEPT ![t] = p], NEW c, c = root[t],
           NEW i, First(i)
    PROVE  IsRootSplit(rank, own, t, k, v, p, i, neu, h, r2, c)
<1>1. /\ c \in DOMAIN heap /\ own[c] = t /\ Height(t) = rank[c] + 1
      /\ c # Nil
  BY HeightIsRank DEF Core, Insert
<1>2. HeapType(heap) /\ Forest(heap, root, rank, own) /\ Linked(heap, rank, own)
  BY DEF Core, Forest, Linked
<1>3. rank[c] \in Nat /\ heap[c].keys \in Seq(Keys) /\ Len(heap[c].keys) \in Nat
  BY <1>1, <1>2, ChildFacts
<1>4. Reserve(t) = rank[c] + 2
  BY <1>1, <1>3, MinDegreeAssumption DEF Reserve, Full, MaxKeys
<1>5. Spare(heap, rank[c] + 2)
  BY <1>4 DEF Insert, Room, Spare
<1>6. p \in (1..MaxNodes) \ DOMAIN heap /\ neu \in (1..MaxNodes) \ DOMAIN heap /\ p # neu
  <2>1. rank[c] + 2 \in Nat /\ rank[c] + 2 >= 2
    BY <1>3
  <2> QED BY <1>2, <1>5, <2>1, FreePair
<1> PICK node : node = Inner(<<>>, <<c>>)
  OBVIOUS
<1>7. /\ IsNode(node) /\ ~node.leaf /\ node.children = <<c>> /\ node.keys = <<>>
      /\ Len(node.keys) = 0 /\ Len(node.children) = 1 /\ node.children[1] = c
  <2>1. c \in 1..MaxNodes
    BY <1>1, <1>2 DEF HeapType
  <2>2. <<>> \in Seq(Keys) /\ <<c>> \in Seq(1..MaxNodes) /\ Len(<<c>>) = 1 /\ Len(<<>>) = 0 /\ <<c>>[1] = c
    BY <2>1
  <2>3. IsNode(node)
    BY <2>2, InnerIsNode
  <2>4. ~node.leaf /\ node.children = <<c>> /\ node.keys = <<>>
    BY DEF Inner
  <2> QED BY <2>2, <2>3, <2>4
<1>8. h = With(heap, p, node)
  BY DEF Raised
<1>9. DOMAIN h = DOMAIN heap \union {p} /\ h[p] = node /\ \A n \in DOMAIN heap : h[n] = heap[n]
  BY <1>6, <1>8 DEF With
<1>10. Forest(h, r2, RaisedRank(rank, t, p), With(own, p, t))
  <2>1. IsNewRoot(node, root, rank, t, rank[c] + 1)
    BY <1>1, <1>7 DEF IsNewRoot
  <2> QED BY <1>2, <1>6, <1>8, <2>1, NewRootForest DEF RaisedRank
<1>11. i \in 1..Len(h[p].children) /\ h[p].children[i] = c
  BY <1>7, <1>9 DEF First
<1>12. /\ heap' = SplitChild(h, p, i, neu) /\ root' = r2
       /\ call' = [tree |-> t, node |-> p, key |-> k, value |-> v]
  BY DEF Insert, Raised, First
<1>13. IsFullSplit(h, heap', p, i, c, neu)
  <2>1. i \in 1..Len(h[p].children) /\ c = h[p].children[i] /\ Full(h[c])
    BY <1>1, <1>9, <1>11
  <2>2. p \in DOMAIN h /\ neu \in (1..MaxNodes) \ DOMAIN h
    BY <1>6, <1>9, Zenon
  <2>3. IsFullSplit(h, SplitChild(h, p, i, neu), p, i, c, neu)
    BY <1>10, <2>1, <2>2, FullSplitFacts DEF Forest
  <2> QED BY <1>12, <2>3
<1> QED BY <1>1, <1>3, <1>5, <1>6, <1>7, <1>9, <1>10, <1>11, <1>12, <1>13 DEF IsRootSplit

\* Insert at a full root keeps the invariant.
LEMMA InsertSplitCore ==
    ASSUME NEW rank, NEW own, Core(heap, root, rank, own, call),
           NEW t \in Trees, NEW k \in Keys, NEW v \in Values, Insert(t, k, v), Full(heap[root[t]]),
           NEW p, p = FreeNodes(heap, 2)[1], NEW neu, neu = FreeNodes(heap, 2)[2]
    PROVE  Core(heap', root', Like(RaisedRank(rank, t, p), neu, root[t]),
                Like(With(own, p, t), neu, root[t]), call')
<1> PICK h : h = Raised(t, p)
  OBVIOUS
<1> PICK r2 : r2 = [root EXCEPT ![t] = p]
  OBVIOUS
<1> PICK c : c = root[t]
  OBVIOUS
<1> PICK own1 : own1 = With(own, p, t)
  OBVIOUS
<1> PICK rank1 : rank1 = RaisedRank(rank, t, p)
  OBVIOUS
<1> PICK g : g = heap'
  OBVIOUS
<1> PICK own2 : own2 = Like(own1, neu, c)
  OBVIOUS
<1> PICK rank2 : rank2 = Like(rank1, neu, c)
  OBVIOUS
<1> PICK one : First(one)
  BY DEF First
<1>1. /\ Forest(h, r2, rank1, own1)
      /\ DOMAIN h = DOMAIN heap \union {p} /\ p \notin DOMAIN heap
      /\ \A n \in DOMAIN heap : h[n] = heap[n]
      /\ neu \in (1..MaxNodes) \ DOMAIN h /\ c \in DOMAIN h \ {p} /\ own[c] = t
      /\ h[p] = Inner(<<>>, <<c>>) /\ one \in 1..Len(h[p].children) /\ h[p].children[one] = c
      /\ ~h[p].leaf /\ Len(h[p].keys) = 0
      /\ rank[c] \in Nat /\ Spare(heap, rank[c] + 2)
      /\ IsFullSplit(h, g, p, one, c, neu) /\ root' = r2
      /\ call' = [tree |-> t, node |-> p, key |-> k, value |-> v]
  <2>1. IsRootSplit(rank, own, t, k, v, p, one, neu, h, r2, c)
    BY RootSplitFacts
  <2> QED BY <2>1 DEF IsRootSplit
<1>2. p \in DOMAIN h
  BY <1>1
<1>3. Forest(g, r2, rank2, own2)
  <2>1. /\ Forest(h, r2, rank1, own1) /\ neu \in (1..MaxNodes) \ DOMAIN h /\ c \in DOMAIN h \ {p}
        /\ one \in 1..Len(h[p].children) /\ c = h[p].children[one]
        /\ ~h[p].leaf /\ IsFullSplit(h, g, p, one, c, neu)
    BY <1>1
  <2> QED BY <1>2, <2>1, SplitForest
<1>4. /\ HeapType(heap) /\ HeapType(h) /\ own \in [DOMAIN heap -> Trees] /\ rank \in [DOMAIN heap -> Nat]
      /\ root \in [Trees -> DOMAIN heap \union {Nil}]
  BY <1>1 DEF Core, Forest, Linked, Rooted
<1>5. own1[p] = t /\ \A n \in DOMAIN heap : own1[n] = own[n]
  BY <1>1, <1>4 DEF With
<1>6. rank1[p] = rank[c] + 1
  BY <1>1, <1>4 DEF With, RaisedRank
<1>7. r2[t] = p /\ \A u \in Trees \ {t} : r2[u] = root[u]
  BY <1>4
<1>8. Occupied(g, r2, own2) /\ ~Full(g[c]) /\ ~Full(g[neu])
  <2>1. \A n \in DOMAIN h \ {p} : Fits(h, r2, own1, n)
    <3> SUFFICES ASSUME NEW n \in DOMAIN h \ {p} PROVE Fits(h, r2, own1, n)
      OBVIOUS
    <3>1. n \in DOMAIN heap /\ h[n] = heap[n] /\ own1[n] = own[n] /\ own[n] \in Trees
      BY <1>1, <1>4, <1>5
    <3>2. Fits(heap, root, own, n)
      BY <3>1 DEF Core, Occupied
    <3>3. CASE n = c
      <4>1. Len(heap[c].keys) >= MinDegree - 1
        <5>1. Full(heap[c])
          OBVIOUS
        <5>2. Len(heap[c].keys) \in Nat
          BY <3>1, <3>3, ChildFacts DEF Core, Forest
        <5> QED BY <5>1, <5>2, MinDegreeAssumption DEF Full, MaxKeys
      <4> QED BY <3>1, <3>2, <3>3, <4>1 DEF Fits
    <3>4. CASE n # c
      <4>1. n # r2[own[n]] => n # root[own[n]]
        BY <1>7, <3>1, <3>4
      <4> QED BY <3>1, <3>2, <4>1 DEF Fits
    <3> QED BY <3>3, <3>4
  <2>2. ~Full(h[p]) /\ p = r2[own1[p]]
    BY <1>1, <1>5, <1>7, MinDegreeAssumption DEF Full, MaxKeys
  <2>3. /\ Forest(h, r2, rank1, own1) /\ neu \in (1..MaxNodes) \ DOMAIN h /\ c \in DOMAIN h \ {p}
        /\ one \in 1..Len(h[p].children) /\ IsFullSplit(h, g, p, one, c, neu)
    BY <1>1
  <2>4. FitsExcept(h, r2, own1, p)
    BY <2>1, <2>2 DEF FitsExcept
  <2>5. HalvesFit(g, r2, own2, c, neu)
    BY <1>2, <2>3, <2>4, SplitOccupied
  <2> QED BY <2>5 DEF HalvesFit
<1>9. Pending(g, rank2, own2, call')
  <2> PICK d : d = call'
    BY SMTT(30)
  <2>1. DOMAIN g = DOMAIN h \union {neu} /\ neu \notin DOMAIN h
    BY <1>1 DEF IsFullSplit, IsSplit
  <2>2. rank2[p] = rank[c] + 1 /\ own2[p] = t
    <3> PICK D : D = DOMAIN h
      OBVIOUS
    <3>1. DOMAIN own1 = D /\ DOMAIN rank1 = D /\ c \in D /\ neu \notin D /\ p \in D
      BY <1>1, <1>2 DEF Forest, Linked
    <3>2. own2[p] = own1[p] /\ rank2[p] = rank1[p]
      BY <3>1, LikeFacts
    <3> QED BY <1>5, <1>6, <3>2
  <2>3. d \in [tree : Trees, node : DOMAIN g, key : Keys, value : Values] /\ d.node = p /\ d.tree = t
    BY <1>1, <1>2, <2>1
  <2>4. Spare(g, rank[c])
    <3> PICK e2 : e2 = rank[c] + 2
      OBVIOUS
    <3> PICK e1 : e1 = e2 - 1
      OBVIOUS
    <3> PICK e0 : e0 = e1 - 1
      OBVIOUS
    <3>0. e2 \in Int /\ e1 \in Int /\ e0 = rank[c] /\ Spare(heap, e2)
      BY <1>1
    <3>1. Spare(h, e1)
      BY <1>1, <1>4, <3>0, SpareTaken
    <3>2. Spare(g, e0)
      BY <1>4, <2>1, <3>0, <3>1, SpareTaken
    <3> QED BY <3>0, <3>2
  <2>5. ~Full(g[p]) /\ \A x : IsChild(g, p, x) => ~Full(g[x])
    <3>1. /\ Len(g[p].keys) = 1
          /\ Len(g[p].children) = 2
          /\ \A j \in 1..2 : g[p].children[j] = IF j < 2 THEN c ELSE neu
      <4>1. Promoted(h[p], g[p], 1, h[c].keys[Middle(h[c]) + 1], neu)
        BY <1>1 DEF IsFullSplit, First
      <4>2. h[p].children = <<c>> /\ Len(h[p].children) = 1
        <5>1. Len(<<c>>) = 1
          BY SMTT(30)
        <5> QED BY <1>1, <5>1 DEF Inner
      <4>3. Len(g[p].keys) = 0 + 1 /\ Len(g[p].children) = 1 + 1
        BY <1>1, <4>1, <4>2 DEF Promoted
      <4>4. \A j \in 1..(1 + 1) : g[p].children[j] =
               IF j < 1 + 1 THEN h[p].children[j] ELSE IF j = 1 + 1 THEN neu ELSE h[p].children[j - 1]
        BY <4>1, <4>2 DEF Promoted
      <4>5. \A j \in 1..2 : j < 2 => h[p].children[j] = c
        BY <1>1 DEF First
      <4> QED BY <4>3, <4>4, <4>5, SMTT(30)
    <3>2. ~Full(g[p])
      BY <3>1, MinDegreeAssumption DEF Full, MaxKeys
    <3>3. \A x : IsChild(g, p, x) => x = c \/ x = neu
      BY <3>1 DEF IsChild
    <3> QED BY <1>8, <3>2, <3>3
  <2>6. Spare(g, rank2[p] - 1)
    BY <1>1, <2>2, <2>4
  <2> QED BY <2>2, <2>3, <2>5, <2>6 DEF Pending
<1> QED BY <1>1, <1>3, <1>8, <1>9 DEF Core

\* The place where a key belongs in a node.
LEMMA BoundFacts ==
    ASSUME NEW s \in Seq(Keys), NEW k \in Keys
    PROVE  /\ LowerBound(s, k) \in 0..Len(s) /\ UpperBound(s, k) \in 0..Len(s)
           /\ LowerBound(s, k) + 1 \in 1..(Len(s) + 1) /\ UpperBound(s, k) + 1 \in 1..(Len(s) + 1)
<1> PICK e \in Nat : e = Len(s)
  BY LenProperties
<1>1. DOMAIN s = 1..e
  BY LenProperties
<1>2. IsFiniteSet(1..e) /\ Cardinality(1..e) = e
  <2>1. 1 \in Int /\ e \in Int
    OBVIOUS
  <2>2. IsFiniteSet(1..e) /\ Cardinality(1..e) = IF 1 > e THEN 0 ELSE e - 1 + 1
    BY <2>1, FS_Interval
  <2> QED BY <2>2
<1>3. ASSUME NEW A \in SUBSET (1..e) PROVE Cardinality(A) \in 0..e
  <2>1. IsFiniteSet(A) /\ Cardinality(A) <= e
    BY <1>2, FS_Subset
  <2>2. Cardinality(A) \in Nat
    BY <2>1, FS_CardinalityType
  <2> QED BY <2>1, <2>2
<1>4. LowerBound(s, k) \in 0..e /\ UpperBound(s, k) \in 0..e
  <2>1. {i \in DOMAIN s : s[i] < k} \in SUBSET (1..e) /\ {i \in DOMAIN s : s[i] <= k} \in SUBSET (1..e)
    BY <1>1
  <2> QED BY <1>3, <2>1 DEF LowerBound, UpperBound
<1> QED BY <1>4

\* Where Descend goes.
LEMMA RouteFacts ==
    ASSUME NEW h, NEW r, NEW rank, NEW own, Forest(h, r, rank, own), NEW p \in DOMAIN h, ~h[p].leaf,
           NEW k \in Keys, NEW i, i = UpperBound(h[p].keys, k) + 1, NEW c, c = h[p].children[i]
    PROVE  /\ i \in 1..Len(h[p].children) /\ c \in DOMAIN h \ {p} /\ IsChild(h, p, c)
           /\ rank[c] + 1 = rank[p] /\ own[c] = own[p] /\ rank[c] \in Nat
<1>1. h[p].keys \in Seq(Keys) /\ Len(h[p].children) = Len(h[p].keys) + 1 /\ rank[p] \in Nat
  BY ChildFacts, SMTT(30) DEF Forest, Linked
<1>2. i \in 1..Len(h[p].children)
  BY <1>1, BoundFacts
<1>3. c \in DOMAIN h /\ rank[c] + 1 = rank[p] /\ own[c] = own[p]
  BY <1>2 DEF Forest, Linked
<1>4. rank[c] \in Nat
  BY <1>3, ChildFacts DEF Forest
<1>5. c # p
  BY <1>1, <1>3
<1> QED BY <1>2, <1>3, <1>4, <1>5 DEF IsChild

\* What a call holds.
LEMMA CallFacts ==
    ASSUME NEW h, NEW r, NEW rank, NEW own, NEW c, Core(h, r, rank, own, c), c # Idle
    PROVE  /\ c.tree \in Trees /\ c.node \in DOMAIN h /\ c.key \in Keys /\ c.value \in Values
           /\ own[c.node] = c.tree /\ ~Full(h[c.node])
           /\ \A n : [c EXCEPT !.node = n] = [tree |-> c.tree, node |-> n, key |-> c.key, value |-> c.value]
           /\ \/ Spare(h, rank[c.node])
              \/ /\ Spare(h, rank[c.node] - 1)
                 /\ \A x : IsChild(h, c.node, x) => ~Full(h[x])
BY DEF Core, Pending

\* One level down, with no split.
LEMMA DescendCore ==
    ASSUME NEW rank, NEW own, Core(heap, root, rank, own, call), Descend,
           NEW p, p = call.node, NEW i, i = UpperBound(heap[p].keys, call.key) + 1,
           NEW c, c = heap[p].children[i], ~Full(heap[c])
    PROVE  Core(heap, root, rank, own, call') /\ UNCHANGED <<heap, root, size>>
<1>1. /\ call.tree \in Trees /\ p \in DOMAIN heap /\ call.key \in Keys /\ call.value \in Values
      /\ own[p] = call.tree /\ ~Full(heap[p])
      /\ \A n : [call EXCEPT !.node = n] =
           [tree |-> call.tree, node |-> n, key |-> call.key, value |-> call.value]
      /\ \/ Spare(heap, rank[p])
         \/ Spare(heap, rank[p] - 1) /\ \A x : IsChild(heap, p, x) => ~Full(heap[x])
  BY CallFacts DEF Descend
<1>2. ~heap[p].leaf /\ Forest(heap, root, rank, own)
  BY DEF Descend, Core
<1>3. /\ i \in 1..Len(heap[p].children) /\ c \in DOMAIN heap \ {p} /\ IsChild(heap, p, c)
      /\ rank[c] + 1 = rank[p] /\ own[c] = own[p] /\ rank[c] \in Nat
  BY <1>1, <1>2, RouteFacts
<1>4. call' = [call EXCEPT !.node = c] /\ UNCHANGED <<heap, root, size>>
  BY DEF Descend
<1> PICK d : d = call'
  OBVIOUS
<1>5. d = [tree |-> call.tree, node |-> c, key |-> call.key, value |-> call.value]
  BY <1>1, <1>4
<1>6. d \in [tree : Trees, node : DOMAIN heap, key : Keys, value : Values] /\ d.node = c /\ d.tree = own[c]
  BY <1>1, <1>3, <1>5
<1>7. Spare(heap, rank[c])
  <2> PICK e : e = Cardinality(DOMAIN heap)
    OBVIOUS
  <2>1. e \in Nat
    BY <1>2, HeapFinite, FS_CardinalityType DEF Forest, Linked
  <2>2. e + rank[p] <= MaxNodes \/ e + (rank[p] - 1) <= MaxNodes
    BY <1>1, SMTT(30) DEF Spare
  <2>3. PICK x \in Nat : x = rank[c]
    BY <1>3, Zenon
  <2>4. PICK y \in Nat : y = rank[p] /\ y = x + 1
    <3>1. x + 1 = rank[p]
      BY Zenon, <1>3, <2>3
    <3>2. x + 1 \in Nat
      OBVIOUS
    <3> QED BY <3>1, <3>2
  <2>5. e + y <= MaxNodes \/ e + (y - 1) <= MaxNodes
    BY <2>2, <2>4
  <2>6. e + x <= MaxNodes
    BY <2>1, <2>4, <2>5, MaxNodesAssumption
  <2> QED BY <2>3, <2>6 DEF Spare
<1>8. Pending(heap, rank, own, d)
  BY <1>3, <1>6, <1>7, Zenon DEF Pending
<1> QED BY <1>4, <1>8, Zenon DEF Core

\* One level down, behind a split.
IsDescent(rank, own, p, i, c, neu) ==
    /\ call # Idle /\ p = call.node
    /\ p \in DOMAIN heap /\ ~heap[p].leaf /\ neu \in (1..MaxNodes) \ DOMAIN heap
    /\ i \in 1..Len(heap[p].children) /\ c \in DOMAIN heap \ {p} /\ c = heap[p].children[i]
    /\ rank[c] + 1 = rank[p] /\ own[c] = own[p] /\ rank[c] \in Nat
    /\ Spare(heap, rank[p]) /\ rank[p] \in Nat /\ ~Full(heap[p])
    /\ IsFullSplit(heap, heap', p, i, c, neu)
    /\ call' = [tree |-> call.tree, node |-> HalfFor(heap'[p], i, call.key),
                key |-> call.key, value |-> call.value]
    /\ UNCHANGED <<root, size>>

\* What Descend does when the child is full.
LEMMA DescendSplitFacts ==
    ASSUME NEW rank, NEW own, Core(heap, root, rank, own, call), Descend,
           NEW p, p = call.node, NEW i, i = UpperBound(heap[p].keys, call.key) + 1,
           NEW c, c = heap[p].children[i], Full(heap[c]), NEW neu, neu = FreeNodes(heap, 1)[1]
    PROVE  IsDescent(rank, own, p, i, c, neu)
<1>1. /\ call.tree \in Trees /\ p \in DOMAIN heap /\ call.key \in Keys /\ call.value \in Values
      /\ own[p] = call.tree /\ ~Full(heap[p])
      /\ \A n : [call EXCEPT !.node = n] =
           [tree |-> call.tree, node |-> n, key |-> call.key, value |-> call.value]
      /\ \/ Spare(heap, rank[p])
         \/ Spare(heap, rank[p] - 1) /\ \A x : IsChild(heap, p, x) => ~Full(heap[x])
  BY CallFacts DEF Descend
<1>2. ~heap[p].leaf /\ Forest(heap, root, rank, own) /\ HeapType(heap)
  BY DEF Descend, Core, Forest, Linked
<1>3. /\ i \in 1..Len(heap[p].children) /\ c \in DOMAIN heap \ {p} /\ IsChild(heap, p, c)
      /\ rank[c] + 1 = rank[p] /\ own[c] = own[p] /\ rank[c] \in Nat
  BY <1>1, <1>2, RouteFacts
<1>4. Spare(heap, rank[p]) /\ rank[p] \in Nat /\ rank[p] >= 1
  <2>1. Spare(heap, rank[p])
    BY <1>1, <1>3
  <2>2. rank[p] \in Nat
    BY <1>1, <1>2, ChildFacts DEF Forest
  <2>3. rank[p] # 0
    BY <1>1, <1>2 DEF Forest, Linked
  <2> QED BY <2>1, <2>2, <2>3
<1>5. neu \in (1..MaxNodes) \ DOMAIN heap
  BY <1>2, <1>4, FreeNode
<1>6. /\ heap' = SplitChild(heap, p, i, neu) /\ call' = [call EXCEPT !.node = HalfFor(heap'[p], i, call.key)]
      /\ UNCHANGED <<root, size>>
  BY Zenon DEF Descend
<1>7. IsFullSplit(heap, heap', p, i, c, neu)
  <2>1. IsFullSplit(heap, SplitChild(heap, p, i, neu), p, i, c, neu)
    BY <1>1, <1>2, <1>3, <1>5, FullSplitFacts DEF Forest
  <2> QED BY <1>6, <2>1, Zenon
<1>8. call' = [tree |-> call.tree, node |-> HalfFor(heap'[p], i, call.key),
               key |-> call.key, value |-> call.value]
  BY <1>1, <1>6
<1>9. call # Idle
  BY DEF Descend
<1> QED BY <1>1, <1>2, <1>3, <1>4, <1>5, <1>6, <1>7, <1>8, <1>9, Zenon DEF IsDescent

\* Descend behind a split keeps the invariant.
LEMMA DescendSplitCore ==
    ASSUME NEW rank, NEW own, Core(heap, root, rank, own, call),
           NEW p, NEW i, NEW c, NEW neu, IsDescent(rank, own, p, i, c, neu)
    PROVE  Core(heap', root', Like(rank, neu, c), Like(own, neu, c), call') /\ UNCHANGED size
<1> PICK g : g = heap'
  OBVIOUS
<1> PICK rank2 : rank2 = Like(rank, neu, c)
  OBVIOUS
<1> PICK own2 : own2 = Like(own, neu, c)
  OBVIOUS
<1> PICK d : d = call'
  OBVIOUS
<1>1. /\ p \in DOMAIN heap /\ ~heap[p].leaf /\ neu \in (1..MaxNodes) \ DOMAIN heap
      /\ i \in 1..Len(heap[p].children) /\ c \in DOMAIN heap \ {p} /\ c = heap[p].children[i]
      /\ rank[c] + 1 = rank[p] /\ own[c] = own[p] /\ rank[c] \in Nat
      /\ Spare(heap, rank[p]) /\ rank[p] \in Nat /\ ~Full(heap[p])
      /\ IsFullSplit(heap, g, p, i, c, neu)
      /\ d = [tree |-> call.tree, node |-> HalfFor(g[p], i, call.key),
              key |-> call.key, value |-> call.value]
      /\ UNCHANGED <<root, size>>
  BY DEF IsDescent
<1>2. /\ call.tree \in Trees /\ call.key \in Keys /\ call.value \in Values /\ own[p] = call.tree
  <2>1. call # Idle /\ p = call.node
    BY DEF IsDescent
  <2>2. own[call.node] = call.tree
    BY <2>1, CallFacts
  <2>3. call.tree \in Trees /\ call.key \in Keys /\ call.value \in Values
    BY <2>1, CallFacts
  <2> QED BY <2>1, <2>2, <2>3
<1>3. /\ Forest(heap, root, rank, own) /\ Linked(heap, rank, own) /\ HeapType(heap)
      /\ DOMAIN rank = DOMAIN heap /\ DOMAIN own = DOMAIN heap
  BY DEF Core, Forest, Linked
<1> HIDE DEF IsDescent
<1>0. /\ p \in DOMAIN heap /\ i \in 1..Len(heap[p].children) /\ neu \in (1..MaxNodes) \ DOMAIN heap
      /\ c \in DOMAIN heap \ {p} /\ ~heap[p].leaf /\ IsFullSplit(heap, g, p, i, c, neu)
      /\ c = heap[p].children[i]
  BY <1>1
<1>4. Forest(g, root, rank2, own2)
  BY <1>0, <1>3, SplitForest
<1>5. HalvesFit(g, root, own2, c, neu)
  <2>1. FitsExcept(heap, root, own, p)
    BY <1>1 DEF Core, Occupied, FitsExcept
  <2> QED BY <1>0, <1>3, <2>1, SplitOccupied
<1>6. DOMAIN g = DOMAIN heap \union {neu} /\ neu \notin DOMAIN heap
  BY <1>1 DEF IsFullSplit, IsSplit
<1>7. rank2[neu] = rank[c] /\ rank2[c] = rank[c] /\ own2[neu] = own[c] /\ own2[c] = own[c]
  <2> PICK D : D = DOMAIN heap
    OBVIOUS
  <2>1. DOMAIN rank = D /\ DOMAIN own = D /\ c \in D /\ neu \notin D
    BY <1>0, <1>3, <1>6
  <2>2. rank2[neu] = rank[c] /\ rank2[c] = rank[c]
    BY <2>1, LikeFacts
  <2>3. own2[neu] = own[c] /\ own2[c] = own[c]
    BY <2>1, LikeFacts
  <2> QED BY <2>2, <2>3
<1>8. HalfFor(g[p], i, call.key) \in {c, neu}
  <2> PICK k : k = call.key
    OBVIOUS
  <2>1. GoesOn(heap, g, p, i, k, c, neu)
    BY <1>0, <1>3, HalfOfSplit
  <2> QED BY <2>1 DEF GoesOn
<1> PICK x : x = HalfFor(g[p], i, call.key)
  OBVIOUS
<1>9. x \in DOMAIN g /\ rank2[x] = rank[c] /\ own2[x] = own[p] /\ ~Full(g[x])
  BY <1>1, <1>5, <1>6, <1>7, <1>8 DEF HalvesFit
<1>10. Spare(g, rank[c])
  <2>1. rank[p] \in Int /\ Spare(heap, rank[p]) /\ rank[p] - 1 = rank[c]
    BY <1>1
  <2>2. Spare(g, rank[p] - 1)
    BY <1>3, <1>6, <2>1, SpareTaken
  <2> QED BY <2>1, <2>2
<1>11. d \in [tree : Trees, node : DOMAIN g, key : Keys, value : Values] /\ d.node = x /\ d.tree = own[p]
  <2>1. d = [tree |-> call.tree, node |-> x, key |-> call.key, value |-> call.value]
    BY <1>1
  <2> QED BY <1>2, <1>9, <2>1
<1>12. Pending(g, rank2, own2, d)
  BY <1>9, <1>10, <1>11 DEF Pending
<1> QED BY <1>1, <1>4, <1>5, <1>12 DEF Core, HalvesFit

\* A leaf that was not full may take one more key.
Grown(e, f, max, min) == f >= 1 /\ f <= max /\ (e >= min - 1 => f >= min - 1)
LEMMA GrownFits ==
    ASSUME NEW e \in Nat, NEW f \in Nat, NEW max \in Nat, NEW min \in Nat,
           f \in {e, e + 1}, e >= 1, e < max
    PROVE  Grown(e, f, max, min)
BY DEF Grown

\* An entry in a leaf: the value is replaced, or a key and a value are added.
LEMMA PutCore ==
    ASSUME NEW rank, NEW own, Core(heap, root, rank, own, call), PutInLeaf, size \in [Trees -> Nat]
    PROVE  Core(heap', root', rank, own, call') /\ size' \in [Trees -> Nat]
<1> PICK l : l = call.node
  OBVIOUS
<1> PICK n : n = heap[l]
  OBVIOUS
<1> PICK k : k = call.key
  OBVIOUS
<1> PICK v : v = call.value
  OBVIOUS
<1> PICK i : i = LowerBound(n.keys, k) + 1
  OBVIOUS
<1> PICK g : g = heap'
  OBVIOUS
<1>1. /\ call.tree \in Trees /\ l \in DOMAIN heap /\ k \in Keys /\ v \in Values
      /\ own[l] = call.tree /\ ~Full(n)
  BY CallFacts DEF PutInLeaf
<1>2. Forest(heap, root, rank, own) /\ Linked(heap, rank, own) /\ HeapType(heap)
  BY DEF Core, Forest, Linked
<1>3. n.leaf /\ n.children = <<>> /\ Len(n.values) = Len(n.keys) /\ IsNode(n)
  BY <1>1, <1>2 DEF PutInLeaf, Linked, HeapType
<1>4. n.keys \in Seq(Keys) /\ n.values \in Seq(Values) /\ Len(n.keys) \in Nat
  BY <1>3 DEF IsNode
<1>5. i \in 1..(Len(n.keys) + 1)
  BY <1>1, <1>4, BoundFacts
<1>6. ASSUME DOMAIN g = DOMAIN heap, IsNode(g[l]), g[l].leaf = n.leaf, g[l].children = n.children,
             Len(g[l].values) = Len(g[l].keys), Len(g[l].keys) \in {Len(n.keys), Len(n.keys) + 1},
             \A m \in DOMAIN heap \ {l} : g[m] = heap[m]
      PROVE  Core(g, root, rank, own, Idle)
  <2>1. Forest(g, root, rank, own)
    <3>1. \A m \in DOMAIN heap :
            /\ IsNode(g[m]) /\ g[m].leaf = heap[m].leaf /\ g[m].children = heap[m].children
            /\ IF heap[m].leaf THEN Len(g[m].values) = Len(g[m].keys)
                               ELSE Len(g[m].keys) = Len(heap[m].keys)
      <4> SUFFICES ASSUME NEW m \in DOMAIN heap
                   PROVE /\ IsNode(g[m]) /\ g[m].leaf = heap[m].leaf /\ g[m].children = heap[m].children
                         /\ IF heap[m].leaf THEN Len(g[m].values) = Len(g[m].keys)
                                            ELSE Len(g[m].keys) = Len(heap[m].keys)
        OBVIOUS
      <4>1. CASE m = l
        BY <1>3, <1>6, <4>1
      <4>2. CASE m # l
        <5>1. IsNode(heap[m]) /\ (heap[m].leaf => Len(heap[m].values) = Len(heap[m].keys))
          BY <1>2 DEF HeapType, Linked
        <5> QED BY <1>6, <4>2, <5>1
      <4> QED BY <4>1, <4>2
    <3> QED BY <1>2, <1>6, <3>1, SameForest
  <2>2. Occupied(g, root, own)
    <3> SUFFICES ASSUME NEW m \in DOMAIN heap PROVE Fits(g, root, own, m)
      BY <1>6 DEF Occupied
    <3>1. Fits(heap, root, own, m)
      BY DEF Core, Occupied
    <3>2. CASE m = l
      <4>1. Len(n.keys) \in Nat /\ Len(g[l].keys) \in Nat /\ MaxKeys \in Nat /\ MinDegree \in Nat
        BY <1>4, <1>6, MinDegreeAssumption DEF MaxKeys
      <4>2. Len(n.keys) >= 1 /\ Len(n.keys) < MaxKeys
        BY <1>1, <3>1, <3>2, <4>1 DEF Fits, Full
      <4>3. l # root[own[l]] => Len(n.keys) >= MinDegree - 1
        BY <3>1, <3>2 DEF Fits
      <4>4. Grown(Len(n.keys), Len(g[l].keys), MaxKeys, MinDegree)
        BY <1>6, <4>1, <4>2, GrownFits
      <4> QED BY <3>2, <4>3, <4>4 DEF Fits, Grown
    <3>3. CASE m # l
      BY <1>6, <3>1, <3>3 DEF Fits
    <3> QED BY <3>2, <3>3
  <2> QED BY <2>1, <2>2 DEF Core, Pending
<1>7. call' = Idle /\ root' = root
  BY DEF PutInLeaf
<1>8. CASE i <= Len(n.keys) /\ n.keys[i] = k
  <2>1. g = [heap EXCEPT ![l].values[i] = v] /\ size' = size
    BY <1>8 DEF PutInLeaf, Overwrite
  <2>2. DOMAIN g = DOMAIN heap /\ \A m \in DOMAIN heap \ {l} : g[m] = heap[m]
    BY <2>1
  <2>3. g[l] = [n EXCEPT !.values = [n.values EXCEPT ![i] = v]]
    BY <1>1, <2>1
  <2> PICK w : w = [n.values EXCEPT ![i] = v]
    OBVIOUS
  <2>4. w \in Seq(Values) /\ Len(w) = Len(n.values)
    <3>1. i \in 1..Len(n.values)
      BY <1>3, <1>4, <1>5, <1>8
    <3> QED BY <1>1, <1>4, <3>1, ExceptSeq
  <2>5. /\ IsNode(g[l]) /\ g[l].leaf = n.leaf /\ g[l].children = n.children
        /\ g[l].values = w /\ g[l].keys = n.keys
    BY <1>3, <2>3, <2>4 DEF IsNode
  <2>6. Core(g, root, rank, own, Idle)
    BY <1>3, <1>6, <2>2, <2>4, <2>5
  <2> QED BY <1>7, <2>1, <2>6
<1>9. CASE ~(i <= Len(n.keys) /\ n.keys[i] = k)
  <2> PICK ks : ks = InsertAt(n.keys, i, k)
    OBVIOUS
  <2> PICK vs : vs = InsertAt(n.values, i, v)
    OBVIOUS
  <2>1. /\ g = [heap EXCEPT ![l].keys = InsertAt(@, i, k), ![l].values = InsertAt(@, i, v)]
        /\ size' = [size EXCEPT ![call.tree] = @ + 1]
    BY <1>9 DEF PutInLeaf, AddEntry
  <2>2. DOMAIN g = DOMAIN heap /\ \A m \in DOMAIN heap \ {l} : g[m] = heap[m]
    BY <2>1
  <2>3. g[l] = [n EXCEPT !.keys = ks, !.values = vs]
    BY <1>1, <1>3, <2>1 DEF IsNode
  <2>4. IsInserted(ks, n.keys, i, k, Keys) /\ IsInserted(vs, n.values, i, v, Values)
    <3>1. i \in 1..(Len(n.values) + 1)
      BY <1>3, <1>5
    <3> QED BY <1>1, <1>4, <1>5, <3>1, IsInsertedFacts
  <2>5. /\ IsNode(g[l]) /\ g[l].leaf = n.leaf /\ g[l].children = n.children
        /\ g[l].values = vs /\ g[l].keys = ks
    BY <1>3, <2>3, <2>4, ZenonT(40) DEF IsNode, IsInserted
  <2>6. Core(g, root, rank, own, Idle)
    BY <1>3, <1>6, <2>2, <2>4, <2>5 DEF IsInserted
  <2>7. size' \in [Trees -> Nat]
    BY <1>1, <2>1
  <2> QED BY <1>7, <2>6, <2>7
<1> QED BY <1>8, <1>9

\* Without a tree, and with the nodes of one tree in the hands of another one, the other
\* nodes are as they were.
LEMMA RemoveOccupied ==
    ASSUME NEW h, NEW r, NEW rank, NEW own, Forest(h, r, rank, own), Occupied(h, r, own),
           NEW t \in Trees, NEW D \in SUBSET DOMAIN h, \A n \in DOMAIN h : n \in D <=> own[n] # t
    PROVE  Occupied(Part(h, D), [r EXCEPT ![t] = Nil], Part(own, D))
<1> PICK g : g = Part(h, D)
  OBVIOUS
<1> PICK r2 : r2 = [r EXCEPT ![t] = Nil]
  OBVIOUS
<1> PICK own2 : own2 = Part(own, D)
  OBVIOUS
<1>1. DOMAIN g = D /\ \A n \in D : g[n] = h[n] /\ own2[n] = own[n]
  BY DEF Part
<1>2. r \in [Trees -> DOMAIN h \union {Nil}] /\ own \in [DOMAIN h -> Trees]
  BY DEF Forest, Linked, Rooted
<1>3. ASSUME NEW n \in D PROVE Fits(g, r2, own2, n)
  <2>1. n \in DOMAIN h /\ own[n] \in Trees /\ own[n] # t
    BY <1>2
  <2>2. r2[own[n]] = r[own[n]]
    BY <1>2, <2>1
  <2>3. Fits(h, r, own, n)
    BY <2>1 DEF Occupied
  <2> QED BY <1>1, <2>2, <2>3 DEF Fits
<1> QED BY <1>1, <1>3 DEF Occupied

\* Nodes that change hands keep their number of keys.
LEMMA HandOccupied ==
    ASSUME NEW h, NEW r, NEW rank, NEW own, Forest(h, r, rank, own), Occupied(h, r, own),
           NEW t \in Trees, NEW from \in Trees, t # from, r[t] = Nil,
           NEW r2, RootHanded(r2, r, t, from)
    PROVE  Occupied(h, r2, Handed(own, t, from))
<1> PICK own2 : own2 = Handed(own, t, from)
  OBVIOUS
<1>1. r \in [Trees -> DOMAIN h \union {Nil}] /\ own \in [DOMAIN h -> Trees]
  BY DEF Forest, Linked, Rooted
<1>2. \A n \in DOMAIN h : own2[n] = IF own[n] = from THEN t ELSE own[n]
  BY <1>1 DEF Handed
<1>3. \A n \in DOMAIN h : own[n] # t
  BY SubtreeOwned
<1>4. ASSUME NEW n \in DOMAIN h PROVE Fits(h, r2, own2, n)
  <2>1. r2[own2[n]] = r[own[n]]
    BY <1>1, <1>2, <1>3 DEF RootHanded
  <2>2. Fits(h, r, own, n)
    BY DEF Occupied
  <2> QED BY <2>1, <2>2 DEF Fits
<1> QED BY <1>4 DEF Occupied

\* A copy of a node has as many keys.
LEMMA CloneOccupied ==
    ASSUME NEW h, NEW r, NEW rank, NEW own, Forest(h, r, rank, own), Occupied(h, r, own),
           NEW t \in Trees, NEW from \in Trees, t # from, r[t] = Nil,
           NEW g, NEW S, NEW F, NEW f, NEW s,
           \A n \in DOMAIN h : n \in S <=> own[n] = from, IsClone(h, g, S, F, f, s),
           NEW r2, RootCopied(r2, r, t, from, f)
    PROVE  Occupied(g, r2, CopyOwner(own, F, t))
<1> PICK own2 : own2 = CopyOwner(own, F, t)
  OBVIOUS
<1>1. /\ r \in [Trees -> DOMAIN h \union {Nil}] /\ own \in [DOMAIN h -> Trees] /\ Nil \notin DOMAIN h
      /\ \A u \in Trees : r[u] # Nil => own[r[u]] = u
  BY HeapFinite DEF Forest, Linked, Rooted
<1>2. /\ \A m \in F : m \notin DOMAIN h /\ s[m] \in S /\ f[s[m]] = m /\ g[m].keys = h[s[m]].keys
      /\ \A n \in S : n \in DOMAIN h
      /\ DOMAIN g = DOMAIN h \union F
      /\ \A n \in DOMAIN h : g[n] = h[n] /\ n \notin F
  BY DEF IsClone
<1>3. /\ \A n \in DOMAIN h : own2[n] = own[n] /\ own[n] \in Trees
      /\ \A m \in F : own2[m] = t
  BY <1>1, <1>2 DEF CopyOwner
<1>4. \A n \in DOMAIN h : own[n] # t
  BY SubtreeOwned
<1>5. ASSUME NEW n \in DOMAIN h PROVE Fits(g, r2, own2, n)
  <2>1. r2[own[n]] = r[own[n]]
    BY <1>1, <1>3, <1>4 DEF RootCopied
  <2>2. Fits(h, r, own, n)
    BY DEF Occupied
  <2> QED BY <1>2, <1>3, <2>1, <2>2 DEF Fits
<1>6. ASSUME NEW m \in F PROVE Fits(g, r2, own2, m)
  <2>1. s[m] \in DOMAIN h /\ s[m] \in S /\ own[s[m]] = from
    BY <1>2
  <2>2. Fits(h, r, own, s[m])
    BY <2>1 DEF Occupied
  <2>3. s[m] = r[from] => m = r2[t]
    <3>1. r2[t] = IF r[from] = Nil THEN Nil ELSE f[r[from]]
      BY <1>1 DEF RootCopied
    <3> QED BY <1>1, <1>2, <2>1, <3>1
  <2> QED BY <1>2, <1>3, <2>1, <2>2, <2>3 DEF Fits
<1> QED BY <1>2, <1>5, <1>6 DEF Occupied

\* The n-th element of one sequence goes with the n-th of another one.
IsPairing(S, F, f, s) ==
    /\ f \in [S -> F] /\ s \in [F -> S]
    /\ \A n \in S : s[f[n]] = n
    /\ \A m \in F : f[s[m]] = m
Paired(f, old, ids) == f = [n \in ToSet(old) |-> ids[CHOOSE i \in DOMAIN old : old[i] = n]]
Inverted(s, f, F) == s = [m \in F |-> CHOOSE n \in DOMAIN f : f[n] = m]
Distinct(s) == \A i, j \in DOMAIN s : s[i] = s[j] => i = j

\* Two sequences of one length without repetition pair their elements.
LEMMA PairingFacts ==
    ASSUME NEW S, NEW old, NEW ids, ToSet(old) = S, DOMAIN old = DOMAIN ids,
           Distinct(old), Distinct(ids),
           NEW F, F = ToSet(ids), NEW f, Paired(f, old, ids), NEW s, Inverted(s, f, F)
    PROVE  IsPairing(S, F, f, s)
<1>1. /\ \A n \in S : \E i \in DOMAIN old : old[i] = n
      /\ \A m \in F : \E i \in DOMAIN old : ids[i] = m
      /\ \A i \in DOMAIN old : old[i] \in S /\ ids[i] \in F
  BY DEF ToSet
<1>2. ASSUME NEW i \in DOMAIN old PROVE f[old[i]] = ids[i]
  <2> PICK j : j = CHOOSE k \in DOMAIN old : old[k] = old[i]
    OBVIOUS
  <2>1. j \in DOMAIN old /\ old[j] = old[i]
    OBVIOUS
  <2>2. j = i
    BY <2>1 DEF Distinct
  <2> QED BY <1>1, <2>2 DEF Paired
<1>3. DOMAIN f = S /\ \A n \in S : f[n] \in F
  <2>1. DOMAIN f = S
    BY DEF Paired
  <2> QED BY <1>1, <1>2, <2>1
<1>4. f \in [S -> F]
  BY <1>3 DEF Paired
<1>5. ASSUME NEW m \in F PROVE s[m] \in S /\ f[s[m]] = m
  <2>1. \E n \in DOMAIN f : f[n] = m
    BY <1>1, <1>2, <1>3
  <2>2. s[m] = CHOOSE n \in DOMAIN f : f[n] = m
    BY DEF Inverted
  <2> QED BY <1>3, <2>1, <2>2
<1>6. s \in [F -> S]
  BY <1>5 DEF Inverted
<1>7. ASSUME NEW n \in S PROVE s[f[n]] = n
  <2> PICK i \in DOMAIN old : old[i] = n
    BY <1>1
  <2>1. f[n] = ids[i] /\ f[n] \in F
    BY <1>2, <1>3
  <2>2. s[f[n]] \in S /\ f[s[f[n]]] = ids[i]
    BY <1>5, <2>1
  <2> PICK j \in DOMAIN old : old[j] = s[f[n]]
    BY <1>1, <2>2
  <2>3. ids[j] = ids[i]
    BY <1>2, <2>2
  <2> QED BY <2>3 DEF Distinct
<1> QED BY <1>4, <1>5, <1>6, <1>7 DEF IsPairing

\* What is left of the heap without tree t.
IsRest(own, t, D) ==
    /\ D \in SUBSET DOMAIN heap /\ \A n \in DOMAIN heap : n \in D <=> own[n] # t
    /\ Without(heap, t) = Part(heap, D)

\* The nodes that stay when a tree is destroyed.
LEMMA RestFacts ==
    ASSUME NEW rank, NEW own, Forest(heap, root, rank, own), NEW t \in Trees
    PROVE  \E D : IsRest(own, t, D)
<1> PICK D : D = DOMAIN heap \ Subtree(heap, root[t])
  OBVIOUS
<1>1. Subtree(heap, root[t]) = {n \in DOMAIN heap : own[n] = t}
  BY SubtreeOwned
<1>2. Without(heap, t) = Part(heap, D)
  BY DEF Without, Part
<1> QED BY <1>1, <1>2 DEF IsRest

\* A forest with nodes of the right sizes.
Held(h, r, rank, own) == Forest(h, r, rank, own) /\ Occupied(h, r, own)

\* What stays when a tree is destroyed is in order.
LEMMA RemoveHeld ==
    ASSUME NEW rank, NEW own, Held(heap, root, rank, own), NEW t \in Trees, NEW D, IsRest(own, t, D)
    PROVE  Held(Part(heap, D), [root EXCEPT ![t] = Nil], Part(rank, D), Part(own, D))
<1>1. D \in SUBSET DOMAIN heap /\ \A n \in DOMAIN heap : n \in D <=> own[n] # t
  BY DEF IsRest
<1>2. Forest(heap, root, rank, own) /\ Occupied(heap, root, own)
  BY DEF Held
<1>3. Forest(Part(heap, D), [root EXCEPT ![t] = Nil], Part(rank, D), Part(own, D))
  BY <1>1, <1>2, RemoveForest
<1>4. Occupied(Part(heap, D), [root EXCEPT ![t] = Nil], Part(own, D))
  BY <1>1, <1>2, RemoveOccupied
<1> QED BY <1>3, <1>4 DEF Held

\* Clear keeps the invariant.
LEMMA ClearCore ==
    ASSUME NEW rank, NEW own, Core(heap, root, rank, own, call), NEW t \in Trees, Clear(t),
           NEW D, IsRest(own, t, D)
    PROVE  Core(heap', root', Part(rank, D), Part(own, D), call')
<1>1. Held(heap, root, rank, own)
  BY DEF Core, Held
<1>2. heap' = Part(heap, D) /\ root' = [root EXCEPT ![t] = Nil] /\ call' = Idle
  BY DEF Clear, IsRest
<1>3. Held(heap', root', Part(rank, D), Part(own, D))
  BY <1>1, <1>2, RemoveHeld
<1> QED BY <1>2, <1>3 DEF Held, Core, Pending

\* Move keeps the invariant.
LEMMA MoveCore ==
    ASSUME NEW rank, NEW own, Core(heap, root, rank, own, call),
           NEW t \in Trees, NEW from \in Trees, Move(t, from), NEW D, IsRest(own, t, D)
    PROVE  Core(heap', root', Part(rank, D), Handed(Part(own, D), t, from), call')
<1> PICK h : h = Part(heap, D)
  OBVIOUS
<1> PICK r1 : r1 = [root EXCEPT ![t] = Nil]
  OBVIOUS
<1> PICK rank1 : rank1 = Part(rank, D)
  OBVIOUS
<1> PICK own1 : own1 = Part(own, D)
  OBVIOUS
<1> PICK r2 : RootHanded(r2, r1, t, from)
  BY DEF RootHanded
<1>1. Held(heap, root, rank, own) /\ root \in [Trees -> DOMAIN heap \union {Nil}]
  BY DEF Core, Held, Forest, Rooted
<1>2. heap' = h /\ root' = r2 /\ call' = Idle /\ t # from
  <2>1. heap' = h /\ call' = Idle /\ t # from
    BY DEF Move, IsRest
  <2>2. root' = [root EXCEPT ![t] = root[from], ![from] = Nil]
    BY DEF Move
  <2>3. r1[from] = root[from] /\ r1 \in [Trees -> DOMAIN heap \union {Nil}]
    BY <1>1, <2>1
  <2>4. r2 = [root EXCEPT ![t] = root[from], ![from] = Nil]
    BY <1>1, <2>1, <2>3 DEF RootHanded
  <2> QED BY <2>1, <2>2, <2>4
<1>3. Held(h, r1, rank1, own1)
  BY <1>1, RemoveHeld
<1>4. Forest(h, r1, rank1, own1) /\ Occupied(h, r1, own1) /\ r1[t] = Nil
  BY <1>1, <1>3 DEF Held
<1>5. Forest(h, r2, rank1, Handed(own1, t, from))
  BY <1>2, <1>4, HandForest
<1>6. Occupied(h, r2, Handed(own1, t, from))
  BY <1>2, <1>4, HandOccupied
<1> QED BY <1>2, <1>5, <1>6 DEF Core, Pending

\* The copy of a tree: the nodes S of tree from are copied to the free nodes F.
IsCopy(own, t, from, D, S, F, f, s) ==
    /\ t # from /\ \A n \in D : n \in S <=> own[n] = from
    /\ IsClone(Part(heap, D), heap', S, F, f, s)
    /\ \A m \in F : heap'[m] = CloneNode(from, s[m], f)
    /\ RootCopied(root', [root EXCEPT ![t] = Nil], t, from, f)
    /\ call' = Idle

\* A copied node has the members of the node it is a copy of.
IsNodeCopy(c, a, f) ==
    /\ IsNode(c) /\ c.leaf = a.leaf /\ c.keys = a.keys /\ (a.leaf => c.values = a.values)
    /\ Len(c.children) = Len(a.children)
    /\ \A i \in 1..Len(a.children) : c.children[i] = f[a.children[i]]

IsMapped(w, s, f, B) ==
    w \in Seq(B) /\ Len(w) = Len(s) /\ \A i \in 1..Len(s) : w[i] = f[s[i]]

\* A function applied to the elements of a sequence.
LEMMA MappedSeq ==
    ASSUME NEW A, NEW B, NEW s \in Seq(A), NEW f, \A i \in 1..Len(s) : f[s[i]] \in B
    PROVE  IsMapped([i \in DOMAIN s |-> f[s[i]]], s, f, B)
<1> PICK e \in Nat : e = Len(s)
  BY LenProperties
<1>1. DOMAIN s = 1..e
  BY LenProperties
<1> PICK w : w = [i \in 1..e |-> f[s[i]]]
  OBVIOUS
<1>2. w \in [1..e -> B]
  OBVIOUS
<1>3. w \in Seq(B)
  BY <1>2, IsASeq
<1>4. Len(w) = e
  BY <1>2, <1>3, LenProperties
<1> QED BY <1>1, <1>3, <1>4 DEF IsMapped

\* What clone_node returns.
LEMMA CloneNodeFacts ==
    ASSUME NEW from, NEW n, NEW a, a = heap[n], IsNode(a), NEW F, F \subseteq 1..MaxNodes, NEW f,
           \A i \in 1..Len(a.children) : f[a.children[i]] \in F, a.leaf => a.children = <<>>,
           NEW c, c = CloneNode(from, n, f)
    PROVE  IsNodeCopy(c, a, f)
<1>1. a.keys \in Seq(Keys) /\ a.values \in Seq(Values) /\ a.children \in Seq(1..MaxNodes) /\ a.leaf \in BOOLEAN
  BY DEF IsNode
<1>2. CASE a.leaf
  <2> PICK next : next = NextCopied(from, n, f)
    OBVIOUS
  <2>1. c = Leaf(a.keys, a.values, next)
    BY <1>2 DEF CloneNode
  <2>2. IsNode(c)
    BY <1>1, <2>1, LeafIsNode
  <2>3. c.leaf = TRUE /\ c.keys = a.keys /\ c.values = a.values /\ c.children = <<>>
    BY <2>1 DEF Leaf
  <2>4. a.children = <<>> /\ Len(<<>>) = 0
    BY <1>2
  <2>5. Len(c.children) = 0 /\ Len(a.children) = 0
    BY <2>3, <2>4
  <2>6. \A i \in 1..Len(a.children) : c.children[i] = f[a.children[i]]
    BY <2>5
  <2> QED BY <1>2, <2>2, <2>3, <2>5, <2>6 DEF IsNodeCopy
<1>3. CASE ~a.leaf
  <2> PICK b : b = a.children
    OBVIOUS
  <2> PICK w : w = [i \in DOMAIN b |-> f[b[i]]]
    OBVIOUS
  <2>1. c = Inner(a.keys, w)
    BY <1>3 DEF CloneNode
  <2>2. \A i \in 1..Len(a.children) : f[a.children[i]] \in 1..MaxNodes
    OBVIOUS
  <2>3. /\ w \in Seq(1..MaxNodes) /\ Len(w) = Len(a.children)
        /\ \A i \in 1..Len(a.children) : w[i] = f[a.children[i]]
    <3>1. b \in Seq(1..MaxNodes) /\ \A i \in 1..Len(b) : f[b[i]] \in 1..MaxNodes
      BY <1>1, <2>2
    <3>2. IsMapped([i \in DOMAIN b |-> f[b[i]]], b, f, 1..MaxNodes)
      BY <3>1, MappedSeq
    <3> QED BY <3>2 DEF IsMapped
  <2>4. IsNode(c)
    BY <1>1, <2>1, <2>3, InnerIsNode
  <2>5. c.leaf = FALSE /\ c.keys = a.keys /\ c.children = w
    BY <2>1 DEF Inner
  <2>6. c.leaf = a.leaf
    BY <1>1, <1>3, <2>5
  <2> QED BY <1>3, <2>3, <2>4, <2>5, <2>6 DEF IsNodeCopy
<1> QED BY <1>2, <1>3

\* What Copy does: each node of the source has one copy.
LEMMA CopyFacts ==
    ASSUME NEW rank, NEW own, Held(heap, root, rank, own),
           NEW t \in Trees, NEW from \in Trees, Copy(t, from), NEW D, IsRest(own, t, D)
    PROVE  \E S, F, f, s : IsCopy(own, t, from, D, S, F, f, s)
<1> PICK S : S = Subtree(heap, root[from])
  OBVIOUS
<1> PICK old : old = Ascending(S)
  OBVIOUS
<1> PICK k : k = Len(old)
  OBVIOUS
<1> PICK ids : ids = FreeNodes(heap, k)
  OBVIOUS
<1> PICK F : F = ToSet(ids)
  OBVIOUS
<1> PICK f : Paired(f, old, ids)
  BY DEF Paired
<1> PICK s : Inverted(s, f, F)
  BY DEF Inverted
<1> PICK g : g = heap'
  OBVIOUS
<1> PICK h : h = Part(heap, D)
  OBVIOUS
<1>1. /\ Forest(heap, root, rank, own) /\ Linked(heap, rank, own) /\ HeapType(heap)
      /\ DOMAIN heap \subseteq 1..MaxNodes /\ IsFiniteSet(DOMAIN heap)
      /\ root \in [Trees -> DOMAIN heap \union {Nil}]
  <2>1. Forest(heap, root, rank, own) /\ HeapType(heap)
    BY DEF Held, Forest, Linked
  <2> QED BY <2>1, HeapFinite DEF Forest, Linked, HeapType, Rooted
<1>2. D \in SUBSET DOMAIN heap /\ (\A n \in DOMAIN heap : n \in D <=> own[n] # t) /\ Without(heap, t) = h
  BY DEF IsRest
<1>3. S = {n \in DOMAIN heap : own[n] = from}
  BY <1>1, SubtreeOwned
<1>4. t # from /\ Room(k) /\ call' = Idle
  BY DEF Copy
<1>5. S \subseteq D /\ S \subseteq DOMAIN heap /\ \A n \in D : n \in S <=> own[n] = from
  BY <1>2, <1>3, <1>4
<1>6. IsFiniteSet(S) /\ S \in SUBSET Int
  <2>1. IsFiniteSet(S)
    BY <1>1, <1>5, FS_Subset
  <2>2. 1..MaxNodes \subseteq Int
    OBVIOUS
  <2> QED BY <1>1, <1>5, <2>1, <2>2
<1>7. /\ old \in Seq(S) /\ k = Cardinality(S) /\ k \in Nat /\ DOMAIN old = 1..k
      /\ Distinct(old) /\ ToSet(old) = S
  <2>1. k = Cardinality(S) /\ k \in Nat /\ old \in Seq(S)
    BY <1>6, AscendingFacts, FS_CardinalityType
  <2>2. DOMAIN old = 1..k /\ \A i \in 1..k : old[i] \in S
    <3> HIDE DEF Ascending
    <3>1. \A s1 \in Seq(S) : DOMAIN s1 = 1..Len(s1) /\ \A i \in 1..Len(s1) : s1[i] \in S
      BY LenProperties, ElementOfSeq
    <3>2. old \in Seq(S) /\ k = Len(old)
      BY <2>1
    <3> QED BY <3>1, <3>2
  <2>3. /\ \A i, j \in 1..k : i < j => old[i] < old[j]
        /\ \A x \in S : \E i \in 1..k : old[i] = x
    BY <1>6, <2>1, AscendingFacts
  <2>4. ASSUME NEW i \in 1..k, NEW j \in 1..k, old[i] = old[j] PROVE i = j
    <3>1. old[i] \in Int /\ old[j] \in Int
      BY <1>6, <2>2
    <3>2. ~(i < j) /\ ~(j < i)
      BY <2>3, <2>4, <3>1
    <3> QED BY <3>2
  <2>5. Distinct(old)
    BY <2>2, <2>4 DEF Distinct
  <2>6. ToSet(old) = S
    BY <2>2, <2>3 DEF ToSet
  <2> QED BY <2>1, <2>2, <2>5, <2>6
<1>8. DOMAIN ids = 1..k /\ Distinct(ids) /\ F \subseteq (1..MaxNodes) \ DOMAIN heap
  <2>1. AreFree(ids, heap, k)
    BY <1>1, <1>4, <1>7, FreeFacts DEF Room
  <2> PICK T : T = (1..MaxNodes) \ DOMAIN heap
    OBVIOUS
  <2>2. ids \in Seq(T) /\ Len(ids) = k /\ \A i, j \in 1..k : ids[i] = ids[j] => i = j
    BY <2>1 DEF AreFree
  <2>3. DOMAIN ids = 1..k /\ \A i \in 1..k : ids[i] \in T
    BY <1>7, <2>2, ElementOfSeq
  <2> QED BY <2>2, <2>3 DEF Distinct, ToSet
<1>9. IsPairing(S, F, f, s)
  BY <1>7, <1>8, PairingFacts
<1>10. f \in [S -> F] /\ s \in [F -> S] /\ (\A n \in S : s[f[n]] = n) /\ \A m \in F : f[s[m]] = m
  BY <1>9 DEF IsPairing
<1> PICK copies : copies = [m \in F |-> CloneNode(from, s[m], f)]
  OBVIOUS
<1>11. g = Updated(h, copies)
  <2>1. f = [n \in ToSet(old) |-> ids[CHOOSE i \in DOMAIN old : old[i] = n]]
    BY DEF Paired
  <2>2. g = Updated(h, [m \in F |-> CloneNode(from, CHOOSE n \in DOMAIN f : f[n] = m, f)])
    BY <1>2, <2>1 DEF Copy
  <2>3. copies = [m \in F |-> CloneNode(from, CHOOSE n \in DOMAIN f : f[n] = m, f)]
    BY DEF Inverted
  <2> QED BY <2>2, <2>3
<1>12. DOMAIN h = D /\ \A n \in D : h[n] = heap[n]
  BY DEF Part
<1>13. /\ DOMAIN g = D \union F /\ \A n \in D : g[n] = h[n] /\ n \notin F
       /\ \A m \in F : g[m] = CloneNode(from, s[m], f)
  BY <1>2, <1>8, <1>11, <1>12 DEF Updated
<1>14. ASSUME NEW m \in F
       PROVE  /\ IsNode(g[m]) /\ g[m].leaf = heap[s[m]].leaf /\ g[m].keys = heap[s[m]].keys
              /\ heap[s[m]].leaf => g[m].values = heap[s[m]].values
              /\ Len(g[m].children) = Len(heap[s[m]].children)
              /\ \A i \in 1..Len(heap[s[m]].children) : g[m].children[i] = f[heap[s[m]].children[i]]
  <2> PICK n : n = s[m]
    OBVIOUS
  <2>1. n \in DOMAIN heap /\ own[n] = from /\ IsNode(heap[n]) /\ F \subseteq 1..MaxNodes
    BY <1>1, <1>3, <1>8, <1>10 DEF HeapType
  <2>2. heap[n].leaf => heap[n].children = <<>>
    BY <1>1, <2>1 DEF Linked
  <2>3. \A i \in 1..Len(heap[n].children) : f[heap[n].children[i]] \in F
    <3>1. \A i \in 1..Len(heap[n].children) :
            heap[n].children[i] \in DOMAIN heap /\ own[heap[n].children[i]] = own[n]
      BY <1>1, <2>1 DEF Linked
    <3>2. \A i \in 1..Len(heap[n].children) : heap[n].children[i] \in S
      BY <1>3, <2>1, <3>1
    <3> QED BY <1>10, <3>2
  <2>4. g[m] = CloneNode(from, n, f)
    BY <1>13
  <2>5. IsNodeCopy(g[m], heap[n], f)
    BY <2>1, <2>2, <2>3, <2>4, CloneNodeFacts
  <2> QED BY <2>5 DEF IsNodeCopy
<1>15. IsClone(h, g, S, F, f, s)
  BY <1>5, <1>8, <1>10, <1>12, <1>13, <1>14 DEF IsClone
<1>16. RootCopied(root', [root EXCEPT ![t] = Nil], t, from, f)
  <2> PICK r1 : r1 = [root EXCEPT ![t] = Nil]
    OBVIOUS
  <2>1. root' = [root EXCEPT ![t] = IF root[from] = Nil THEN Nil ELSE f[root[from]]]
    BY DEF Copy, Paired
  <2>2. r1[from] = root[from] /\ r1 \in [Trees -> DOMAIN heap \union {Nil}]
    BY <1>1, <1>4
  <2>3. root' = [r1 EXCEPT ![t] = IF r1[from] = Nil THEN Nil ELSE f[r1[from]]]
    BY <1>1, <2>1, <2>2
  <2> QED BY <2>3 DEF RootCopied
<1>17. IsCopy(own, t, from, D, S, F, f, s)
  BY <1>4, <1>5, <1>13, <1>15, <1>16 DEF IsCopy
<1> QED BY <1>17

\* Copy keeps the invariant.
LEMMA CopyCore ==
    ASSUME NEW rank, NEW own, Core(heap, root, rank, own, call),
           NEW t \in Trees, NEW from \in Trees, NEW D, IsRest(own, t, D),
           NEW S, NEW F, NEW f, NEW s, IsCopy(own, t, from, D, S, F, f, s)
    PROVE  Core(heap', root', CopyRank(Part(rank, D), F, s), CopyOwner(Part(own, D), F, t), call')
<1> PICK h : h = Part(heap, D)
  OBVIOUS
<1> PICK r1 : r1 = [root EXCEPT ![t] = Nil]
  OBVIOUS
<1> PICK rank1 : rank1 = Part(rank, D)
  OBVIOUS
<1> PICK own1 : own1 = Part(own, D)
  OBVIOUS
<1> PICK g : g = heap'
  OBVIOUS
<1>1. Held(heap, root, rank, own) /\ root \in [Trees -> DOMAIN heap \union {Nil}]
  BY DEF Core, Held, Forest, Rooted
<1>2. Held(h, r1, rank1, own1)
  BY <1>1, RemoveHeld
<1>3. Forest(h, r1, rank1, own1) /\ Occupied(h, r1, own1) /\ r1[t] = Nil
  BY <1>1, <1>2 DEF Held
<1>4. /\ t # from /\ IsClone(h, g, S, F, f, s) /\ RootCopied(root', r1, t, from, f) /\ call' = Idle
      /\ \A n \in D : n \in S <=> own[n] = from
  BY DEF IsCopy
<1>5. \A n \in DOMAIN h : n \in S <=> own1[n] = from
  BY <1>4 DEF Part
<1> PICK r2 : r2 = root'
  OBVIOUS
<1>6. Forest(g, r2, CopyRank(rank1, F, s), CopyOwner(own1, F, t))
  BY <1>3, <1>4, <1>5, CloneForest
<1>7. Occupied(g, r2, CopyOwner(own1, F, t))
  BY <1>3, <1>4, <1>5, CloneOccupied
<1> QED BY <1>4, <1>6, <1>7 DEF Core, Pending

-----------------------------------------------------------------------------
(* The invariant                                                           *)

IInv ==
    /\ size \in [Trees -> Nat]
    /\ \E rank, own : Core(heap, root, rank, own, call)

\* The invariant holds at first.
LEMMA InitInv ==
    ASSUME Init
    PROVE  IInv
<1> PICK z : z = NoNodes
  OBVIOUS
<1>1. heap = z /\ root = [t \in Trees |-> Nil] /\ size = [t \in Trees |-> 0] /\ call = Idle
  BY DEF Init
<1>2. DOMAIN z = {} /\ z \in [{} -> Nat] /\ z \in [{} -> Trees]
  BY DEF NoNodes
<1>3. Linked(heap, z, z)
  BY <1>1, <1>2 DEF Linked, HeapType
<1>4. Rooted(heap, root, z)
  BY <1>1, <1>2 DEF Rooted
<1>5. Core(heap, root, z, z, call)
  BY <1>1, <1>2, <1>3, <1>4 DEF Core, Forest, Occupied, Pending
<1>6. size \in [Trees -> Nat]
  BY <1>1
<1> QED BY <1>5, <1>6 DEF IInv

\* Every step keeps the invariant.
LEMMA NextInv ==
    ASSUME IInv, [Next]_vars
    PROVE  IInv'
<1> PICK rank, own : Core(heap, root, rank, own, call)
  BY DEF IInv
<1>1. size \in [Trees -> Nat] /\ Forest(heap, root, rank, own) /\ Held(heap, root, rank, own)
  BY DEF IInv, Core, Held
<1>2. ASSUME size' \in [Trees -> Nat], NEW rank2, NEW own2, Core(heap', root', rank2, own2, call')
      PROVE  IInv'
  BY <1>2 DEF IInv
<1>3. ASSUME NEW t \in Trees, NEW k \in Keys, NEW v \in Values, InsertFirst(t, k, v) PROVE IInv'
  <2> PICK l : l = FreeNodes(heap, 1)[1]
    OBVIOUS
  <2>1. Core(heap', root', With(rank, l, 0), With(own, l, t), call')
    BY <1>3, InsertFirstCore
  <2>2. size' \in [Trees -> Nat]
    BY <1>1, <1>3 DEF InsertFirst
  <2> QED BY <1>2, <2>1, <2>2
<1>4. ASSUME NEW t \in Trees, NEW k \in Keys, NEW v \in Values, Insert(t, k, v) PROVE IInv'
  <2>1. size' \in [Trees -> Nat]
    BY <1>1, <1>4 DEF Insert
  <2>2. CASE Full(heap[root[t]])
    <3> PICK p : p = FreeNodes(heap, 2)[1]
      OBVIOUS
    <3> PICK neu : neu = FreeNodes(heap, 2)[2]
      OBVIOUS
    <3>1. Core(heap', root', Like(RaisedRank(rank, t, p), neu, root[t]),
               Like(With(own, p, t), neu, root[t]), call')
      BY <1>4, <2>2, InsertSplitCore
    <3> QED BY <1>2, <2>1, <3>1
  <2>3. CASE ~Full(heap[root[t]])
    <3>1. Core(heap, root, rank, own, call')
      BY <1>4, <2>3, InsertCore
    <3>2. heap' = heap /\ root' = root
      BY <1>4, <2>3 DEF Insert
    <3>3. Core(heap', root', rank, own, call')
      BY <3>1, <3>2
    <3> QED BY <1>2, <2>1, <3>3
  <2> QED BY <2>2, <2>3
<1>5. ASSUME Descend PROVE IInv'
  <2> PICK p : p = call.node
    OBVIOUS
  <2> PICK i : i = UpperBound(heap[p].keys, call.key) + 1
    OBVIOUS
  <2> PICK c : c = heap[p].children[i]
    OBVIOUS
  <2> PICK neu : neu = FreeNodes(heap, 1)[1]
    OBVIOUS
  <2>1. size' \in [Trees -> Nat]
    BY <1>1, <1>5 DEF Descend
  <2>2. CASE Full(heap[c])
    <3>1. IsDescent(rank, own, p, i, c, neu)
      BY <1>5, <2>2, DescendSplitFacts
    <3>2. Core(heap', root', Like(rank, neu, c), Like(own, neu, c), call')
      BY <3>1, DescendSplitCore
    <3> QED BY <1>2, <2>1, <3>2
  <2>3. CASE ~Full(heap[c])
    <3>1. Core(heap, root, rank, own, call') /\ heap' = heap /\ root' = root
      BY <1>5, <2>3, DescendCore
    <3>2. Core(heap', root', rank, own, call')
      BY <3>1
    <3> QED BY <1>2, <2>1, <3>2
  <2> QED BY <2>2, <2>3
<1>6. ASSUME PutInLeaf PROVE IInv'
  <2>1. Core(heap', root', rank, own, call') /\ size' \in [Trees -> Nat]
    BY <1>1, <1>6, PutCore
  <2> QED BY <1>2, <2>1
<1>7. ASSUME NEW t \in Trees, Clear(t) PROVE IInv'
  <2> PICK D : IsRest(own, t, D)
    BY <1>1, RestFacts
  <2>1. Core(heap', root', Part(rank, D), Part(own, D), call')
    BY <1>7, ClearCore
  <2>2. size' \in [Trees -> Nat]
    BY <1>1, <1>7 DEF Clear
  <2> QED BY <1>2, <2>1, <2>2
<1>8. ASSUME NEW t \in Trees, NEW from \in Trees, Copy(t, from) PROVE IInv'
  <2> PICK D : IsRest(own, t, D)
    BY <1>1, RestFacts
  <2> PICK S, F, f, s : IsCopy(own, t, from, D, S, F, f, s)
    BY <1>1, <1>8, CopyFacts
  <2>1. Core(heap', root', CopyRank(Part(rank, D), F, s), CopyOwner(Part(own, D), F, t), call')
    BY CopyCore
  <2>2. size' \in [Trees -> Nat]
    BY <1>1, <1>8 DEF Copy
  <2> QED BY <1>2, <2>1, <2>2
<1>9. ASSUME NEW t \in Trees, NEW from \in Trees, Move(t, from) PROVE IInv'
  <2> PICK D : IsRest(own, t, D)
    BY <1>1, RestFacts
  <2>1. Core(heap', root', Part(rank, D), Handed(Part(own, D), t, from), call')
    BY <1>9, MoveCore
  <2>2. size' \in [Trees -> Nat]
    BY <1>1, <1>9 DEF Move
  <2> QED BY <1>2, <2>1, <2>2
<1>10. CASE UNCHANGED vars
  <2>1. heap' = heap /\ root' = root /\ size' = size /\ call' = call
    BY <1>10 DEF vars
  <2>2. Core(heap', root', rank, own, call')
    BY <2>1
  <2> QED BY <1>1, <1>2, <2>1, <2>2
<1> QED BY <1>3, <1>4, <1>5, <1>6, <1>7, <1>8, <1>9, <1>10 DEF Next, Insertion, WholeTree

\* IInv holds throughout.
THEOREM Invariance == Spec => []IInv
<1>1. Init => IInv
  BY InitInv
<1>2. IInv /\ [Next]_vars => IInv'
  BY NextInv
<1> QED BY <1>1, <1>2, PTL DEF Spec

\* The members of a node fit together: as many values as keys in a leaf, and one child
\* more than keys in an inner node; no node has more than MaxKeys keys, and none but a
\* root fewer than MinDegree - 1.  The pending insertion is at a node of its tree.
THEOREM TypeCorrect == Spec => []TypeOK
<1>1. IInv => TypeOK
  <2> SUFFICES ASSUME IInv PROVE TypeOK
    OBVIOUS
  <2> PICK rank, own : Core(heap, root, rank, own, call)
    BY DEF IInv
  <2>1. Forest(heap, root, rank, own) /\ Linked(heap, rank, own)
    BY DEF Core, Forest
  <2>2. ASSUME NEW n \in DOMAIN heap
        PROVE  /\ heap[n].keys \in Seq(Keys) /\ Len(heap[n].keys) <= MaxKeys
               /\ n \notin {root[t] : t \in Trees} => Len(heap[n].keys) >= MinDegree - 1
               /\ IF heap[n].leaf THEN Len(heap[n].values) = Len(heap[n].keys)
                                  ELSE Len(heap[n].children) = Len(heap[n].keys) + 1
    <3>1. Fits(heap, root, own, n)
      BY DEF Core, Occupied
    <3>2. own[n] \in Trees /\ heap[n].keys \in Seq(Keys)
      BY <2>1, ChildFacts
    <3>3. IF heap[n].leaf THEN Len(heap[n].values) = Len(heap[n].keys)
                          ELSE Len(heap[n].children) = Len(heap[n].keys) + 1
      BY <2>1 DEF Linked
    <3> QED BY <3>1, <3>2, <3>3 DEF Fits
  <2>3. root \in [Trees -> DOMAIN heap \union {Nil}] /\ size \in [Trees -> Nat]
    BY <2>1 DEF Forest, Rooted, IInv
  <2>4. call # Idle => call.node \in Subtree(heap, root[call.tree])
    <3> SUFFICES ASSUME call # Idle PROVE call.node \in Subtree(heap, root[call.tree])
      OBVIOUS
    <3> PICK t : t = call.tree
      OBVIOUS
    <3>1. t \in Trees /\ call.node \in DOMAIN heap /\ own[call.node] = t
      BY CallFacts
    <3>2. Subtree(heap, root[t]) = {n \in DOMAIN heap : own[n] = t}
      BY <2>1, <3>1, SubtreeOwned
    <3> QED BY <3>1, <3>2
  <2> QED BY <2>2, <2>3, <2>4 DEF TypeOK
<1> QED BY <1>1, Invariance, PTL

\* Every node is in one tree, at one place: no split loses one, and no copy or move
\* shares one.
THEOREM OneOwnerHolds == Spec => []OneOwner
<1>1. IInv => OneOwner
  <2> SUFFICES ASSUME IInv PROVE OneOwner
    OBVIOUS
  <2> PICK rank, own : Core(heap, root, rank, own, call)
    BY DEF IInv
  <2>1. Forest(heap, root, rank, own) /\ Linked(heap, rank, own) /\ Rooted(heap, root, own)
    BY DEF Core, Forest
  <2>2. \A t \in Trees : Subtree(heap, root[t]) = {n \in DOMAIN heap : own[n] = t}
    BY <2>1, SubtreeOwned
  <2>3. DOMAIN heap = UNION {Subtree(heap, root[t]) : t \in Trees}
    <3>1. \A n \in DOMAIN heap : own[n] \in Trees
      BY <2>1 DEF Linked
    <3> QED BY <2>2, <3>1
  <2>4. \A t, u \in Trees : t # u => Subtree(heap, root[t]) \intersect Subtree(heap, root[u]) = {}
    BY <2>2
  <2>5. \A n \in DOMAIN heap : DOMAIN heap[n].children = 1..Len(heap[n].children)
    BY <2>1, ChildFacts
  <2>6. \A n \in DOMAIN heap : IsInjective(heap[n].children)
    BY <2>1, <2>5 DEF Rooted, IsInjective
  <2>7. ASSUME NEW n \in DOMAIN heap, NEW m \in DOMAIN heap \ {n}
        PROVE  ToSet(heap[n].children) \intersect ToSet(heap[m].children) = {}
    BY <2>1, <2>5 DEF Rooted, ToSet
  <2> QED BY <2>3, <2>4, <2>6, <2>7 DEF OneOwner
<1> QED BY <1>1, Invariance, PTL

-----------------------------------------------------------------------------
(* Zones                                                                   *)

\* The zone of a node are the numbers that an insertion takes to it, or past it.
Zoned(h, zone) ==
    /\ DOMAIN zone = DOMAIN h
    /\ \A n \in DOMAIN h :
         /\ zone[n] \subseteq Int /\ IsRising(h[n].keys)
         /\ \A i \in 1..Len(h[n].keys) : h[n].keys[i] \in zone[n]
         /\ ~h[n].leaf => h[n].values = <<>>
         /\ \A i \in 1..Len(h[n].children) :
              zone[h[n].children[i]] = {k \in zone[n] : Between(h[n].keys, i, k)}
\* Two leaves of a tree have nothing in common, and a root takes every key.
Apart(h, own, zone) ==
    \A l, m \in DOMAIN h : h[l].leaf /\ h[m].leaf /\ own[l] = own[m] /\ l # m =>
      zone[l] \intersect zone[m] = {}
RootZones(r, zone) == \A t \in Trees : r[t] # Nil => zone[r[t]] = Int

\* All of zone x is less than all of zone y.
Before(zone, x, y) == \A a \in zone[x], b \in zone[y] : a < b

\* Leaf n, or none, is the next one after leaf l: the other leaves of the tree are
\* before l, or behind both.
Follows(h, own, zone, l, n) ==
    /\ n # Nil => n \in DOMAIN h \ {l} /\ h[n].leaf /\ own[n] = own[l] /\ Before(zone, l, n)
    /\ \A x \in DOMAIN h \ {l} : h[x].leaf /\ own[x] = own[l] =>
         Before(zone, x, l) \/ (Before(zone, l, x) /\ n # Nil /\ (x = n \/ Before(zone, n, x)))
Chained(h, own, zone) == \A l \in DOMAIN h : h[l].leaf => Follows(h, own, zone, l, h[l].next)

Mapped(h, r, own, zone) ==
    Zoned(h, zone) /\ Apart(h, own, zone) /\ RootZones(r, zone) /\ Chained(h, own, zone)

-----------------------------------------------------------------------------
(* The chain of leaves                                                     *)

\* Parts of two zones are in the order of the zones.
LEMMA BeforeParts ==
    ASSUME NEW zone, NEW zone2, NEW x, NEW y, NEW a, NEW b, zone2[x] \subseteq zone[a],
           zone2[y] \subseteq zone[b], Before(zone, a, b)
    PROVE  Before(zone2, x, y)
BY DEF Before

\* Node n after a split is a part of node o[n] of before.
IsOrigin(h, g, own, own2, zone, zone2, o, c, neu) ==
    \A n \in DOMAIN g : g[n].leaf =>
      /\ o[n] = IF n = neu THEN c ELSE n
      /\ o[n] \in DOMAIN h /\ h[o[n]].leaf /\ own[o[n]] = own2[n] /\ zone2[n] \subseteq zone[o[n]]

\* A split of a leaf puts the new one behind the old one.
LEMMA SplitChained ==
    ASSUME NEW h, NEW own, NEW zone, Chained(h, own, zone), NEW g, NEW own2, NEW zone2,
           NEW p \in DOMAIN h, NEW i, NEW neu \in (1..MaxNodes) \ DOMAIN h, NEW c \in DOMAIN h \ {p},
           ~h[p].leaf, IsFullSplit(h, g, p, i, c, neu),
           NEW o, IsOrigin(h, g, own, own2, zone, zone2, o, c, neu), Before(zone2, c, neu)
    PROVE  Chained(g, own2, zone2)
<1>1. /\ DOMAIN g = DOMAIN h \union {neu} /\ neu \notin DOMAIN h /\ neu # Nil
      /\ ~g[p].leaf /\ g[c].leaf = h[c].leaf /\ g[neu].leaf = h[c].leaf
      /\ h[c].leaf => g[c].next = neu /\ g[neu].next = h[c].next
      /\ \A n \in DOMAIN h \ {p, c} : g[n] = h[n]
  BY NilAssumption DEF IsFullSplit, IsSplit, Halved, Promoted
<1>2. \A n \in DOMAIN g : g[n].leaf =>
        /\ o[n] = IF n = neu THEN c ELSE n
        /\ o[n] \in DOMAIN h /\ h[o[n]].leaf /\ own[o[n]] = own2[n]
  BY DEF IsOrigin
<1>3. ASSUME NEW x \in DOMAIN g, NEW y \in DOMAIN g, g[x].leaf, g[y].leaf, Before(zone, o[x], o[y])
      PROVE  Before(zone2, x, y)
  <2>1. zone2[x] \subseteq zone[o[x]] /\ zone2[y] \subseteq zone[o[y]]
    BY <1>3 DEF IsOrigin
  <2> QED BY <1>3, <2>1, BeforeParts
<1>4. ASSUME NEW l \in DOMAIN h, h[l].leaf PROVE Follows(h, own, zone, l, h[l].next)
  BY <1>4 DEF Chained
<1> SUFFICES ASSUME NEW l \in DOMAIN g, g[l].leaf PROVE Follows(g, own2, zone2, l, g[l].next)
  BY DEF Chained
<1> PICK n : n = g[l].next
  OBVIOUS
<1>5. CASE l = c
  <2> PICK m : m = h[c].next
    OBVIOUS
  <2>1. h[c].leaf /\ n = neu /\ g[neu].leaf /\ own2[neu] = own2[c] /\ own2[c] = own[c]
    BY <1>1, <1>2, <1>5
  <2>2. Follows(h, own, zone, c, m)
    BY <1>4, <2>1
  <2>3. ASSUME NEW x \in DOMAIN g \ {c}, g[x].leaf, own2[x] = own2[c], x # neu
        PROVE  Before(zone2, x, c) \/ (Before(zone2, c, x) /\ Before(zone2, neu, x))
    <3>1. x \in DOMAIN h \ {c} /\ h[x].leaf /\ own[x] = own[c] /\ o[x] = x /\ o[c] = c /\ o[neu] = c
      BY <1>1, <1>2, <1>5, <2>1, <2>3
    <3>2. Before(zone, x, c) \/ Before(zone, c, x)
      BY <2>2, <3>1 DEF Follows
    <3> QED BY <1>1, <1>3, <1>5, <2>1, <2>3, <3>1, <3>2
  <2> QED BY <1>1, <1>5, <2>1, <2>3 DEF Follows
<1>6. CASE l = neu
  <2>1. h[c].leaf /\ n = h[c].next /\ g[c].leaf /\ own2[neu] = own2[c] /\ own2[c] = own[c] /\ o[neu] = c /\ o[c] = c
    BY <1>1, <1>2, <1>6
  <2>2. Follows(h, own, zone, c, n)
    BY <1>4, <2>1
  <2>3. ASSUME n # Nil
        PROVE  n \in DOMAIN g \ {neu} /\ g[n].leaf /\ own2[n] = own2[neu] /\ Before(zone2, neu, n) /\ n # c /\ o[n] = n
    <3>1. n \in DOMAIN h \ {c} /\ h[n].leaf /\ own[n] = own[c] /\ Before(zone, c, n)
      BY <2>2, <2>3 DEF Follows
    <3>2. n # p /\ g[n] = h[n] /\ n # neu
      BY <1>1, <3>1
    <3>3. o[n] = n /\ own2[n] = own[n]
      BY <1>1, <1>2, <3>1, <3>2
    <3> QED BY <1>1, <1>3, <1>6, <2>1, <3>1, <3>2, <3>3
  <2>4. ASSUME NEW x \in DOMAIN g \ {neu}, g[x].leaf, own2[x] = own2[neu]
        PROVE  Before(zone2, x, neu) \/
               (Before(zone2, neu, x) /\ n # Nil /\ (x = n \/ Before(zone2, n, x)))
    <3>1. CASE x = c
      BY <3>1
    <3>2. CASE x # c
      <4>1. x \in DOMAIN h \ {c} /\ h[x].leaf /\ own[x] = own[c] /\ o[x] = x
        BY <1>1, <1>2, <2>1, <2>4, <3>2
      <4>2. Before(zone, x, c) \/ (Before(zone, c, x) /\ n # Nil /\ (x = n \/ Before(zone, n, x)))
        BY <2>2, <4>1 DEF Follows
      <4>3. Before(zone, x, c) => Before(zone2, x, neu)
        BY <1>3, <1>6, <2>1, <2>4, <4>1
      <4>4. Before(zone, c, x) => Before(zone2, neu, x)
        BY <1>3, <1>6, <2>1, <2>4, <4>1
      <4>5. n # Nil /\ Before(zone, n, x) => Before(zone2, n, x)
        BY <1>3, <2>3, <2>4, <4>1
      <4> QED BY <4>2, <4>3, <4>4, <4>5
    <3> QED BY <3>1, <3>2
  <2> QED BY <1>6, <2>3, <2>4 DEF Follows
<1>7. CASE l \notin {c, neu}
  <2>1. l \in DOMAIN h /\ l # p /\ g[l] = h[l] /\ h[l].leaf /\ o[l] = l /\ own2[l] = own[l]
    BY <1>1, <1>2, <1>7
  <2>2. Follows(h, own, zone, l, n)
    BY <1>4, <2>1
  <2>3. ASSUME n # Nil
        PROVE  n \in DOMAIN g \ {l} /\ g[n].leaf /\ own2[n] = own2[l] /\ Before(zone2, l, n) /\ o[n] = n
    <3>1. n \in DOMAIN h \ {l} /\ h[n].leaf /\ own[n] = own[l] /\ Before(zone, l, n)
      BY <2>2, <2>3 DEF Follows
    <3>2. n # p /\ g[n].leaf /\ n # neu /\ n \in DOMAIN g
      BY <1>1, <3>1
    <3>3. o[n] = n /\ own2[n] = own[n]
      BY <1>2, <3>2
    <3> QED BY <1>3, <2>1, <3>1, <3>2, <3>3
  <2>4. ASSUME NEW x \in DOMAIN g \ {l}, g[x].leaf, own2[x] = own2[l]
        PROVE  Before(zone2, x, l) \/
               (Before(zone2, l, x) /\ n # Nil /\ (x = n \/ Before(zone2, n, x)))
    <3> PICK y : y = o[x]
      OBVIOUS
    <3>1. y \in DOMAIN h \ {l} /\ h[y].leaf /\ own[y] = own[l] /\ (x = neu => y = c) /\ (x # neu => y = x)
      BY <1>2, <1>7, <2>1, <2>4
    <3>2. Before(zone, y, l) \/ (Before(zone, l, y) /\ n # Nil /\ (y = n \/ Before(zone, n, y)))
      BY <2>2, <3>1 DEF Follows
    <3>3. Before(zone, y, l) => Before(zone2, x, l)
      BY <1>3, <2>1, <2>4
    <3>4. Before(zone, l, y) => Before(zone2, l, x)
      BY <1>3, <2>1, <2>4
    <3>5. n # Nil /\ Before(zone, n, y) => Before(zone2, n, x)
      BY <1>3, <2>3, <2>4
    <3>6. n # Nil /\ y = n => x = n \/ Before(zone2, n, x)
      BY <3>1
    <3> QED BY <3>2, <3>3, <3>4, <3>5, <3>6
  <2> QED BY <2>3, <2>4 DEF Follows
<1> QED BY <1>5, <1>6, <1>7

\* The leaves of what stays when a tree is destroyed are a chain.
LEMMA RemoveChained ==
    ASSUME NEW h, NEW own, NEW zone, DOMAIN own = DOMAIN h, DOMAIN zone = DOMAIN h, Chained(h, own, zone),
           NEW t, NEW D \in SUBSET DOMAIN h, \A n \in DOMAIN h : n \in D <=> own[n] # t
    PROVE  Chained(Part(h, D), Part(own, D), Part(zone, D))
<1> PICK g : g = Part(h, D)
  OBVIOUS
<1> PICK own2 : own2 = Part(own, D)
  OBVIOUS
<1> PICK zone2 : zone2 = Part(zone, D)
  OBVIOUS
<1>1. DOMAIN g = D /\ \A n \in D : g[n] = h[n] /\ own2[n] = own[n] /\ zone2[n] = zone[n]
  BY DEF Part
<1>2. \A x, y \in D : Before(zone2, x, y) <=> Before(zone, x, y)
  BY <1>1 DEF Before
<1> SUFFICES ASSUME NEW l \in D, g[l].leaf PROVE Follows(g, own2, zone2, l, g[l].next)
  BY <1>1 DEF Chained
<1> PICK n : n = h[l].next
  OBVIOUS
<1>3. Follows(h, own, zone, l, n) /\ g[l].next = n /\ l \in DOMAIN h
  BY <1>1 DEF Chained
<1>4. n # Nil => n \in D \ {l} /\ h[n].leaf /\ own[n] = own[l] /\ Before(zone, l, n)
  BY <1>3 DEF Follows
<1>5. ASSUME NEW x \in D \ {l}, h[x].leaf, own[x] = own[l]
      PROVE  Before(zone, x, l) \/ (Before(zone, l, x) /\ n # Nil /\ (x = n \/ Before(zone, n, x)))
  BY <1>3, <1>5 DEF Follows
<1> QED BY <1>1, <1>2, <1>3, <1>4, <1>5 DEF Follows

\* Nodes that change hands are the same chains.
LEMMA HandChained ==
    ASSUME NEW h, NEW own, NEW zone, DOMAIN own = DOMAIN h, Chained(h, own, zone),
           NEW t, NEW from, \A n \in DOMAIN h : own[n] # t
    PROVE  Chained(h, Handed(own, t, from), zone)
<1> PICK own2 : own2 = Handed(own, t, from)
  OBVIOUS
<1>1. \A x, y \in DOMAIN h : own2[x] = own2[y] <=> own[x] = own[y]
  BY DEF Handed
<1> SUFFICES ASSUME NEW l \in DOMAIN h, h[l].leaf PROVE Follows(h, own2, zone, l, h[l].next)
  BY DEF Chained
<1>2. Follows(h, own, zone, l, h[l].next)
  BY DEF Chained
<1> QED BY <1>1, <1>2 DEF Follows

\* A new leaf is the only one of its tree, and a new inner node is none.
LEMMA NewRootChained ==
    ASSUME NEW h, NEW own, NEW zone, DOMAIN own = DOMAIN h, DOMAIN zone = DOMAIN h, Chained(h, own, zone),
           NEW l, l \notin DOMAIN h, NEW node, NEW t,
           node.leaf => node.next = Nil /\ \A n \in DOMAIN h : own[n] # t
    PROVE  Chained(With(h, l, node), With(own, l, t), With(zone, l, Int))
<1> PICK g : g = With(h, l, node)
  OBVIOUS
<1> PICK own2 : own2 = With(own, l, t)
  OBVIOUS
<1> PICK zone2 : zone2 = With(zone, l, Int)
  OBVIOUS
<1>1. /\ DOMAIN g = DOMAIN h \union {l} /\ g[l] = node /\ own2[l] = t
      /\ \A n \in DOMAIN h : g[n] = h[n] /\ own2[n] = own[n] /\ zone2[n] = zone[n] /\ n # l
  BY DEF With
<1>2. \A x, y \in DOMAIN h : Before(zone2, x, y) <=> Before(zone, x, y)
  BY <1>1 DEF Before
<1> SUFFICES ASSUME NEW m \in DOMAIN g, g[m].leaf PROVE Follows(g, own2, zone2, m, g[m].next)
  BY DEF Chained
<1>3. CASE m = l
  <2>1. node.leaf /\ g[m].next = Nil /\ \A x \in DOMAIN g \ {l} : own2[x] # own2[l]
    BY <1>1, <1>3
  <2> QED BY <1>3, <2>1 DEF Follows
<1>4. CASE m # l
  <2> PICK n : n = h[m].next
    OBVIOUS
  <2>1. m \in DOMAIN h /\ h[m].leaf /\ g[m].next = n /\ Follows(h, own, zone, m, n)
    BY <1>1, <1>4 DEF Chained
  <2>2. n # Nil => n \in DOMAIN h \ {m} /\ h[n].leaf /\ own[n] = own[m] /\ Before(zone, m, n)
    BY <2>1 DEF Follows
  <2>3. ASSUME NEW x \in DOMAIN g \ {m}, g[x].leaf, own2[x] = own2[m]
        PROVE  x \in DOMAIN h \ {m} /\ h[x].leaf /\ own[x] = own[m]
    BY <1>1, <2>1, <2>3
  <2>4. ASSUME NEW x \in DOMAIN h \ {m}, h[x].leaf, own[x] = own[m]
        PROVE  Before(zone, x, m) \/ (Before(zone, m, x) /\ n # Nil /\ (x = n \/ Before(zone, n, x)))
    BY <2>1, <2>4 DEF Follows
  <2> QED BY <1>1, <1>2, <2>1, <2>2, <2>3, <2>4 DEF Follows
<1> QED BY <1>3, <1>4

\* Keys and values do not matter for the chain.
LEMMA SameChained ==
    ASSUME NEW h, NEW own, NEW zone, Chained(h, own, zone), NEW g, DOMAIN g = DOMAIN h,
           \A n \in DOMAIN h : g[n].leaf = h[n].leaf /\ g[n].next = h[n].next
    PROVE  Chained(g, own, zone)
BY DEF Chained, Follows

\* The leaf behind a copy is the copy of the leaf behind.
NextsCopied(h, g, F, f, s) ==
    \A m \in F : g[m].leaf => g[m].next = IF h[s[m]].next = Nil THEN Nil ELSE f[h[s[m]].next]

\* The copies of the leaves of a tree are a chain like theirs.
LEMMA CloneChained ==
    ASSUME NEW h, NEW own, NEW zone, DOMAIN own = DOMAIN h, DOMAIN zone = DOMAIN h, Chained(h, own, zone),
           NEW t, NEW from, \A n \in DOMAIN h : own[n] # t,
           NEW g, NEW S, NEW F, NEW f, NEW s, \A n \in DOMAIN h : n \in S <=> own[n] = from,
           IsClone(h, g, S, F, f, s), NextsCopied(h, g, F, f, s)
    PROVE  Chained(g, CopyOwner(own, F, t), CopyRank(zone, F, s))
<1> PICK own2 : own2 = CopyOwner(own, F, t)
  OBVIOUS
<1> PICK zone2 : zone2 = CopyRank(zone, F, s)
  OBVIOUS
<1>1. /\ DOMAIN g = DOMAIN h \union F
      /\ \A n \in DOMAIN h : n \notin F /\ g[n] = h[n] /\ own2[n] = own[n] /\ zone2[n] = zone[n]
      /\ \A m \in F : own2[m] = t /\ zone2[m] = zone[s[m]] /\ s[m] \in S /\ f[s[m]] = m
                      /\ g[m].leaf = h[s[m]].leaf
      /\ \A n \in S : n \in DOMAIN h /\ f[n] \in F /\ s[f[n]] = n
  BY DEF IsClone, CopyOwner, CopyRank
<1>7. Nil \notin F
  BY NilAssumption DEF IsClone
<1>2. \A n \in DOMAIN h : n \in S <=> own[n] = from
  OBVIOUS
<1>3. \A x, y \in DOMAIN h : Before(zone2, x, y) <=> Before(zone, x, y)
  BY <1>1 DEF Before
<1>4. \A x, y \in F : Before(zone2, x, y) <=> Before(zone, s[x], s[y])
  BY <1>1 DEF Before
<1> SUFFICES ASSUME NEW l \in DOMAIN g, g[l].leaf PROVE Follows(g, own2, zone2, l, g[l].next)
  BY DEF Chained
<1>5. CASE l \in DOMAIN h
  <2> PICK n : n = h[l].next
    OBVIOUS
  <2>1. h[l].leaf /\ g[l].next = n /\ Follows(h, own, zone, l, n)
    BY <1>1, <1>5 DEF Chained
  <2>2. n # Nil => n \in DOMAIN h \ {l} /\ h[n].leaf /\ own[n] = own[l] /\ Before(zone, l, n)
    BY <2>1 DEF Follows
  <2>3. ASSUME NEW x \in DOMAIN g \ {l}, g[x].leaf, own2[x] = own2[l]
        PROVE  x \in DOMAIN h \ {l} /\ h[x].leaf /\ own[x] = own[l]
    BY <1>1, <1>5, <2>3
  <2>4. ASSUME NEW x \in DOMAIN h \ {l}, h[x].leaf, own[x] = own[l]
        PROVE  Before(zone, x, l) \/ (Before(zone, l, x) /\ n # Nil /\ (x = n \/ Before(zone, n, x)))
    BY <2>1, <2>4 DEF Follows
  <2> QED BY <1>1, <1>3, <1>5, <2>1, <2>2, <2>3, <2>4 DEF Follows
<1>6. CASE l \in F
  <2> PICK k : k = s[l]
    OBVIOUS
  <2> PICK n : n = h[k].next
    OBVIOUS
  <2> PICK m : m = g[l].next
    OBVIOUS
  <2>1. k \in S /\ k \in DOMAIN h /\ h[k].leaf /\ own[k] = from /\ Follows(h, own, zone, k, n)
    BY <1>1, <1>2, <1>6 DEF Chained
  <2>2. m = IF n = Nil THEN Nil ELSE f[n]
    BY <1>6 DEF NextsCopied
  <2>3. n # Nil => n \in S /\ n # k /\ h[n].leaf /\ Before(zone, k, n)
    BY <1>2, <2>1 DEF Follows
  <2>4. n # Nil => m \in F /\ s[m] = n /\ m # l
    BY <1>1, <2>2, <2>3
  <2>5. m # Nil => n # Nil /\ m \in DOMAIN g \ {l} /\ g[m].leaf /\ own2[m] = own2[l] /\ Before(zone2, l, m)
    BY <1>1, <1>4, <1>6, <2>2, <2>3, <2>4
  <2>6. ASSUME NEW x \in DOMAIN g \ {l}, g[x].leaf, own2[x] = own2[l]
        PROVE  Before(zone2, x, l) \/ (Before(zone2, l, x) /\ m # Nil /\ (x = m \/ Before(zone2, m, x)))
    <3>1. x \in F /\ s[x] \in DOMAIN h \ {k} /\ h[s[x]].leaf /\ own[s[x]] = own[k] /\ f[s[x]] = x
      BY <1>1, <1>2, <1>6, <2>1, <2>6
    <3>2. Before(zone, s[x], k) \/
            (Before(zone, k, s[x]) /\ n # Nil /\ (s[x] = n \/ Before(zone, n, s[x])))
      BY <2>1, <3>1 DEF Follows
    <3>3. n # Nil => m # Nil
      BY <1>7, <2>4
    <3>4. n # Nil /\ s[x] = n => x = m
      BY <2>2, <3>1
    <3>5. n # Nil /\ Before(zone, n, s[x]) => Before(zone2, m, x)
      BY <1>4, <2>4, <3>1
    <3> QED BY <1>4, <1>6, <3>1, <3>2, <3>3, <3>4, <3>5
  <2> QED BY <2>5, <2>6 DEF Follows
<1> QED BY <1>1, <1>5, <1>6

-----------------------------------------------------------------------------
(* The zones of the nodes                                                  *)

\* A split divides the zone of the child.
Divided(zone, c, neu, k0) ==
    With(With(zone, c, {k \in zone[c] : k < k0}), neu, {k \in zone[c] : k0 <= k})
IsDivided(zone, zone2, D, c, neu, k0) ==
    /\ DOMAIN zone2 = D \union {neu}
    /\ zone2[c] = {k \in zone[c] : k < k0} /\ zone2[neu] = {k \in zone[c] : k0 <= k}
    /\ \A n \in D \ {c} : zone2[n] = zone[n]

\* The zones after a split.
LEMMA DividedFacts ==
    ASSUME NEW D, NEW zone, DOMAIN zone = D, NEW c \in D, NEW neu, neu \notin D, NEW k0
    PROVE  IsDivided(zone, Divided(zone, c, neu, k0), D, c, neu, k0)
<1> PICK z1 : z1 = With(zone, c, {k \in zone[c] : k < k0})
  OBVIOUS
<1>1. DOMAIN z1 = D /\ z1[c] = {k \in zone[c] : k < k0} /\ \A n \in D \ {c} : z1[n] = zone[n]
  BY DEF With
<1> PICK z2 : z2 = With(z1, neu, {k \in zone[c] : k0 <= k})
  OBVIOUS
<1>2. DOMAIN z2 = D \union {neu} /\ z2[neu] = {k \in zone[c] : k0 <= k} /\ \A n \in D : z2[n] = z1[n]
  BY <1>1 DEF With
<1>3. z2 = Divided(zone, c, neu, k0)
  BY DEF Divided
<1>4. IsDivided(zone, z2, D, c, neu, k0)
  BY <1>1, <1>2 DEF IsDivided
<1> QED BY <1>3, <1>4


\* The keys of the three nodes of a split.
SplitKeys(h, g, p, i, c, neu, q, k0) ==
    /\ q \in Nat /\ q >= 1 /\ q + 1 <= Len(h[c].keys) /\ k0 = h[c].keys[q + 1] /\ k0 \in Int
    /\ Inside(h[p].keys, i, k0)
    /\ Widened(h[p].keys, g[p].keys, i, k0)
    /\ Headed(h[c].keys, g[c].keys, q) /\ IsHead(h[c].keys, g[c].keys, q)
    /\ IsRising(g[neu].keys)
    /\ IF h[c].leaf THEN IsTail(h[c].keys, g[neu].keys, q)
                    ELSE IsTail(h[c].keys, g[neu].keys, q + 1)
                         /\ Tailed(h[c].keys, g[neu].keys, q + 1)

\* The separator lies between those around the child.
LEMMA SplitKeysFacts ==
    ASSUME NEW h, NEW rank, NEW own, Linked(h, rank, own), NEW zone, Zoned(h, zone), NEW g,
           NEW p \in DOMAIN h, NEW i \in 1..Len(h[p].children), NEW neu, ~h[p].leaf,
           NEW c, c = h[p].children[i], IsFullSplit(h, g, p, i, c, neu),
           NEW q, q = Middle(h[c]), NEW k0, k0 = h[c].keys[q + 1]
    PROVE  SplitKeys(h, g, p, i, c, neu, q, k0)
<1>1. c \in DOMAIN h /\ h[c].keys \in Seq(Keys) /\ h[p].keys \in Seq(Keys)
      /\ Len(h[p].children) = Len(h[p].keys) + 1 /\ Full(h[c])
  <2>1. c \in DOMAIN h
    BY ChildFacts
  <2>2. h[c].keys \in Seq(Keys) /\ h[p].keys \in Seq(Keys)
    BY <2>1, ChildFacts
  <2> QED BY <2>1, <2>2 DEF Linked, IsFullSplit
<1>2. q \in Nat /\ q >= 1 /\ Len(h[c].keys) \in Nat /\ q + 1 <= Len(h[c].keys)
  BY <1>1, MiddleFacts, MinDegreeAssumption, SMTT(30)
<1>3. IsRising(h[c].keys) /\ IsRising(h[p].keys)
  BY <1>1 DEF Zoned
<1>4. k0 \in Int /\ h[c].keys[1] < k0 /\ h[c].keys[1] \in Int
  <2>1. 1 \in 1..Len(h[c].keys) /\ q + 1 \in 1..Len(h[c].keys) /\ 1 < q + 1
    BY <1>2
  <2> QED BY <1>3, <2>1 DEF IsRising, Rising
<1>5. Between(h[p].keys, i, h[c].keys[1]) /\ Between(h[p].keys, i, k0)
  <2>1. h[c].keys[1] \in zone[c] /\ k0 \in zone[c]
    <3>1. 1 \in 1..Len(h[c].keys) /\ q + 1 \in 1..Len(h[c].keys)
      BY <1>2
    <3> QED BY <1>1, <3>1 DEF Zoned
  <2>2. zone[c] = {k \in zone[p] : Between(h[p].keys, i, k)}
    BY DEF Zoned
  <2> QED BY <2>1, <2>2
<1>6. i \in 1..(Len(h[p].keys) + 1) /\ Len(h[p].keys) \in Nat
  BY <1>1, <1>3 DEF IsRising
<1>7. Inside(h[p].keys, i, k0)
  <2>1. i > 1 => h[p].keys[i - 1] \in Int
    BY <1>3, <1>6, SMTT(30) DEF IsRising
  <2> QED BY <1>4, <1>5, <2>1 DEF Between, Inside
<1>8. Widened(h[p].keys, g[p].keys, i, k0)
  <2>1. /\ Len(g[p].keys) = Len(h[p].keys) + 1
        /\ \A j \in 1..(Len(h[p].keys) + 1) : g[p].keys[j] =
             IF j < i THEN h[p].keys[j] ELSE IF j = i THEN k0 ELSE h[p].keys[j - 1]
    BY DEF IsFullSplit, Promoted
  <2> QED BY <1>3, <1>4, <1>6, <1>7, <2>1, WidenedFacts
<1>9. Halved(h[c], g[c], g[neu], neu)
  BY Zenon DEF IsFullSplit
<1>10. IsHead(h[c].keys, g[c].keys, q)
  BY <1>9, Zenon DEF Halved, IsHead
<1>11. Headed(h[c].keys, g[c].keys, q)
  BY <1>2, <1>3, <1>10, FirstKeys, Zenon
<1>12. CASE h[c].leaf
  <2>1. IsTail(h[c].keys, g[neu].keys, q)
    BY <1>9, <1>12, Zenon DEF Halved, IsTail
  <2>2. IsRising(g[neu].keys)
    BY <1>2, <1>3, <2>1, TailRises
  <2> QED BY <1>2, <1>4, <1>7, <1>8, <1>10, <1>11, <1>12, <2>1, <2>2, Zenon DEF SplitKeys
<1>13. CASE ~h[c].leaf
  <2> PICK q1 \in Nat : q1 = q + 1 /\ q1 >= 1 /\ q1 <= Len(h[c].keys)
    BY <1>2
  <2>1. IsTail(h[c].keys, g[neu].keys, q1)
    <3>1. /\ \A e \in Nat : e - q - 1 = e - q1
          /\ \A j \in Nat : q + 1 + j = q1 + j
      BY <1>2
    <3> PICK e \in Nat : e = Len(h[c].keys)
      BY <1>2
    <3> PICK s : s = h[c].keys
      OBVIOUS
    <3> PICK s1 : s1 = g[neu].keys
      OBVIOUS
    <3>2. Len(s1) = e - q - 1 /\ \A j \in 1..(e - q - 1) : s1[j] = s[q + 1 + j]
      BY <1>9, <1>13, Zenon DEF Halved
    <3>3. e - q - 1 = e - q1
      BY <3>1
    <3>4. Len(s1) = e - q1 /\ \A j \in 1..(e - q1) : s1[j] = s[q1 + j]
      BY <3>1, <3>2, <3>3
    <3> QED BY <3>4 DEF IsTail
  <2>2. IsRising(g[neu].keys)
    BY <1>3, <2>1, TailRises
  <2>3. Tailed(h[c].keys, g[neu].keys, q1)
    BY <1>3, <2>1, LastKeys
  <2> QED BY <1>2, <1>4, <1>7, <1>8, <1>10, <1>11, <1>13, <2>1, <2>2, <2>3, Zenon DEF SplitKeys
<1> QED BY <1>12, <1>13

IsMiddle(n, q) == q = Middle(n)

\* A split keeps the zones.
LEMMA SplitZoned ==
    ASSUME NEW h, NEW r, NEW rank, NEW own, Forest(h, r, rank, own),
           NEW zone, Zoned(h, zone), NEW g,
           NEW p \in DOMAIN h, NEW i \in 1..Len(h[p].children), NEW neu \in (1..MaxNodes) \ DOMAIN h,
           ~h[p].leaf, NEW c \in DOMAIN h \ {p}, Slot(h, p, i, c), IsFullSplit(h, g, p, i, c, neu),
           NEW q, IsMiddle(h[c], q), NEW k0, SplitKeys(h, g, p, i, c, neu, q, k0),
           NEW zone2, IsDivided(zone, zone2, DOMAIN h, c, neu, k0)
    PROVE  Zoned(g, zone2)
<1>1. /\ Linked(h, rank, own) /\ neu \notin DOMAIN h
      /\ q \in Nat /\ q >= 1 /\ q + 1 <= Len(h[c].keys) /\ k0 = h[c].keys[q + 1] /\ k0 \in Int
      /\ i \in Nat /\ i >= 1
  <2>1. Linked(h, rank, own)
    BY DEF Forest
  <2>2. Len(h[p].children) \in Nat
    BY <2>1, ChildFacts
  <2> QED BY <2>1, <2>2 DEF SplitKeys
<1>2. /\ DOMAIN zone = DOMAIN h
      /\ \A n \in DOMAIN h : zone[n] \subseteq Int /\ IsRising(h[n].keys)
      /\ \A n \in DOMAIN h : \A j \in 1..Len(h[n].keys) : h[n].keys[j] \in zone[n]
      /\ \A n \in DOMAIN h : ~h[n].leaf => h[n].values = <<>>
      /\ \A m, j, x : Slot(h, m, j, x) => zone[x] = {k \in zone[m] : Between(h[m].keys, j, k)}
  BY DEF Zoned, Slot
<1>3. /\ DOMAIN g = DOMAIN h \union {neu} /\ \A m \in DOMAIN h \ {p, c} : g[m] = h[m]
  BY DEF IsFullSplit, IsSplit
<1>4. /\ DOMAIN zone2 = DOMAIN h \union {neu}
      /\ zone2[c] = {k \in zone[c] : k < k0} /\ zone2[neu] = {k \in zone[c] : k0 <= k}
      /\ \A n \in DOMAIN h \ {c} : zone2[n] = zone[n]
  BY DEF IsDivided
<1>5. \A n \in DOMAIN g : zone2[n] \subseteq Int
  <2>1. zone[c] \subseteq Int
    BY <1>2
  <2>2. zone2[c] \subseteq Int /\ zone2[neu] \subseteq Int
    BY <1>4, <2>1
  <2>3. \A n \in DOMAIN h \ {c} : zone2[n] \subseteq Int
    BY <1>2, <1>4
  <2> QED BY <1>3, <2>2, <2>3
<1>6. \A n \in DOMAIN g : IsRising(g[n].keys)
  <2>1. IsRising(g[p].keys) /\ IsRising(g[c].keys) /\ IsRising(g[neu].keys)
    BY DEF SplitKeys, Widened, Headed
  <2> QED BY <1>2, <1>3, <2>1
<1>7. \A n \in DOMAIN g : ~g[n].leaf => g[n].values = <<>>
  <2>1. g[p].values = <<>>
    BY DEF IsFullSplit, Promoted
  <2>2. /\ ~g[c].leaf => g[c].values = <<>>
        /\ ~g[neu].leaf => g[neu].values = <<>>
    BY DEF IsFullSplit, Halved
  <2> QED BY <1>2, <1>3, <2>1, <2>2
<1>8. ASSUME NEW n \in DOMAIN g, NEW j \in 1..Len(g[n].keys) PROVE g[n].keys[j] \in zone2[n]
  <2>1. CASE n = p
    <3> PICK s : s = h[p].keys
      OBVIOUS
    <3> PICK e \in Nat : e = Len(s)
      BY <1>2 DEF IsRising
    <3>1. /\ j \in 1..(e + 1)
          /\ g[p].keys[j] = IF j < i THEN s[j] ELSE IF j = i THEN k0 ELSE s[j - 1]
      <4>1. Promoted(h[p], g[p], i, k0, neu)
        <5>1. k0 = h[c].keys[Middle(h[c]) + 1]
          BY <1>1 DEF IsMiddle
        <5> QED BY <5>1 DEF IsFullSplit
      <4> QED BY <2>1, <4>1 DEF Promoted
    <3>2. zone2[p] = zone[p] /\ \A l \in 1..e : s[l] \in zone[p]
      BY <1>2, <1>4
    <3>3. Slot(h, p, i, c)
      OBVIOUS
    <3>4. k0 \in zone[p]
      <4>1. k0 \in zone[c]
        <5>1. q + 1 \in 1..Len(h[c].keys)
          BY <1>1, <1>2 DEF IsRising
        <5> QED BY <1>1, <1>2, <5>1
      <4> QED BY <1>2, <3>3, <4>1
    <3>5. i \in 1..(e + 1)
      <4>1. Len(h[p].children) = Len(s) + 1
        BY <1>1 DEF Linked
      <4> QED BY <4>1
    <3>6. CASE j < i
      <4>1. j \in 1..e
        BY <3>1, <3>5, <3>6
      <4> QED BY <2>1, <3>1, <3>2, <3>6, <4>1
    <3>7. CASE j = i
      BY <2>1, <3>1, <3>2, <3>4, <3>7
    <3>8. CASE j > i
      <4>1. j - 1 \in 1..e /\ ~(j < i) /\ j # i
        BY <3>1, <3>5, <3>8
      <4> QED BY <2>1, <3>1, <3>2, <4>1
    <3> QED BY <3>1, <3>5, <3>6, <3>7, <3>8
  <2>2. CASE n = c
    <3>1. j \in 1..q /\ g[c].keys[j] = h[c].keys[j] /\ g[c].keys[j] < k0
      BY <1>1, <2>2 DEF SplitKeys, IsHead, Headed
    <3>2. j \in 1..Len(h[c].keys)
      BY <1>1, <1>2, <3>1 DEF IsRising
    <3> QED BY <1>2, <1>4, <2>2, <3>1, <3>2
  <2>3. CASE n = neu
    <3> PICK s : s = h[c].keys
      OBVIOUS
    <3> PICK e \in Nat : e = Len(s)
      BY <1>2 DEF IsRising
    <3> PICK s1 : s1 = g[neu].keys
      OBVIOUS
    <3>1. \A l \in 1..e : q + 1 <= l => s[l] \in zone[c] /\ k0 <= s[l]
      <4> SUFFICES ASSUME NEW l \in 1..e, q + 1 <= l PROVE s[l] \in zone[c] /\ k0 <= s[l]
        OBVIOUS
      <4>1. s[l] \in zone[c] /\ s[l] \in Int /\ q + 1 \in 1..e
        BY <1>1, <1>2
      <4>2. \A a, b \in 1..e : a < b => s[a] < s[b]
        BY <1>2 DEF IsRising, Rising
      <4>3. CASE l = q + 1
        BY <1>1, <4>1, <4>3
      <4>4. CASE l # q + 1
        <5>1. s[q + 1] < s[l]
          BY <1>1, <4>1, <4>2, <4>4
        <5> QED BY <1>1, <4>1, <5>1
      <4> QED BY <4>3, <4>4
    <3>2. \E l \in 1..e : q + 1 <= l /\ s1[j] = s[l]
      <4>1. CASE h[c].leaf
        <5>1. Len(s1) = e - q /\ \A l \in 1..(e - q) : s1[l] = s[q + l]
          BY <4>1 DEF SplitKeys, IsTail
        <5>2. j \in 1..(e - q) /\ q + j \in 1..e /\ q + 1 <= q + j
          BY <1>1, <2>3, <5>1
        <5> QED BY <5>1, <5>2
      <4>2. CASE ~h[c].leaf
        <5>1. Len(s1) = e - (q + 1) /\ \A l \in 1..(e - (q + 1)) : s1[l] = s[q + 1 + l]
          BY <4>2 DEF SplitKeys, IsTail
        <5>2. j \in 1..(e - (q + 1)) /\ q + 1 + j \in 1..e /\ q + 1 <= q + 1 + j
          BY <1>1, <2>3, <5>1, SMTT(30)
        <5> QED BY <5>1, <5>2
      <4> QED BY <4>1, <4>2
    <3> QED BY <1>4, <2>3, <3>1, <3>2
  <2>4. CASE n \notin {p, c, neu}
    BY <1>2, <1>3, <1>4, <2>4
  <2> QED BY <2>1, <2>2, <2>3, <2>4
<1>9. ASSUME NEW m, NEW j, NEW x, Slot(g, m, j, x)
      PROVE  zone2[x] = {k \in zone2[m] : Between(g[m].keys, j, k)}
  <2> PICK s : s = h[p].keys
    OBVIOUS
  <2> PICK u : u = h[c].keys
    OBVIOUS
  <2>1. SameSlots(h, g, p, i, c, neu, q)
    <3>1. SameSlots(h, g, p, i, c, neu, Middle(h[c]))
      BY <1>1, SplitSlots
    <3> QED BY <3>1 DEF IsMiddle
  <2>2. /\ \A n, l, y : Slot(h, n, l, y) =>
             n \in DOMAIN h /\ y \in DOMAIN h /\ l \in Nat /\ l >= 1 /\ rank[y] + 1 = rank[n]
        /\ \A n, l, y, n1, l1 : Slot(h, n, l, y) /\ Slot(h, n1, l1, y) => n = n1 /\ l = l1
    BY SlotFacts
  <2>3. Slot(h, p, i, c)
    OBVIOUS
  <2>4. zone[c] = {k \in zone[p] : Between(s, i, k)} /\ zone2[p] = zone[p] /\ zone[p] \subseteq Int
    BY <1>2, <1>4, <2>3
  <2>5. Widened(s, g[p].keys, i, k0) /\ Headed(u, g[c].keys, q)
        /\ (~h[c].leaf => Tailed(u, g[neu].keys, q + 1))
    BY DEF SplitKeys
  <2>6. \A n, l, y : Slot(h, n, l, y) => (y # c => zone2[y] = zone[y]) /\ (y = c => n = p /\ l = i)
    BY <1>4, <2>2, <2>3
  <2>7. CASE m = p /\ j = i + 1 /\ x = neu
    <3>1. \A k \in zone[p] : Between(g[p].keys, i + 1, k) <=> Between(s, i, k) /\ k0 <= k
      BY <2>4, <2>5 DEF Widened
    <3> QED BY <1>4, <2>4, <2>7, <3>1
  <2>8. ASSUME NEW m1, NEW j1, Moved(p, i, c, neu, q, m, j, m1, j1), Slot(h, m1, j1, x)
        PROVE  zone2[x] = {k \in zone2[m] : Between(g[m].keys, j, k)}
    <3>0. zone[x] = {k \in zone[m1] : Between(h[m1].keys, j1, k)} /\ m1 \in DOMAIN h /\ x \in DOMAIN h
      BY <1>2, <2>2, <2>8
    <3>1. CASE m \notin {p, c, neu} /\ m1 = m /\ j1 = j
      <4>1. x # c
        BY <2>6, <2>8, <3>1
      <4> QED BY <1>3, <1>4, <2>6, <2>8, <3>0, <3>1, <4>1
    <3>2. CASE m = p /\ m1 = p /\ j <= i /\ j1 = j
      <4>1. CASE x = c
        <5>1. j = i
          BY <2>6, <2>8, <3>2, <4>1
        <5>2. \A k \in zone[p] : Between(g[p].keys, i, k) <=> Between(s, i, k) /\ k < k0
          BY <2>4, <2>5 DEF Widened
        <5> QED BY <1>4, <2>4, <3>2, <4>1, <5>1, <5>2
      <4>2. CASE x # c
        <5>1. j \in 1..(i - 1)
          <6>1. j # i
            BY <2>8, <3>2, <4>2 DEF Slot
          <6> QED BY <1>1, <2>2, <2>8, <3>2, <6>1
        <5>2. \A k \in zone[p] : Between(g[p].keys, j, k) <=> Between(s, j, k)
          BY <2>4, <2>5, <5>1 DEF Widened
        <5> QED BY <2>4, <2>6, <2>8, <3>0, <3>2, <4>2, <5>2
      <4> QED BY <4>1, <4>2
    <3>3. CASE m = p /\ m1 = p /\ j > i + 1 /\ j1 = j - 1
      <4>1. j1 \in Nat /\ j1 > i /\ x # c /\ j \in Int
        <5>1. j \in Int
          BY <1>9 DEF Slot
        <5>2. j1 > i /\ j1 \in Nat
          BY <1>1, <2>2, <2>8, <3>3, <5>1
        <5> QED BY <1>1, <2>6, <2>8, <5>1, <5>2
      <4>2. j \in (i + 2)..(Len(s) + 2)
        <5>1. j1 \in 1..Len(h[p].children) /\ Len(h[p].children) = Len(s) + 1
          BY <1>1, <2>8, <3>3 DEF Slot, Linked
        <5>2. Len(s) \in Nat
          BY <1>2 DEF IsRising
        <5> QED BY <1>1, <3>3, <4>1, <5>1, <5>2, SMTT(30)
      <4>3. \A k \in zone[p] : Between(g[p].keys, j, k) <=> Between(s, j - 1, k)
        BY <2>4, <2>5, <4>2 DEF Widened
      <4> QED BY <2>4, <2>6, <2>8, <3>0, <3>3, <4>1, <4>3
    <3>4. CASE m = c /\ m1 = c /\ j <= q + 1 /\ j1 = j
      <4>1. x # c /\ j \in 1..(q + 1) /\ zone[c] \subseteq Int
        BY <1>1, <1>2, <2>2, <2>6, <2>8, <3>4
      <4>2. \A k \in zone[c] : Between(u, j, k) <=> Between(g[c].keys, j, k) /\ k < u[q + 1]
        BY <2>5, <4>1 DEF Headed
      <4> QED BY <1>1, <1>4, <2>6, <2>8, <3>0, <3>4, <4>1, <4>2
    <3>5. CASE m = neu /\ m1 = c /\ j1 = q + 1 + j
      <4>1. x # c /\ zone[c] \subseteq Int
        BY <1>1, <1>2, <2>6, <2>8, <3>5
      <4>2. ~h[c].leaf /\ j1 \in 1..Len(h[c].children) /\ Len(h[c].children) = Len(u) + 1 /\ Len(u) \in Nat
        <5>1. j1 \in 1..Len(h[c].children)
          BY <2>8, <3>5 DEF Slot
        <5>2. Len(<<>>) = 0
          OBVIOUS
        <5>3. ~h[c].leaf
          BY <1>1, <5>1, <5>2 DEF Linked
        <5> QED BY <1>1, <1>2, <5>1, <5>3 DEF Linked, IsRising
      <4>3. j \in 1..(Len(u) - (q + 1) + 1)
        <5>1. j \in Int /\ j >= 1
          <6>1. j \in 1..Len(g[neu].children)
            BY <1>9, <3>5 DEF Slot
          <6> QED BY <6>1
        <5> QED BY <1>1, <3>5, <4>2, <5>1
      <4>4. \A k \in zone[c] : Between(u, q + 1 + j, k) <=> Between(g[neu].keys, j, k) /\ u[q + 1] <= k
        BY <2>5, <4>1, <4>2, <4>3 DEF Tailed
      <4> QED BY <1>1, <1>4, <2>6, <2>8, <3>0, <3>5, <4>1, <4>4
    <3> QED BY <2>8, <3>1, <3>2, <3>3, <3>4, <3>5 DEF Moved
  <2> QED BY <1>9, <2>1, <2>7, <2>8 DEF SameSlots
<1>10. \A n \in DOMAIN g : \A j \in 1..Len(g[n].children) :
         zone2[g[n].children[j]] = {k \in zone2[n] : Between(g[n].keys, j, k)}
  BY <1>9 DEF Slot
<1> QED BY <1>3, <1>4, <1>5, <1>6, <1>7, <1>8, <1>10 DEF Zoned

\* A split keeps leaves apart, and is below the roots.
LEMMA SplitMapped ==
    ASSUME NEW h, NEW r, NEW rank, NEW own, Forest(h, r, rank, own),
           NEW zone, Mapped(h, r, own, zone), NEW g,
           NEW p \in DOMAIN h, NEW i \in 1..Len(h[p].children), NEW neu \in (1..MaxNodes) \ DOMAIN h,
           ~h[p].leaf, NEW c \in DOMAIN h \ {p}, Slot(h, p, i, c), IsFullSplit(h, g, p, i, c, neu),
           NEW k0, k0 = h[c].keys[Middle(h[c]) + 1]
    PROVE  Mapped(g, r, Like(own, neu, c), Divided(zone, c, neu, k0)) /\ k0 \in Int
<1> PICK q : IsMiddle(h[c], q)
  BY DEF IsMiddle
<1> PICK zone2 : zone2 = Divided(zone, c, neu, k0)
  OBVIOUS
<1> PICK own2 : own2 = Like(own, neu, c)
  OBVIOUS
<1>1. Linked(h, rank, own) /\ Zoned(h, zone) /\ neu \notin DOMAIN h
  BY DEF Forest, Mapped
<1>2. SplitKeys(h, g, p, i, c, neu, q, k0)
  <2>1. c = h[p].children[i] /\ q = Middle(h[c]) /\ k0 = h[c].keys[q + 1]
    BY DEF Slot, IsMiddle
  <2> QED BY <1>1, <2>1, SplitKeysFacts
<1>3. IsDivided(zone, zone2, DOMAIN h, c, neu, k0)
  <2> PICK D : D = DOMAIN h
    OBVIOUS
  <2>1. DOMAIN zone = D /\ c \in D /\ neu \notin D
    BY <1>1 DEF Zoned
  <2>2. IsDivided(zone, zone2, D, c, neu, k0)
    BY <2>1, DividedFacts
  <2> QED BY <2>2
<1>4. Zoned(g, zone2)
  BY <1>1, <1>2, <1>3, SplitZoned
<1>5. /\ zone2[c] = {k \in zone[c] : k < k0} /\ zone2[neu] = {k \in zone[c] : k0 <= k}
      /\ \A n \in DOMAIN h \ {c} : zone2[n] = zone[n]
      /\ zone[c] \subseteq Int /\ k0 \in Int
  BY <1>1, <1>2, <1>3 DEF IsDivided, Zoned, SplitKeys
<1>6. own2[neu] = own[c] /\ \A n \in DOMAIN h : own2[n] = own[n]
  <2> PICK D : D = DOMAIN h
    OBVIOUS
  <2>1. DOMAIN own = D /\ c \in D /\ neu \notin D
    BY <1>1 DEF Linked
  <2>2. own2[neu] = own[c] /\ \A n \in D : own2[n] = own[n]
    BY <2>1, LikeFacts
  <2> QED BY <2>2
<1>7. /\ DOMAIN g = DOMAIN h \union {neu} /\ \A m \in DOMAIN h \ {p, c} : g[m] = h[m]
      /\ ~g[p].leaf /\ g[c].leaf = h[c].leaf /\ g[neu].leaf = h[c].leaf
  BY DEF IsFullSplit, IsSplit, Halved, Promoted
<1> PICK o : o = [n \in DOMAIN g |-> IF n = neu THEN c ELSE n]
  OBVIOUS
<1>8. IsOrigin(h, g, own, own2, zone, zone2, o, c, neu)
  <2> SUFFICES ASSUME NEW n \in DOMAIN g, g[n].leaf
               PROVE  \E a \in DOMAIN h : /\ a = IF n = neu THEN c ELSE n
                                          /\ h[a].leaf /\ own[a] = own2[n] /\ zone2[n] \subseteq zone[a]
    BY DEF IsOrigin
  <2>1. CASE n = neu
    BY <1>5, <1>6, <1>7, <2>1
  <2>2. CASE n = c
    BY <1>1, <1>5, <1>6, <1>7, <2>2
  <2>3. CASE n \notin {c, neu}
    BY <1>5, <1>6, <1>7, <2>3
  <2> QED BY <2>1, <2>2, <2>3
<1>9. ASSUME NEW l \in DOMAIN g, NEW m \in DOMAIN g, g[l].leaf, g[m].leaf, own2[l] = own2[m], l # m
      PROVE  zone2[l] \intersect zone2[m] = {}
  <2>1. CASE {l, m} = {c, neu}
    <3>1. zone2[c] \intersect zone2[neu] = {}
      BY <1>5
    <3> QED BY <2>1, <3>1
  <2>2. CASE {l, m} # {c, neu}
    <3>1. o[l] \in DOMAIN h /\ h[o[l]].leaf /\ own[o[l]] = own2[l] /\ zone2[l] \subseteq zone[o[l]]
      BY <1>8, <1>9 DEF IsOrigin
    <3>2. o[m] \in DOMAIN h /\ h[o[m]].leaf /\ own[o[m]] = own2[m] /\ zone2[m] \subseteq zone[o[m]]
      BY <1>8, <1>9 DEF IsOrigin
    <3>3. o[l] # o[m]
      BY <1>9, <2>2
    <3>4. zone[o[l]] \intersect zone[o[m]] = {}
      BY <1>9, <3>1, <3>2, <3>3 DEF Mapped, Apart
    <3> QED BY <3>1, <3>2, <3>4
  <2> QED BY <2>1, <2>2
<1>10. ASSUME NEW t \in Trees, r[t] # Nil PROVE zone2[r[t]] = Int
  <2>1. r[t] \in DOMAIN h /\ own[r[t]] = t /\ zone[r[t]] = Int
    BY <1>10 DEF Forest, Rooted, Mapped, RootZones
  <2>2. r[t] # c
    <3>1. IsChild(h, p, c)
      BY DEF Slot, IsChild
    <3> QED BY <2>1, <3>1 DEF Forest, Rooted
  <2> QED BY <1>5, <2>1, <2>2
<1>11. Chained(g, own2, zone2)
  <2>1. Before(zone2, c, neu)
    <3> PICK Z : Z = zone[c]
      OBVIOUS
    <3>1. zone2[c] = {k \in Z : k < k0} /\ zone2[neu] = {k \in Z : k0 <= k} /\ Z \subseteq Int
      BY <1>5
    <3> QED BY <1>5, <3>1 DEF Before
  <2>2. Chained(h, own, zone)
    BY DEF Mapped
  <2> QED BY <1>8, <2>1, <2>2, SplitChained
<1>12. Apart(g, own2, zone2) /\ RootZones(r, zone2)
  BY <1>9, <1>10 DEF Apart, RootZones
<1> QED BY <1>4, <1>5, <1>11, <1>12 DEF Mapped

\* A tree gets a root, a leaf or a node above its root.
LEMMA NewRootMapped ==
    ASSUME NEW h, NEW r, NEW rank, NEW own, Forest(h, r, rank, own), NEW zone, Mapped(h, r, own, zone),
           NEW t \in Trees, NEW l \in (1..MaxNodes) \ DOMAIN h, NEW node, NEW k,
           IsNewRoot(node, r, rank, t, k), IsRising(node.keys),
           IF node.leaf THEN node.next = Nil ELSE node.values = <<>>
    PROVE  Mapped(With(h, l, node), [r EXCEPT ![t] = l], With(own, l, t), With(zone, l, Int))
<1> PICK g : g = With(h, l, node)
  OBVIOUS
<1> PICK r2 : r2 = [r EXCEPT ![t] = l]
  OBVIOUS
<1> PICK own2 : own2 = With(own, l, t)
  OBVIOUS
<1> PICK zone2 : zone2 = With(zone, l, Int)
  OBVIOUS
<1>1. /\ Linked(h, rank, own) /\ Zoned(h, zone) /\ Apart(h, own, zone) /\ RootZones(r, zone)
      /\ r \in [Trees -> DOMAIN h \union {Nil}] /\ l \notin DOMAIN h
  BY DEF Forest, Mapped, Rooted
<1>2. DOMAIN g = DOMAIN h \union {l} /\ g[l] = node /\ \A n \in DOMAIN h : g[n] = h[n]
  BY <1>1 DEF With
<1>3. own2[l] = t /\ \A n \in DOMAIN h : own2[n] = own[n]
  BY <1>1 DEF With, Linked
<1>4. DOMAIN zone2 = DOMAIN h \union {l} /\ zone2[l] = Int /\ \A n \in DOMAIN h : zone2[n] = zone[n]
  BY <1>1 DEF With, Zoned
<1>5. r2[t] = l /\ \A u \in Trees \ {t} : r2[u] = r[u]
  BY <1>1
<1>6. \A i \in 1..Len(node.keys) : node.keys[i] \in Int
  BY DEF IsRising
<1>7. ASSUME NEW i \in 1..Len(node.children)
      PROVE  zone2[node.children[i]] = {x \in Int : Between(node.keys, i, x)}
  <2>1. Len(<<>>) = 0 /\ Len(<<r[t]>>) = 1 /\ <<r[t]>>[1] = r[t]
    OBVIOUS
  <2>2. node.children = <<r[t]>> /\ Len(node.keys) = 0 /\ r[t] # Nil
    BY <1>7, <2>1 DEF IsNewRoot
  <2>3. i = 1 /\ node.children[i] = r[t] /\ r[t] \in DOMAIN h
    BY <1>1, <2>1, <2>2
  <2>4. zone2[r[t]] = Int
    BY <1>1, <1>4, <2>2, <2>3 DEF RootZones
  <2>5. \A x \in Int : Between(node.keys, 1, x)
    BY <2>2 DEF Between
  <2> QED BY <2>3, <2>4, <2>5
<1>8. Zoned(g, zone2)
  <2>1. \A n \in DOMAIN g : zone2[n] \subseteq Int /\ IsRising(g[n].keys)
    BY <1>1, <1>2, <1>4 DEF Zoned
  <2>2. \A n \in DOMAIN g : \A i \in 1..Len(g[n].keys) : g[n].keys[i] \in zone2[n]
    BY <1>1, <1>2, <1>4, <1>6 DEF Zoned
  <2>3. \A n \in DOMAIN g : ~g[n].leaf => g[n].values = <<>>
    BY <1>1, <1>2 DEF Zoned
  <2>4. ASSUME NEW n \in DOMAIN g, NEW i \in 1..Len(g[n].children)
        PROVE  zone2[g[n].children[i]] = {x \in zone2[n] : Between(g[n].keys, i, x)}
    <3>1. CASE n = l
      BY <1>2, <1>4, <1>7, <3>1
    <3>2. CASE n \in DOMAIN h
      <4>1. h[n].children[i] \in DOMAIN h
        BY <1>1, <1>2, <3>2 DEF Linked
      <4>2. zone[h[n].children[i]] = {x \in zone[n] : Between(h[n].keys, i, x)}
        BY <1>1, <1>2, <3>2 DEF Zoned
      <4> QED BY <1>2, <1>4, <3>2, <4>1, <4>2
    <3> QED BY <1>2, <3>1, <3>2
  <2> QED BY <1>2, <1>4, <2>1, <2>2, <2>3, <2>4 DEF Zoned
<1>9. Apart(g, own2, zone2)
  <2>1. r[t] = Nil => \A n \in DOMAIN h : own[n] # t
    BY SubtreeOwned
  <2>2. node.leaf => r[t] = Nil
    BY DEF IsNewRoot
  <2>3. node.leaf => \A n \in DOMAIN h : own2[n] # own2[l]
    BY <1>3, <2>1, <2>2
  <2>4. \A n, m \in DOMAIN h : h[n].leaf /\ h[m].leaf /\ own[n] = own[m] /\ n # m =>
          zone[n] \intersect zone[m] = {}
    BY <1>1 DEF Apart
  <2> QED BY <1>2, <1>3, <1>4, <2>3, <2>4 DEF Apart
<1>10. RootZones(r2, zone2)
  <2>1. \A u \in Trees \ {t} : r[u] # Nil => r[u] \in DOMAIN h /\ zone[r[u]] = Int
    BY <1>1 DEF RootZones
  <2> QED BY <1>4, <1>5, <2>1 DEF RootZones
<1>11. Chained(g, own2, zone2)
  <2>1. DOMAIN own = DOMAIN h /\ DOMAIN zone = DOMAIN h /\ Chained(h, own, zone)
    BY <1>1 DEF Linked, Zoned, Mapped
  <2>2. node.leaf => node.next = Nil /\ \A n \in DOMAIN h : own[n] # t
    BY SubtreeOwned DEF IsNewRoot
  <2> QED BY <1>1, <2>1, <2>2, NewRootChained
<1> QED BY <1>8, <1>9, <1>10, <1>11 DEF Mapped

\* What stays when a tree is destroyed keeps its zones.
LEMMA RemoveMapped ==
    ASSUME NEW h, NEW r, NEW rank, NEW own, Forest(h, r, rank, own), NEW zone, Mapped(h, r, own, zone),
           NEW t \in Trees, NEW D \in SUBSET DOMAIN h, \A n \in DOMAIN h : n \in D <=> own[n] # t
    PROVE  Mapped(Part(h, D), [r EXCEPT ![t] = Nil], Part(own, D), Part(zone, D))
<1> PICK g : g = Part(h, D)
  OBVIOUS
<1> PICK r2 : r2 = [r EXCEPT ![t] = Nil]
  OBVIOUS
<1> PICK own2 : own2 = Part(own, D)
  OBVIOUS
<1> PICK zone2 : zone2 = Part(zone, D)
  OBVIOUS
<1>1. /\ Linked(h, rank, own) /\ Zoned(h, zone) /\ Apart(h, own, zone) /\ RootZones(r, zone)
      /\ r \in [Trees -> DOMAIN h \union {Nil}] /\ \A u \in Trees : r[u] # Nil => own[r[u]] = u
  BY DEF Forest, Mapped, Rooted
<1>2. /\ DOMAIN g = D /\ DOMAIN zone2 = D
      /\ \A n \in D : n \in DOMAIN h /\ g[n] = h[n] /\ own2[n] = own[n] /\ zone2[n] = zone[n]
  BY DEF Part
<1>3. r2[t] = Nil /\ \A u \in Trees \ {t} : r2[u] = r[u]
  BY <1>1
<1>4. \A n \in D : \A i \in 1..Len(h[n].children) : h[n].children[i] \in D
  <2> SUFFICES ASSUME NEW n \in D, NEW i \in 1..Len(h[n].children) PROVE h[n].children[i] \in D
    OBVIOUS
  <2>1. h[n].children[i] \in DOMAIN h /\ own[h[n].children[i]] = own[n]
    BY <1>1, <1>2 DEF Linked
  <2> QED BY <1>2, <2>1
<1>5. Zoned(g, zone2)
  BY <1>1, <1>2, <1>4 DEF Zoned
<1>6. Apart(g, own2, zone2)
  BY <1>1, <1>2 DEF Apart
<1>7. RootZones(r2, zone2)
  <2>1. ASSUME NEW u \in Trees, r2[u] # Nil PROVE zone2[r2[u]] = Int
    <3>1. u # t /\ r2[u] = r[u]
      BY <1>3, <2>1
    <3>2. r[u] \in DOMAIN h /\ own[r[u]] = u /\ zone[r[u]] = Int
      BY <1>1, <2>1, <3>1 DEF RootZones
    <3> QED BY <1>2, <3>1, <3>2
  <2> QED BY <2>1 DEF RootZones
<1>8. Chained(g, own2, zone2)
  <2>1. DOMAIN own = DOMAIN h /\ DOMAIN zone = DOMAIN h /\ Chained(h, own, zone)
    BY <1>1 DEF Linked, Zoned, Mapped
  <2> QED BY <2>1, RemoveChained
<1> QED BY <1>5, <1>6, <1>7, <1>8 DEF Mapped

\* Nodes that change hands keep their zones.
LEMMA HandMapped ==
    ASSUME NEW h, NEW r, NEW rank, NEW own, Forest(h, r, rank, own), NEW zone, Mapped(h, r, own, zone),
           NEW t \in Trees, NEW from \in Trees, t # from, r[t] = Nil,
           NEW r2, RootHanded(r2, r, t, from)
    PROVE  Mapped(h, r2, Handed(own, t, from), zone)
<1> PICK own2 : own2 = Handed(own, t, from)
  OBVIOUS
<1>1. /\ Linked(h, rank, own) /\ Zoned(h, zone) /\ Apart(h, own, zone) /\ RootZones(r, zone)
      /\ r \in [Trees -> DOMAIN h \union {Nil}] /\ DOMAIN own = DOMAIN h
  BY DEF Forest, Mapped, Rooted, Linked
<1>2. \A n \in DOMAIN h : own2[n] = IF own[n] = from THEN t ELSE own[n]
  BY <1>1 DEF Handed
<1>3. \A n \in DOMAIN h : own[n] # t
  BY SubtreeOwned
<1>4. Apart(h, own2, zone)
  <2>1. \A n, m \in DOMAIN h : own2[n] = own2[m] => own[n] = own[m]
    BY <1>2, <1>3
  <2> QED BY <1>1, <2>1 DEF Apart
<1>5. RootZones(r2, zone)
  <2>1. r2[t] = r[from] /\ r2[from] = Nil /\ \A u \in Trees \ {t, from} : r2[u] = r[u]
    BY <1>1 DEF RootHanded
  <2> QED BY <1>1, <2>1 DEF RootZones
<1>6. Chained(h, own2, zone)
  <2>1. Chained(h, own, zone)
    BY DEF Mapped
  <2> QED BY <1>1, <1>3, <2>1, HandChained
<1> QED BY <1>1, <1>4, <1>5, <1>6 DEF Mapped

\* A copy of a node has the zone of the node.
LEMMA CloneMapped ==
    ASSUME NEW h, NEW r, NEW rank, NEW own, Forest(h, r, rank, own), NEW zone, Mapped(h, r, own, zone),
           NEW t \in Trees, NEW from \in Trees, t # from, r[t] = Nil,
           NEW g, NEW S, NEW F, NEW f, NEW s,
           \A n \in DOMAIN h : n \in S <=> own[n] = from, IsClone(h, g, S, F, f, s),
           \A m \in F : ~g[m].leaf => g[m].values = <<>>, NextsCopied(h, g, F, f, s),
           NEW r2, RootCopied(r2, r, t, from, f)
    PROVE  Mapped(g, r2, CopyOwner(own, F, t), CopyRank(zone, F, s))
<1> PICK own2 : own2 = CopyOwner(own, F, t)
  OBVIOUS
<1> PICK zone2 : zone2 = CopyRank(zone, F, s)
  OBVIOUS
<1>1. /\ Linked(h, rank, own) /\ Zoned(h, zone) /\ Apart(h, own, zone) /\ RootZones(r, zone)
      /\ r \in [Trees -> DOMAIN h \union {Nil}] /\ DOMAIN own = DOMAIN h /\ DOMAIN zone = DOMAIN h
      /\ \A u \in Trees : r[u] # Nil => own[r[u]] = u
  BY DEF Forest, Mapped, Rooted, Linked, Zoned
<1>2. /\ \A n \in S : n \in DOMAIN h /\ f[n] \in F /\ s[f[n]] = n
      /\ \A m \in F : s[m] \in S /\ f[s[m]] = m /\ m \notin DOMAIN h
      /\ DOMAIN g = DOMAIN h \union F
      /\ \A n \in DOMAIN h : g[n] = h[n] /\ n \notin F
      /\ \A m \in F :
           /\ g[m].leaf = h[s[m]].leaf /\ g[m].keys = h[s[m]].keys
           /\ Len(g[m].children) = Len(h[s[m]].children)
           /\ \A j \in 1..Len(h[s[m]].children) : g[m].children[j] = f[h[s[m]].children[j]]
  BY DEF IsClone
<1>3. /\ \A n \in DOMAIN h : own2[n] = own[n] /\ own[n] # t
      /\ \A m \in F : own2[m] = t
  <2>1. \A n \in DOMAIN h : own[n] # t
    BY SubtreeOwned
  <2> QED BY <1>1, <1>2, <2>1 DEF CopyOwner
<1>4. /\ DOMAIN zone2 = DOMAIN h \union F
      /\ \A n \in DOMAIN h : zone2[n] = zone[n]
      /\ \A m \in F : zone2[m] = zone[s[m]]
  BY <1>1, <1>2 DEF CopyRank
<1>5. Zoned(g, zone2)
  <2>1. \A n \in DOMAIN g : zone2[n] \subseteq Int /\ IsRising(g[n].keys)
    BY <1>1, <1>2, <1>4 DEF Zoned
  <2>2. \A n \in DOMAIN g : \A i \in 1..Len(g[n].keys) : g[n].keys[i] \in zone2[n]
    BY <1>1, <1>2, <1>4 DEF Zoned
  <2>3. \A n \in DOMAIN g : ~g[n].leaf => g[n].values = <<>>
    BY <1>1, <1>2 DEF Zoned
  <2>4. ASSUME NEW n \in DOMAIN h, NEW i \in 1..Len(h[n].children)
        PROVE  /\ h[n].children[i] \in DOMAIN h /\ own[h[n].children[i]] = own[n]
               /\ zone[h[n].children[i]] = {x \in zone[n] : Between(h[n].keys, i, x)}
    BY <1>1 DEF Zoned, Linked
  <2>5. ASSUME NEW n \in DOMAIN g, NEW i \in 1..Len(g[n].children)
        PROVE  zone2[g[n].children[i]] = {x \in zone2[n] : Between(g[n].keys, i, x)}
    <3>1. CASE n \in DOMAIN h
      <4>1. g[n] = h[n]
        BY <1>2, <3>1
      <4>2. i \in 1..Len(h[n].children)
        BY <2>5, <4>1
      <4>3. /\ h[n].children[i] \in DOMAIN h
            /\ zone[h[n].children[i]] = {x \in zone[n] : Between(h[n].keys, i, x)}
        BY <2>4, <3>1, <4>2
      <4>4. zone2[h[n].children[i]] = zone[h[n].children[i]] /\ zone2[n] = zone[n]
        BY <1>4, <3>1, <4>3
      <4> QED BY <4>1, <4>3, <4>4
    <3>2. CASE n \in F
      <4> PICK c : c = h[s[n]].children[i]
        OBVIOUS
      <4>1. s[n] \in DOMAIN h /\ i \in 1..Len(h[s[n]].children) /\ own[s[n]] = from /\ g[n].children[i] = f[c]
        BY <1>2, <2>5, <3>2
      <4>2. c \in S /\ zone[c] = {x \in zone[s[n]] : Between(h[s[n]].keys, i, x)}
        BY <2>4, <4>1
      <4>3. zone2[f[c]] = zone[c]
        BY <1>2, <1>4, <4>2
      <4> QED BY <1>2, <1>4, <3>2, <4>1, <4>2, <4>3
    <3> QED BY <1>2, <3>1, <3>2
  <2> QED BY <1>2, <1>4, <2>1, <2>2, <2>3, <2>5 DEF Zoned
<1>6. Apart(g, own2, zone2)
  <2> SUFFICES ASSUME NEW l \in DOMAIN g, NEW m \in DOMAIN g, g[l].leaf, g[m].leaf,
                      own2[l] = own2[m], l # m
               PROVE  zone2[l] \intersect zone2[m] = {}
    BY DEF Apart
  <2>1. CASE l \in DOMAIN h /\ m \in DOMAIN h
    BY <1>1, <1>2, <1>3, <1>4, <2>1 DEF Apart
  <2>2. CASE l \in F /\ m \in F
    <3>1. s[l] \in DOMAIN h /\ s[m] \in DOMAIN h /\ s[l] # s[m] /\ own[s[l]] = own[s[m]]
          /\ h[s[l]].leaf /\ h[s[m]].leaf
      BY <1>2, <2>2
    <3>2. zone[s[l]] \intersect zone[s[m]] = {}
      BY <1>1, <3>1 DEF Apart
    <3> QED BY <1>4, <2>2, <3>2
  <2> QED BY <1>2, <1>3, <2>1, <2>2
<1>7. RootZones(r2, zone2)
  <2>1. r2[t] = (IF r[from] = Nil THEN Nil ELSE f[r[from]]) /\ \A u \in Trees \ {t} : r2[u] = r[u]
    BY <1>1 DEF RootCopied
  <2>2. ASSUME NEW u \in Trees, r2[u] # Nil PROVE zone2[r2[u]] = Int
    <3>1. CASE u = t
      <4>1. r[from] # Nil /\ r2[t] = f[r[from]]
        BY <2>1, <2>2, <3>1
      <4>2. r[from] \in DOMAIN h /\ r[from] \in S /\ zone[r[from]] = Int
        BY <1>1, <4>1 DEF RootZones
      <4> QED BY <1>2, <1>4, <3>1, <4>1, <4>2
    <3>2. CASE u # t
      <4>1. r2[u] = r[u] /\ r[u] \in DOMAIN h /\ zone[r[u]] = Int
        BY <1>1, <2>1, <2>2, <3>2 DEF RootZones
      <4> QED BY <1>4, <4>1
    <3> QED BY <3>1, <3>2
  <2> QED BY <2>2 DEF RootZones
<1>8. Chained(g, own2, zone2)
  <2>1. Chained(h, own, zone) /\ \A n \in DOMAIN h : own[n] # t
    BY <1>3 DEF Mapped
  <2> QED BY <1>1, <2>1, CloneChained
<1> QED BY <1>5, <1>6, <1>7, <1>8 DEF Mapped

-----------------------------------------------------------------------------
(* Where a key belongs                                                     *)

\* As many numbers of a rising sequence are on one side as its first one on the other says.
IsBound(s, b, k) ==
    /\ b \in 0..Len(s)
    /\ \A i \in 1..b : s[i] < k
    /\ \A i \in (b + 1)..Len(s) : k <= s[i]
IsUpperBound(s, b, k) ==
    /\ b \in 0..Len(s)
    /\ \A i \in 1..b : s[i] <= k
    /\ \A i \in (b + 1)..Len(s) : k < s[i]

\* lower_bound and upper_bound on ascending keys.
LEMMA BoundsRising ==
    ASSUME NEW s \in Seq(Keys), IsRising(s), NEW k \in Int
    PROVE  IsBound(s, LowerBound(s, k), k) /\ IsUpperBound(s, UpperBound(s, k), k)
<1> PICK e \in Nat : e = Len(s)
  BY DEF IsRising
<1>1. /\ DOMAIN s = 1..e /\ \A i \in 1..e : s[i] \in Int
      /\ \A i, j \in 1..e : i < j => s[i] < s[j]
  <2>1. DOMAIN s = 1..Len(s)
    BY LenProperties
  <2> QED BY <2>1 DEF IsRising, Rising
<1>2. IsBound(s, LowerBound(s, k), k)
  <2> PICK S \in SUBSET (1..e) : S = {i \in 1..e : s[i] < k}
    OBVIOUS
  <2>1. \A i \in S : \A j \in 1..e : j < i => j \in S
    BY <1>1
  <2>2. Cardinality(S) \in 0..e /\ \A i \in 1..e : i \in S <=> i <= Cardinality(S)
    BY <2>1, LeadingCount
  <2>3. LowerBound(s, k) = Cardinality(S)
    BY <1>1 DEF LowerBound
  <2> PICK b \in 0..e : b = Cardinality(S) /\ b = LowerBound(s, k)
    BY <2>2, <2>3
  <2>4. ASSUME NEW i \in 1..b PROVE s[i] < k
    <3>1. i \in 1..e /\ i <= b
      OBVIOUS
    <3> QED BY <2>2, <3>1
  <2>5. ASSUME NEW i \in (b + 1)..e PROVE k <= s[i]
    <3>1. i \in 1..e /\ ~(i <= b)
      OBVIOUS
    <3>2. i \notin S
      BY <2>2, <3>1
    <3> QED BY <1>1, <3>1, <3>2
  <2> QED BY <2>4, <2>5 DEF IsBound
<1>3. IsUpperBound(s, UpperBound(s, k), k)
  <2> PICK S \in SUBSET (1..e) : S = {i \in 1..e : s[i] <= k}
    OBVIOUS
  <2>1. \A i \in S : \A j \in 1..e : j < i => j \in S
    <3> SUFFICES ASSUME NEW i \in S, NEW j \in 1..e, j < i PROVE s[j] <= k
      OBVIOUS
    <3>1. s[j] < s[i] /\ s[i] <= k /\ s[i] \in Int /\ s[j] \in Int
      BY <1>1
    <3> QED BY <3>1
  <2>2. Cardinality(S) \in 0..e /\ \A i \in 1..e : i \in S <=> i <= Cardinality(S)
    BY <2>1, LeadingCount
  <2>3. UpperBound(s, k) = Cardinality(S)
    BY <1>1 DEF UpperBound
  <2> PICK b \in 0..e : b = Cardinality(S) /\ b = UpperBound(s, k)
    BY <2>2, <2>3
  <2>4. ASSUME NEW i \in 1..b PROVE s[i] <= k
    <3>1. i \in 1..e /\ i <= b
      OBVIOUS
    <3> QED BY <2>2, <3>1
  <2>5. ASSUME NEW i \in (b + 1)..e PROVE k < s[i]
    <3>1. i \in 1..e /\ ~(i <= b)
      OBVIOUS
    <3>2. i \notin S
      BY <2>2, <3>1
    <3> QED BY <1>1, <3>1, <3>2
  <2> QED BY <2>4, <2>5 DEF IsUpperBound
<1> QED BY <1>2, <1>3

\* Descend goes to the child around the key, and a new key is put between its neighbours.
LEMMA BoundsPlace ==
    ASSUME NEW s \in Seq(Keys), IsRising(s), NEW k \in Int
    PROVE  /\ Between(s, UpperBound(s, k) + 1, k)
           /\ LowerBound(s, k) + 1 \in 1..(Len(s) + 1)
           /\ \/ LowerBound(s, k) + 1 <= Len(s) /\ s[LowerBound(s, k) + 1] = k
              \/ /\ Inside(s, LowerBound(s, k) + 1, k) /\ \A i \in 1..Len(s) : s[i] # k
<1> PICK e \in Nat : e = Len(s)
  BY DEF IsRising
<1>1. /\ \A i \in 1..e : s[i] \in Int
      /\ \A i, j \in 1..e : i < j => s[i] < s[j]
  BY DEF IsRising, Rising
<1>2. Between(s, UpperBound(s, k) + 1, k)
  <2> PICK b \in 0..e : b = UpperBound(s, k) /\ IsUpperBound(s, b, k)
    BY BoundsRising DEF IsUpperBound
  <2>1. b + 1 > 1 => b \in 1..b /\ (b + 1) - 1 = b
    OBVIOUS
  <2>2. b + 1 <= e => b + 1 \in (b + 1)..e
    OBVIOUS
  <2>3. Between(s, b + 1, k)
    BY <2>1, <2>2 DEF IsUpperBound, Between
  <2> QED BY <2>3
<1>3. PICK b \in 0..e : b = LowerBound(s, k) /\ IsBound(s, b, k)
  BY BoundsRising DEF IsBound
<1>4. /\ \A i \in 1..b : s[i] < k /\ i \in 1..e
      /\ \A i \in (b + 1)..e : k <= s[i]
  BY <1>3 DEF IsBound
<1>5. CASE b + 1 <= e /\ s[b + 1] = k
  BY <1>2, <1>3, <1>5
<1>6. CASE ~(b + 1 <= e /\ s[b + 1] = k)
  <2>1. b + 1 <= e => k < s[b + 1] /\ b + 1 \in 1..e
    <3>1. b + 1 <= e => b + 1 \in (b + 1)..e /\ b + 1 \in 1..e
      OBVIOUS
    <3> QED BY <1>1, <1>4, <1>6, <3>1
  <2>2. b + 1 > 1 => b \in 1..b /\ (b + 1) - 1 = b
    OBVIOUS
  <2>3. Inside(s, b + 1, k)
    BY <1>4, <2>1, <2>2 DEF Inside
  <2>4. ASSUME NEW i \in 1..e PROVE s[i] # k
    <3>1. CASE i <= b
      <4>1. i \in 1..b
        BY <3>1
      <4>2. s[i] < k /\ s[i] \in Int
        BY <1>1, <1>4, <4>1
      <4> QED BY <4>2
    <3>2. CASE i > b
      <4>1. b + 1 \in 1..e /\ (i = b + 1 \/ b + 1 < i)
        BY <3>2
      <4>2. k < s[b + 1] /\ s[b + 1] \in Int /\ s[i] \in Int
        BY <1>1, <2>1, <4>1
      <4>3. i = b + 1 \/ s[b + 1] < s[i]
        BY <1>1, <4>1
      <4> QED BY <4>2, <4>3
    <3> QED BY <3>1, <3>2
  <2> QED BY <1>2, <1>3, <2>3, <2>4
<1> QED BY <1>3, <1>5, <1>6

-----------------------------------------------------------------------------
(* The leaves from left to right                                           *)

\* Leaves of tree t in the order of their zones, which are the parts of the numbers Z.
Row(h, own, zone, s, t, Z) ==
    /\ s \in Seq(DOMAIN h)
    /\ \A i \in 1..Len(s) : h[s[i]].leaf /\ own[s[i]] = t /\ zone[s[i]] \subseteq Z
    /\ \A i, j \in 1..Len(s) : i < j => Before(zone, s[i], s[j])
    /\ \A k \in Z : \E i \in 1..Len(s) : k \in zone[s[i]]

\* Two rows, one behind the other.
LEMMA RowConcat ==
    ASSUME NEW h, NEW own, NEW zone, NEW t, NEW s1, NEW s2, NEW Z1, NEW Z2,
           Row(h, own, zone, s1, t, Z1), Row(h, own, zone, s2, t, Z2), \A a \in Z1, b \in Z2 : a < b
    PROVE  Row(h, own, zone, s1 \o s2, t, Z1 \union Z2)
<1> PICK s : s = s1 \o s2
  OBVIOUS
<1> PICK D : D = DOMAIN h
  OBVIOUS
<1>1. s1 \in Seq(D) /\ s2 \in Seq(D)
  BY DEF Row
<1>2. /\ s \in Seq(D) /\ Len(s) = Len(s1) + Len(s2) /\ Len(s1) \in Nat /\ Len(s2) \in Nat
      /\ \A i \in 1..Len(s1) : s[i] = s1[i]
      /\ \A i \in 1..Len(s2) : s[Len(s1) + i] = s2[i]
  BY <1>1
<1>3. ASSUME NEW i \in 1..Len(s)
      PROVE  \/ i \in 1..Len(s1) /\ s[i] = s1[i]
             \/ i - Len(s1) \in 1..Len(s2) /\ s[i] = s2[i - Len(s1)]
  <2>1. i \in 1..Len(s1) \/ i - Len(s1) \in 1..Len(s2)
    BY <1>2
  <2>2. i - Len(s1) \in 1..Len(s2) => s[Len(s1) + (i - Len(s1))] = s2[i - Len(s1)]
    BY <1>2
  <2>3. Len(s1) + (i - Len(s1)) = i
    BY <1>2
  <2> QED BY <1>2, <2>1, <2>2, <2>3
<1>4. \A i \in 1..Len(s1) : h[s1[i]].leaf /\ own[s1[i]] = t /\ zone[s1[i]] \subseteq Z1
  BY DEF Row
<1>5. \A i \in 1..Len(s2) : h[s2[i]].leaf /\ own[s2[i]] = t /\ zone[s2[i]] \subseteq Z2
  BY DEF Row
<1>6. \A i \in 1..Len(s) : h[s[i]].leaf /\ own[s[i]] = t /\ zone[s[i]] \subseteq Z1 \union Z2
  BY <1>3, <1>4, <1>5
<1>7. ASSUME NEW i \in 1..Len(s), NEW j \in 1..Len(s), i < j PROVE Before(zone, s[i], s[j])
  <2>1. CASE j \in 1..Len(s1)
    <3>1. i \in 1..Len(s1)
      BY <1>2, <1>7, <2>1
    <3>2. Before(zone, s1[i], s1[j])
      BY <1>7, <2>1, <3>1 DEF Row
    <3> QED BY <1>2, <2>1, <3>1, <3>2
  <2>2. CASE i \in 1..Len(s1) /\ j \notin 1..Len(s1)
    <3>1. s[i] = s1[i] /\ zone[s1[i]] \subseteq Z1
      BY <1>2, <1>4, <2>2
    <3>2. zone[s[j]] \subseteq Z2
      BY <1>3, <1>5, <2>2
    <3> QED BY <3>1, <3>2 DEF Before
  <2>3. CASE i \notin 1..Len(s1)
    <3>1. /\ i - Len(s1) \in 1..Len(s2) /\ s[i] = s2[i - Len(s1)]
          /\ j - Len(s1) \in 1..Len(s2) /\ s[j] = s2[j - Len(s1)] /\ i - Len(s1) < j - Len(s1)
      BY <1>2, <1>3, <1>7, <2>3
    <3>2. Before(zone, s2[i - Len(s1)], s2[j - Len(s1)])
      BY <3>1 DEF Row
    <3> QED BY <3>1, <3>2
  <2> QED BY <2>1, <2>2, <2>3
<1>8. ASSUME NEW k \in Z1 \union Z2 PROVE \E i \in 1..Len(s) : k \in zone[s[i]]
  <2>1. CASE k \in Z1
    <3>1. PICK i \in 1..Len(s1) : k \in zone[s1[i]]
      BY <2>1 DEF Row
    <3>2. i \in 1..Len(s) /\ s[i] = s1[i]
      BY <1>2
    <3> QED BY <3>1, <3>2
  <2>2. CASE k \in Z2
    <3>1. PICK i \in 1..Len(s2) : k \in zone[s2[i]]
      BY <2>2 DEF Row
    <3>2. Len(s1) + i \in 1..Len(s) /\ s[Len(s1) + i] = s2[i]
      BY <1>2
    <3> QED BY <3>1, <3>2
  <2> QED BY <2>1, <2>2
<1> QED BY <1>2, <1>6, <1>7, <1>8 DEF Row

\* One leaf is a row.
LEMMA RowLeaf ==
    ASSUME NEW h, NEW own, NEW zone, NEW n \in DOMAIN h, h[n].leaf
    PROVE  Row(h, own, zone, <<n>>, own[n], zone[n])
BY DEF Row

\* The first i children's part of the numbers Z.
Upto(Z, keys, i) == {k \in Z : \E j \in 1..i : Between(keys, j, k)}

\* The parts of c children are in their order, and all of Z together.
AreParts(Z, keys, c) ==
    /\ Upto(Z, keys, 1) = {k \in Z : Between(keys, 1, k)}
    /\ \A i \in 2..c :
         /\ Upto(Z, keys, i) = Upto(Z, keys, i - 1) \union {k \in Z : Between(keys, i, k)}
         /\ \A a \in Upto(Z, keys, i - 1), b \in {k \in Z : Between(keys, i, k)} : a < b
    /\ Upto(Z, keys, c) = Z

\* The keys of a node divide its zone.
LEMMA UptoFacts ==
    ASSUME NEW keys \in Seq(Keys), IsRising(keys), NEW Z \in SUBSET Int, NEW c, c = Len(keys) + 1
    PROVE  AreParts(Z, keys, c)
<1>0. PICK e \in Nat : e = Len(keys) /\ c = e + 1
  OBVIOUS
<1>1. \A i \in 1..e : keys[i] \in Int
  BY <1>0 DEF IsRising
<1>2. Upto(Z, keys, 1) = {k \in Z : Between(keys, 1, k)}
  BY DEF Upto
<1>3. ASSUME NEW i \in 2..(e + 1)
      PROVE  /\ Upto(Z, keys, i) = Upto(Z, keys, i - 1) \union {k \in Z : Between(keys, i, k)}
             /\ \A a \in Upto(Z, keys, i - 1), b \in {k \in Z : Between(keys, i, k)} : a < b
  <2>1. 1..i = 1..(i - 1) \union {i}
    OBVIOUS
  <2>2. Upto(Z, keys, i) = Upto(Z, keys, i - 1) \union {k \in Z : Between(keys, i, k)}
    BY <2>1 DEF Upto
  <2>3. ASSUME NEW a \in Upto(Z, keys, i - 1), NEW b \in Z, Between(keys, i, b) PROVE a < b
    <3>1. PICK j \in 1..(i - 1) : Between(keys, j, a)
      BY DEF Upto
    <3>2. j \in 1..e /\ i - 1 \in 1..e /\ (j < i - 1 \/ j = i - 1)
      OBVIOUS
    <3>3. keys[j] \in Int /\ keys[i - 1] \in Int /\ a \in Int /\ b \in Int
      BY <1>1, <3>2 DEF Upto
    <3>4. a < keys[j] /\ keys[i - 1] <= b
      BY <1>0, <2>3, <3>1, <3>2 DEF Between
    <3>5. j < i - 1 => keys[j] < keys[i - 1]
      BY <1>0, <3>2 DEF IsRising, Rising
    <3>6. keys[j] <= keys[i - 1]
      BY <3>2, <3>3, <3>5
    <3> QED BY <3>3, <3>4, <3>6
  <2> QED BY <2>2, <2>3
<1>4. ASSUME NEW k \in Z PROVE \E j \in 1..(e + 1) : Between(keys, j, k)
  <2>1. Between(keys, UpperBound(keys, k) + 1, k) /\ UpperBound(keys, k) \in 0..e
    BY <1>0, BoundsPlace, BoundsRising DEF IsUpperBound
  <2> QED BY <2>1
<1>5. Upto(Z, keys, e + 1) = Z
  BY <1>4 DEF Upto
<1> QED BY <1>0, <1>2, <1>3, <1>5 DEF AreParts

\* Node n with c children, whose leaves are the sequences of f.
RowsOf(h, own, zone, n, keys, c, f) ==
    /\ n \in DOMAIN h /\ keys \in Seq(Keys) /\ IsRising(keys) /\ zone[n] \subseteq Int
    /\ c = Len(keys) + 1 /\ f \in [1..c -> Seq(DOMAIN h)]
    /\ \A i \in 1..c : Row(h, own, zone, f[i], own[n], {k \in zone[n] : Between(keys, i, k)})

\* The rows of the children are one.
LEMMA RowFlat ==
    ASSUME NEW h, NEW own, NEW zone, NEW n, NEW keys, NEW c, NEW f, RowsOf(h, own, zone, n, keys, c, f)
    PROVE  Row(h, own, zone, FlattenSeq(f), own[n], zone[n])
<1> PICK D : D = DOMAIN h
  OBVIOUS
<1> PICK Z : Z = zone[n]
  OBVIOUS
<1> PICK t : t = own[n]
  OBVIOUS
<1>0. /\ keys \in Seq(Keys) /\ IsRising(keys) /\ Z \in SUBSET Int /\ c = Len(keys) + 1
      /\ f \in [1..c -> Seq(D)]
      /\ \A i \in 1..c : Row(h, own, zone, f[i], t, {k \in Z : Between(keys, i, k)})
  BY DEF RowsOf
<1>1. c \in Nat \ {0} /\ 1 \in 1..c
  BY <1>0
<1>2. PICK F : IsFlat(F, f, c, D) /\ FlattenSeq(f) = F[c]
  BY <1>0, <1>1, FlatSteps, ZenonT(40)
<1>3. AreParts(Z, keys, c)
  BY <1>0, UptoFacts
<1> DEFINE Good == {i \in Nat : i \in 1..c => Row(h, own, zone, F[i], t, Upto(Z, keys, i))}
<1>4. 0 \in Good
  OBVIOUS
<1>5. ASSUME NEW i \in Nat, i \in Good PROVE i + 1 \in Good
  <2> SUFFICES ASSUME i + 1 \in 1..c PROVE Row(h, own, zone, F[i + 1], t, Upto(Z, keys, i + 1))
    OBVIOUS
  <2> PICK B : B = {k \in Z : Between(keys, i + 1, k)}
    OBVIOUS
  <2>1. Row(h, own, zone, f[i + 1], t, B)
    BY <1>0
  <2>2. CASE i = 0
    <3>1. F[i + 1] = f[i + 1] /\ Upto(Z, keys, i + 1) = B
      BY <1>2, <1>3, <2>2 DEF IsFlat, AreParts
    <3> QED BY <2>1, <3>1
  <2>3. CASE i # 0
    <3>1. i \in 1..c /\ i + 1 \in 2..c /\ (i + 1) - 1 = i
      BY <1>1, <2>3
    <3>2. F[i + 1] = F[i] \o f[i + 1]
      BY <1>2, <3>1 DEF IsFlat
    <3>3. /\ Upto(Z, keys, i + 1) = Upto(Z, keys, i) \union B
          /\ \A a \in Upto(Z, keys, i), b \in B : a < b
      BY <1>3, <3>1 DEF AreParts
    <3>4. Row(h, own, zone, F[i], t, Upto(Z, keys, i))
      BY <1>5, <3>1
    <3>5. Row(h, own, zone, F[i] \o f[i + 1], t, Upto(Z, keys, i) \union B)
      BY <2>1, <3>3, <3>4, RowConcat
    <3> QED BY <3>2, <3>3, <3>5
  <2> QED BY <2>2, <2>3
<1>6. c \in Good
  <2> HIDE DEF Good
  <2> QED BY <1>1, <1>4, <1>5, NaturalInduction
<1> QED BY <1>1, <1>2, <1>3, <1>6 DEF AreParts

\* The leaves below a node are those below its children.
LEMMA LeavesStep ==
    ASSUME NEW h, NEW rank, NEW own, Linked(h, rank, own)
    PROVE  /\ Leaves(h, Nil) = <<>>
           /\ \A n \in DOMAIN h :
                /\ Leaves(h, n) \in Seq(DOMAIN h)
                /\ Leaves(h, n) = IF h[n].leaf THEN <<n>>
                     ELSE FlattenSeq([i \in DOMAIN h[n].children |-> Leaves(h, h[n].children[i])])
<1> DEFINE D == DOMAIN h
           B == Seq(D)
           Below(m, f) == IF h[m].leaf THEN <<m>>
                          ELSE FlattenSeq([i \in DOMAIN h[m].children |-> f[h[m].children[i]]])
           step == [p \in D \X [D -> B] |-> Below(p[1], p[2])]
           Is(f) == f = [m \in D |-> IF h[m].leaf THEN <<m>>
                          ELSE FlattenSeq([i \in DOMAIN h[m].children |-> f[h[m].children[i]]])]
           G == CHOOSE f : Is(f)
<1>1. IsFiniteSet(D) /\ Nil \notin D
  BY HeapFinite DEF Linked
<1>2. ASSUME NEW m \in D, NEW i \in DOMAIN h[m].children
      PROVE  h[m].children[i] \in D /\ rank[h[m].children[i]] < rank[m]
  BY ChildFacts
<1>3. ASSUME NEW m \in D, NEW f \in [D -> B] PROVE Below(m, f) \in B
  <2>1. CASE h[m].leaf
    BY <2>1
  <2>2. CASE ~h[m].leaf
    <3> PICK c : c = Len(h[m].children)
      OBVIOUS
    <3> PICK s : s = [i \in DOMAIN h[m].children |-> f[h[m].children[i]]]
      OBVIOUS
    <3>1. c \in Nat \ {0} /\ DOMAIN h[m].children = 1..c
      <4>1. Len(h[m].children) = Len(h[m].keys) + 1 /\ Len(h[m].keys) \in Nat
        BY <2>2, ChildFacts DEF Linked
      <4> QED BY <4>1, ChildFacts
    <3>2. s \in [1..c -> Seq(D)]
      BY <1>2, <3>1
    <3>3. FlattenSeq(s) \in Seq(D)
      BY <3>1, <3>2, FlatType
    <3> QED BY <2>2, <3>3
  <2> QED BY <2>1, <2>2
<1>4. step \in [D \X [D -> B] -> B]
  <2> HIDE DEF Below, B
  <2> QED BY <1>3
<1>5. ASSUME NEW m \in D, NEW f \in [D -> B], NEW g \in [D -> B],
             \A x \in D : rank[x] < rank[m] => f[x] = g[x]
      PROVE  step[<<m, f>>] = step[<<m, g>>]
  <2>1. \A i \in DOMAIN h[m].children : f[h[m].children[i]] = g[h[m].children[i]]
    BY <1>2, <1>5
  <2>2. [i \in DOMAIN h[m].children |-> f[h[m].children[i]]] =
          [i \in DOMAIN h[m].children |-> g[h[m].children[i]]]
    BY <2>1
  <2>3. Below(m, f) = Below(m, g)
    BY <2>2
  <2> HIDE DEF Below
  <2>4. step[<<m, f>>] = Below(m, f) /\ step[<<m, g>>] = Below(m, g)
    OBVIOUS
  <2> QED BY <2>3, <2>4
<1>6. \E f : IsRecursive(f, D, B, step)
  <2>1. rank \in [D -> Nat] /\ <<>> \in B
    BY DEF Linked
  <2> HIDE DEF D, B, step
  <2>2. IsRankedStep(step, D, rank, B)
    BY <1>4, <1>5 DEF IsRankedStep
  <2> QED BY <1>1, <2>1, <2>2, RankedRecursion
<1>7. \E f : Is(f) /\ f \in [D -> B]
  <2>1. PICK f \in [D -> B] : \A m \in D : f[m] = step[<<m, f>>]
    BY <1>6 DEF IsRecursive
  <2>2. \A m \in D : step[<<m, f>>] = Below(m, f)
    <3> HIDE DEF Below
    <3> QED OBVIOUS
  <2>3. f = [m \in D |-> Below(m, f)]
    <3> HIDE DEF step, Below
    <3> QED BY <2>1, <2>2
  <2>4. Is(f)
    BY <2>3
  <2> HIDE DEF Is
  <2> QED BY <2>4
<1>8. Is(G)
  <2> HIDE DEF Is
  <2> QED BY <1>7
<1>9. \A n : Leaves(h, n) = IF n = Nil THEN <<>> ELSE G[n]
  BY DEF Leaves
<1> HIDE DEF G
<1>10. \A n \in D : G[n] = Below(n, G)
  BY <1>8
<1>11. \A n \in D : Leaves(h, n) = IF h[n].leaf THEN <<n>>
                     ELSE FlattenSeq([i \in DOMAIN h[n].children |-> Leaves(h, h[n].children[i])])
  <2> SUFFICES ASSUME NEW n \in D
               PROVE  Leaves(h, n) = IF h[n].leaf THEN <<n>>
                        ELSE FlattenSeq([i \in DOMAIN h[n].children |-> Leaves(h, h[n].children[i])])
    OBVIOUS
  <2>1. \A i \in DOMAIN h[n].children : Leaves(h, h[n].children[i]) = G[h[n].children[i]]
    BY <1>1, <1>2, <1>9
  <2>2. [i \in DOMAIN h[n].children |-> Leaves(h, h[n].children[i])] =
          [i \in DOMAIN h[n].children |-> G[h[n].children[i]]]
    BY <2>1
  <2>3. Leaves(h, n) = G[n]
    BY <1>1, <1>9
  <2> QED BY <1>10, <2>2, <2>3
<1>12. D \subseteq {n \in D : G[n] \in B}
  <2> DEFINE Good == {n \in D : G[n] \in B}
             H == [n \in D |-> IF G[n] \in B THEN G[n] ELSE <<>>]
  <2>0. <<>> \in B
    OBVIOUS
  <2>1. H \in [D -> B]
    <3> HIDE DEF B
    <3> QED BY <2>0
  <2>2. ASSUME NEW m \in D, \A x \in D : rank[x] < rank[m] => x \in Good PROVE m \in Good
    <3>1. \A i \in DOMAIN h[m].children : H[h[m].children[i]] = G[h[m].children[i]]
      BY <1>2, <2>2
    <3>2. [i \in DOMAIN h[m].children |-> H[h[m].children[i]]] =
            [i \in DOMAIN h[m].children |-> G[h[m].children[i]]]
      BY <3>1
    <3>3. Below(m, G) = Below(m, H)
      BY <3>2
    <3>4. Below(m, H) \in B
      <4> HIDE DEF H, Below, B
      <4> QED BY <1>3, <2>1
    <3> QED BY <1>10, <3>3, <3>4
  <2>3. rank \in [D -> Nat]
    BY DEF Linked
  <2> HIDE DEF Good, D
  <2>4. D \subseteq Good
    BY <2>2, <2>3, RankInduction
  <2> QED BY <2>4 DEF Good
<1> QED BY <1>1, <1>9, <1>11, <1>12

\* The leaves below a node are a row.
LEMMA LeavesRow ==
    ASSUME NEW h, NEW rank, NEW own, Linked(h, rank, own), NEW zone, Zoned(h, zone)
    PROVE  \A n \in DOMAIN h : Row(h, own, zone, Leaves(h, n), own[n], zone[n])
<1> DEFINE D == DOMAIN h
           Good == {n \in D : Row(h, own, zone, Leaves(h, n), own[n], zone[n])}
<1>1. ASSUME NEW n \in D, \A x \in D : rank[x] < rank[n] => x \in Good PROVE n \in Good
  <2>1. CASE h[n].leaf
    <3>1. Leaves(h, n) = <<n>>
      BY <2>1, LeavesStep
    <3> QED BY <2>1, <3>1, RowLeaf
  <2>2. CASE ~h[n].leaf
    <3> PICK keys : keys = h[n].keys
      OBVIOUS
    <3>0. PICK c : c = Len(keys) + 1
      OBVIOUS
    <3> PICK f : f = [i \in DOMAIN h[n].children |-> Leaves(h, h[n].children[i])]
      OBVIOUS
    <3>1. /\ keys \in Seq(Keys) /\ IsRising(keys) /\ zone[n] \subseteq Int /\ c \in Nat
          /\ DOMAIN h[n].children = 1..c
      <4>1. h[n].keys \in Seq(Keys) /\ DOMAIN h[n].children = 1..Len(h[n].children)
        BY ChildFacts
      <4>2. Len(h[n].children) = Len(h[n].keys) + 1
        BY <2>2 DEF Linked
      <4> QED BY <3>0, <4>1, <4>2 DEF Zoned
    <3>2. ASSUME NEW i \in 1..c
          PROVE  /\ f[i] = Leaves(h, h[n].children[i]) /\ f[i] \in Seq(DOMAIN h)
                 /\ Row(h, own, zone, f[i], own[n], {k \in zone[n] : Between(keys, i, k)})
      <4> PICK m : m = h[n].children[i]
        OBVIOUS
      <4>1. m \in D /\ rank[m] < rank[n] /\ own[m] = own[n]
        BY <3>1, ChildFacts DEF Linked
      <4>2. zone[m] = {k \in zone[n] : Between(keys, i, k)}
        BY <3>1 DEF Zoned
      <4>3. Row(h, own, zone, Leaves(h, m), own[m], zone[m])
        BY <1>1, <4>1
      <4>4. f[i] = Leaves(h, m)
        BY <3>1
      <4>5. f[i] \in Seq(DOMAIN h)
        BY <4>3, <4>4 DEF Row
      <4> QED BY <4>1, <4>2, <4>3, <4>4, <4>5
    <3>3. f \in [1..c -> Seq(DOMAIN h)]
      BY <3>1, <3>2
    <3>6. RowsOf(h, own, zone, n, keys, c, f)
      BY <3>0, <3>1, <3>2, <3>3 DEF RowsOf
    <3>4. Row(h, own, zone, FlattenSeq(f), own[n], zone[n])
      BY <3>6, RowFlat
    <3>5. Leaves(h, n) = FlattenSeq(f)
      BY <2>2, LeavesStep
    <3> QED BY <3>4, <3>5
  <2> QED BY <2>1, <2>2
<1>2. rank \in [D -> Nat]
  BY DEF Linked
<1> HIDE DEF Good, D
<1>3. D \subseteq Good
  BY <1>1, <1>2, RankInduction
<1> QED BY <1>3 DEF Good, D

\* No key of a leaf is out of its zone, so no leaf's zone is empty.
LEMMA ZonesTaken ==
    ASSUME NEW h, NEW r, NEW rank, NEW own, Held(h, r, rank, own), NEW zone, Zoned(h, zone)
    PROVE  \A n \in DOMAIN h : zone[n] # {} /\ zone[n] \subseteq Int
<1> SUFFICES ASSUME NEW n \in DOMAIN h PROVE zone[n] # {} /\ zone[n] \subseteq Int
  OBVIOUS
<1>1. Len(h[n].keys) >= 1 /\ Len(h[n].keys) \in Nat
  BY ChildFacts DEF Held, Forest, Occupied, Fits
<1>2. h[n].keys[1] \in zone[n]
  BY <1>1 DEF Zoned
<1> QED BY <1>2 DEF Zoned

\* Row s has every leaf of the tree, at one place, and the places are in the order
\* of the zones.
IsRow(h, own, zone, s, t) ==
    /\ s \in Seq(DOMAIN h) /\ DOMAIN s = 1..Len(s) /\ Len(s) \in Nat
    /\ \A i \in 1..Len(s) : h[s[i]].leaf /\ own[s[i]] = t
    /\ \A x \in DOMAIN h : h[x].leaf /\ own[x] = t => \E i \in 1..Len(s) : s[i] = x
    /\ \A i, j \in 1..Len(s) : Before(zone, s[i], s[j]) <=> i < j

\* The leaves of a tree are such a row.
LEMMA TreeRow ==
    ASSUME NEW h, NEW r, NEW rank, NEW own, Held(h, r, rank, own), NEW zone, Mapped(h, r, own, zone),
           NEW t \in Trees, r[t] # Nil
    PROVE  IsRow(h, own, zone, Leaves(h, r[t]), t)
<1> PICK s : s = Leaves(h, r[t])
  OBVIOUS
<1>1. r[t] \in DOMAIN h /\ own[r[t]] = t /\ zone[r[t]] = Int
  BY DEF Held, Forest, Rooted, Mapped, RootZones
<1>2. Row(h, own, zone, s, t, Int)
  <2>1. Linked(h, rank, own) /\ Zoned(h, zone)
    BY DEF Held, Forest, Mapped
  <2>2. Row(h, own, zone, Leaves(h, r[t]), own[r[t]], zone[r[t]])
    BY <1>1, <2>1, LeavesRow
  <2> QED BY <1>1, <2>2
<1>3. \A n \in DOMAIN h : zone[n] # {} /\ zone[n] \subseteq Int
  BY ZonesTaken DEF Mapped
<1>4. s \in Seq(DOMAIN h) /\ DOMAIN s = 1..Len(s) /\ Len(s) \in Nat
  BY <1>2 DEF Row
<1>5. \A i \in 1..Len(s) : s[i] \in DOMAIN h /\ h[s[i]].leaf /\ own[s[i]] = t
  <2>1. \A i \in 1..Len(s) : h[s[i]].leaf /\ own[s[i]] = t
    BY <1>2 DEF Row
  <2>2. \A i \in 1..Len(s) : s[i] \in DOMAIN h
    BY <1>4
  <2> QED BY <2>1, <2>2
<1>6. ASSUME NEW x \in DOMAIN h, h[x].leaf, own[x] = t PROVE \E i \in 1..Len(s) : s[i] = x
  <2>1. PICK k : k \in zone[x] /\ k \in Int
    BY <1>3
  <2>2. PICK i \in 1..Len(s) : k \in zone[s[i]]
    BY <1>2, <2>1 DEF Row
  <2>3. s[i] = x
    BY <1>5, <1>6, <2>1, <2>2 DEF Mapped, Apart
  <2> QED BY <2>3
<1>7. ASSUME NEW i \in 1..Len(s), NEW j \in 1..Len(s) PROVE Before(zone, s[i], s[j]) <=> i < j
  <2>1. \A a, b \in 1..Len(s) : a < b => Before(zone, s[a], s[b])
    BY <1>2 DEF Row
  <2>2. PICK x \in Int, y \in Int : x \in zone[s[i]] /\ y \in zone[s[j]]
    BY <1>3, <1>5
  <2>3. Before(zone, s[i], s[j]) => x < y
    BY <2>2 DEF Before
  <2>4. j < i => y < x
    BY <2>1, <2>2 DEF Before
  <2>5. j = i => ~Before(zone, s[i], s[j])
    BY <2>2 DEF Before
  <2> QED BY <1>4, <2>1, <2>2, <2>3, <2>4, <2>5
<1> QED BY <1>4, <1>5, <1>6, <1>7 DEF IsRow

\* n is what comes behind place i of s, or none.
IsBehind(s, i, n) == n = IF i = Len(s) THEN Nil ELSE s[i + 1]

\* The next leaf of the chain is the next one of the row.
LEMMA RowNext ==
    ASSUME NEW h, NEW own, NEW zone, NEW s, NEW t, IsRow(h, own, zone, s, t), NEW i \in 1..Len(s),
           NEW n, Follows(h, own, zone, s[i], n)
    PROVE  IsBehind(s, i, n)
<1> USE DEF IsBehind
<1>1. /\ s \in Seq(DOMAIN h) /\ DOMAIN s = 1..Len(s) /\ Len(s) \in Nat
      /\ \A j \in 1..Len(s) : s[j] \in DOMAIN h /\ h[s[j]].leaf /\ own[s[j]] = t
      /\ \A x \in DOMAIN h : h[x].leaf /\ own[x] = t => \E j \in 1..Len(s) : s[j] = x
      /\ \A j, k \in 1..Len(s) : Before(zone, s[j], s[k]) <=> j < k
  BY DEF IsRow
<1>2. ASSUME n # Nil PROVE \E j \in 1..Len(s) : s[j] = n /\ i < j
  <2>1. n \in DOMAIN h /\ h[n].leaf /\ own[n] = t /\ Before(zone, s[i], n)
    BY <1>1, <1>2 DEF Follows
  <2>2. PICK j \in 1..Len(s) : s[j] = n
    BY <1>1, <2>1
  <2> QED BY <1>1, <2>1, <2>2
<1>3. CASE i = Len(s)
  <2>1. \A j \in 1..Len(s) : ~(i < j)
    BY <1>1, <1>3
  <2> QED BY <1>2, <1>3, <2>1
<1>4. CASE i # Len(s)
  <2>0. PICK j : j = i + 1
    OBVIOUS
  <2>1. j \in 1..Len(s) /\ i < j /\ ~(j < i) /\ \A k \in 1..Len(s) : i < k => ~(k < j)
    <3>1. PICK e \in Nat : e = Len(s)
      BY <1>1
    <3>2. i \in 1..e /\ i # e
      BY <1>4, <3>1
    <3>3. i + 1 \in 1..e /\ i < i + 1 /\ ~(i + 1 < i) /\ \A k \in 1..e : i < k => ~(k < i + 1)
      BY <3>2
    <3> QED BY <2>0, <3>1, <3>3, SMTT(30)
  <2>2. Before(zone, s[i], s[j]) /\ ~Before(zone, s[j], s[i])
    BY <1>1, <2>1
  <2>3. s[j] # s[i]
    BY <2>2
  <2>4. n # Nil /\ (s[j] = n \/ Before(zone, n, s[j]))
    BY <1>1, <2>1, <2>2, <2>3 DEF Follows
  <2>5. PICK k \in 1..Len(s) : s[k] = n /\ i < k
    BY <1>2, <2>4
  <2>6. ~Before(zone, n, s[j])
    BY <1>1, <2>1, <2>5
  <2> QED BY <1>4, <2>0, <2>4, <2>6
<1> QED BY <1>3, <1>4

\* A copied leaf is followed by the copy of the leaf that follows it.
LEMMA NextCopiedFacts ==
    ASSUME NEW rank, NEW own, Held(heap, root, rank, own), NEW zone, Mapped(heap, root, own, zone),
           NEW from \in Trees, NEW l \in DOMAIN heap, heap[l].leaf, own[l] = from,
           NEW new
    PROVE  NextCopied(from, l, new) = IF heap[l].next = Nil THEN Nil ELSE new[heap[l].next]
<1> PICK s : s = Leaves(heap, root[from])
  OBVIOUS
<1>1. root[from] # Nil
  BY SubtreeOwned DEF Held
<1>2. IsRow(heap, own, zone, s, from)
  BY <1>1, TreeRow
<1>3. /\ DOMAIN s = 1..Len(s) /\ Len(s) \in Nat
      /\ \A j \in 1..Len(s) : s[j] \in DOMAIN heap
      /\ \A j, k \in 1..Len(s) : Before(zone, s[j], s[k]) <=> j < k
  BY <1>2 DEF IsRow
<1>4. PICK i \in 1..Len(s) : i = CHOOSE j \in DOMAIN s : s[j] = l
  <2>1. \E j \in DOMAIN s : s[j] = l
    BY <1>2 DEF IsRow
  <2> QED BY <1>3, <2>1
<1>5. s[i] = l
  <2>1. \E j \in DOMAIN s : s[j] = l
    BY <1>2 DEF IsRow
  <2> QED BY <1>4, <2>1
<1> PICK n : n = heap[l].next
  OBVIOUS
<1>6. Follows(heap, own, zone, l, n)
  BY DEF Mapped, Chained
<1>7. IsBehind(s, i, n)
  <2>1. Follows(heap, own, zone, s[i], n)
    BY <1>5, <1>6
  <2> QED BY <1>2, <2>1, RowNext
<1>8. NextCopied(from, l, new) = IF i = Len(s) THEN Nil ELSE new[s[i + 1]]
  BY <1>4 DEF NextCopied
<1>9. i # Len(s) => s[i + 1] # Nil
  <2>1. i # Len(s) => s[i + 1] \in DOMAIN heap
    BY <1>3
  <2>2. Nil \notin DOMAIN heap
    BY HeapFinite DEF Held, Forest, Linked
  <2> QED BY <2>1, <2>2
<1> QED BY <1>7, <1>8, <1>9 DEF IsBehind

-----------------------------------------------------------------------------
(* What is put into a leaf                                                 *)

\* Leaf a with the value of its key k replaced, and with k and v added, at place i.
Replaced(a, b, i, k, v) ==
    /\ i <= Len(a.keys) /\ a.keys[i] = k
    /\ b.keys = a.keys /\ Len(b.values) = Len(a.values)
    /\ \A j \in 1..Len(a.values) : b.values[j] = IF j = i THEN v ELSE a.values[j]
Added(a, b, i, k, v) ==
    /\ ~(i <= Len(a.keys) /\ a.keys[i] = k)
    /\ IsInserted(b.keys, a.keys, i, k, Keys) /\ IsInserted(b.values, a.values, i, v, Values)

IsPut(own, l, a, b, i, k, v) ==
    /\ l \in DOMAIN heap /\ a = heap[l] /\ b = heap'[l] /\ own[l] = call.tree /\ call.tree \in Trees
    /\ a.leaf /\ a.children = <<>> /\ Len(a.values) = Len(a.keys) /\ IsNode(a) /\ ~Full(a)
    /\ k = call.key /\ k \in Keys /\ v \in Values
    /\ i = LowerBound(a.keys, k) + 1 /\ i \in 1..(Len(a.keys) + 1)
    /\ DOMAIN heap' = DOMAIN heap /\ \A m \in DOMAIN heap \ {l} : heap'[m] = heap[m]
    /\ IsNode(b) /\ b.leaf /\ b.children = <<>> /\ b.next = a.next
    /\ \/ Replaced(a, b, i, k, v) /\ size' = size
       \/ Added(a, b, i, k, v) /\ size' = [size EXCEPT ![call.tree] = @ + 1]
    /\ call # Idle /\ call' = Idle /\ root' = root

\* What PutInLeaf does.
LEMMA PutFacts ==
    ASSUME NEW rank, NEW own, Core(heap, root, rank, own, call), PutInLeaf,
           NEW l, l = call.node, NEW n, n = heap[l], NEW b, b = heap'[l], NEW k, k = call.key,
           NEW v, v = call.value, NEW i, i = LowerBound(n.keys, k) + 1
    PROVE  IsPut(own, l, n, b, i, k, v)
<1> PICK g : g = heap'
  OBVIOUS
<1>1. /\ call.tree \in Trees /\ l \in DOMAIN heap /\ k \in Keys /\ v \in Values
      /\ own[l] = call.tree /\ ~Full(n)
  BY CallFacts DEF PutInLeaf
<1>2. Linked(heap, rank, own) /\ HeapType(heap)
  BY DEF Core, Forest, Linked
<1>3. n.leaf /\ n.children = <<>> /\ Len(n.values) = Len(n.keys) /\ IsNode(n)
  BY <1>1, <1>2 DEF PutInLeaf, Linked, HeapType
<1>4. n.keys \in Seq(Keys) /\ n.values \in Seq(Values) /\ Len(n.keys) \in Nat
  BY <1>3 DEF IsNode
<1>5. i \in 1..(Len(n.keys) + 1)
  BY <1>1, <1>4, BoundFacts
<1>6. call # Idle /\ call' = Idle /\ root' = root
  BY DEF PutInLeaf
<1>7. ASSUME DOMAIN g = DOMAIN heap, \A m \in DOMAIN heap \ {l} : g[m] = heap[m],
             IsNode(g[l]), g[l].leaf = n.leaf, g[l].children = n.children, g[l].next = n.next,
             \/ Replaced(n, g[l], i, k, v) /\ size' = size
             \/ Added(n, g[l], i, k, v) /\ size' = [size EXCEPT ![call.tree] = @ + 1]
      PROVE  IsPut(own, l, n, b, i, k, v)
  BY <1>1, <1>3, <1>5, <1>6, <1>7 DEF IsPut
<1>8. CASE i <= Len(n.keys) /\ n.keys[i] = k
  <2>1. g = [heap EXCEPT ![l].values[i] = v] /\ size' = size
    BY <1>8 DEF PutInLeaf, Overwrite
  <2>2. DOMAIN g = DOMAIN heap /\ \A m \in DOMAIN heap \ {l} : g[m] = heap[m]
    BY <2>1
  <2>3. g[l] = [n EXCEPT !.values = [n.values EXCEPT ![i] = v]]
    BY <1>1, <2>1
  <2> PICK w : w = [n.values EXCEPT ![i] = v]
    OBVIOUS
  <2>4. /\ w \in Seq(Values) /\ Len(w) = Len(n.values)
        /\ \A j \in 1..Len(n.values) : w[j] = IF j = i THEN v ELSE n.values[j]
    <3>1. i \in 1..Len(n.values)
      BY <1>3, <1>4, <1>5, <1>8
    <3> QED BY <1>1, <1>4, <3>1, ExceptSeq
  <2>5. /\ IsNode(g[l]) /\ g[l].leaf = n.leaf /\ g[l].children = n.children /\ g[l].next = n.next
        /\ g[l].values = w /\ g[l].keys = n.keys
    BY <1>3, <2>3, <2>4 DEF IsNode
  <2>6. Replaced(n, g[l], i, k, v)
    BY <1>8, <2>4, <2>5 DEF Replaced
  <2> QED BY <1>7, <2>1, <2>2, <2>5, <2>6
<1>9. CASE ~(i <= Len(n.keys) /\ n.keys[i] = k)
  <2> PICK ks : ks = InsertAt(n.keys, i, k)
    OBVIOUS
  <2> PICK vs : vs = InsertAt(n.values, i, v)
    OBVIOUS
  <2>1. /\ g = [heap EXCEPT ![l].keys = InsertAt(@, i, k), ![l].values = InsertAt(@, i, v)]
        /\ size' = [size EXCEPT ![call.tree] = @ + 1]
    BY <1>9 DEF PutInLeaf, AddEntry
  <2>2. DOMAIN g = DOMAIN heap /\ \A m \in DOMAIN heap \ {l} : g[m] = heap[m]
    BY <2>1
  <2>3. g[l] = [n EXCEPT !.keys = ks, !.values = vs]
    BY <1>1, <1>3, <2>1 DEF IsNode
  <2>4. IsInserted(ks, n.keys, i, k, Keys) /\ IsInserted(vs, n.values, i, v, Values)
    <3>1. i \in 1..(Len(n.values) + 1)
      BY <1>3, <1>5
    <3> QED BY <1>1, <1>4, <1>5, <3>1, IsInsertedFacts
  <2>5. /\ IsNode(g[l]) /\ g[l].leaf = n.leaf /\ g[l].children = n.children /\ g[l].next = n.next
        /\ g[l].values = vs /\ g[l].keys = ks
    BY <1>3, <2>3, <2>4, ZenonT(40) DEF IsNode, IsInserted
  <2>6. Added(n, g[l], i, k, v)
    BY <1>9, <2>4, <2>5 DEF Added
  <2> QED BY <1>7, <2>1, <2>2, <2>5, <2>6, Zenon
<1> QED BY <1>8, <1>9

\* The pending call is on the way of its key.
KeyAt(zone, c) == c # Idle => c.key \in zone[c.node]

\* An entry that is put where its key belongs keeps the zones.
LEMMA PutMapped ==
    ASSUME NEW rank, NEW own, Core(heap, root, rank, own, call), NEW zone,
           Mapped(heap, root, own, zone), KeyAt(zone, call), NEW l, l = call.node,
           NEW a, NEW b, NEW i, NEW k, NEW v, IsPut(own, l, a, b, i, k, v)
    PROVE  Mapped(heap', root', own, zone)
<1> PICK h : h = heap
  OBVIOUS
<1> PICK g : g = heap'
  OBVIOUS
<1>1. /\ l \in DOMAIN h /\ a = h[l] /\ b = g[l] /\ a.leaf /\ b.leaf
      /\ a.children = <<>> /\ b.children = <<>> /\ k \in Keys /\ k \in zone[l]
      /\ i = LowerBound(a.keys, k) + 1 /\ a.keys \in Seq(Keys)
      /\ DOMAIN g = DOMAIN h /\ (\A m \in DOMAIN h \ {l} : g[m] = h[m])
      /\ root' = root
      /\ Replaced(a, b, i, k, v) \/ Added(a, b, i, k, v)
  BY DEF IsPut, KeyAt, IsNode
<1>2. Zoned(h, zone) /\ Apart(h, own, zone) /\ RootZones(root, zone)
  BY DEF Mapped
<1>3. IsRising(a.keys) /\ (\A j \in 1..Len(a.keys) : a.keys[j] \in zone[l]) /\ k \in Int
  BY <1>1, <1>2, KeysAssumption DEF Zoned
<1>4. IsRising(b.keys) /\ \A j \in 1..Len(b.keys) : b.keys[j] \in zone[l]
  <2>1. CASE Replaced(a, b, i, k, v)
    BY <1>3, <2>1 DEF Replaced
  <2>2. CASE Added(a, b, i, k, v)
    <3> PICK s : s = a.keys
      OBVIOUS
    <3> PICK s2 : s2 = b.keys
      OBVIOUS
    <3>1. i \in 1..(Len(s) + 1) /\ Inside(s, i, k)
      BY <1>1, <1>3, <2>2, BoundsPlace DEF Added
    <3>2. /\ Len(s2) = Len(s) + 1
          /\ \A j \in 1..(Len(s) + 1) : s2[j] = IF j < i THEN s[j] ELSE IF j = i THEN k ELSE s[j - 1]
      BY <2>2 DEF Added, IsInserted
    <3>3. Widened(s, s2, i, k)
      BY <1>3, <3>1, <3>2, WidenedFacts
    <3> PICK e \in Nat : e = Len(s)
      BY <1>3 DEF IsRising
    <3>4. ASSUME NEW j \in 1..(e + 1) PROVE s2[j] \in zone[l]
      <4>1. i \in 1..(e + 1)
        BY <3>1
      <4>2. j < i => j \in 1..e /\ s2[j] = s[j]
        BY <3>2, <4>1
      <4>3. j = i => s2[j] = k
        BY <3>2
      <4>4. j > i => j - 1 \in 1..e /\ s2[j] = s[j - 1]
        BY <3>2, <4>1
      <4>5. j < i \/ j = i \/ j > i
        BY <4>1
      <4> QED BY <1>1, <1>3, <4>2, <4>3, <4>4, <4>5
    <3> QED BY <3>2, <3>3, <3>4 DEF Widened
  <2> QED BY <1>1, <2>1, <2>2
<1>5. Zoned(g, zone)
  <2>1. \A n \in DOMAIN g : zone[n] \subseteq Int /\ IsRising(g[n].keys)
    BY <1>1, <1>2, <1>4 DEF Zoned
  <2>2. \A n \in DOMAIN g : \A j \in 1..Len(g[n].keys) : g[n].keys[j] \in zone[n]
    BY <1>1, <1>2, <1>4 DEF Zoned
  <2>3. \A n \in DOMAIN g : ~g[n].leaf => g[n].values = <<>>
    BY <1>1, <1>2 DEF Zoned
  <2>4. ASSUME NEW n \in DOMAIN g, NEW j \in 1..Len(g[n].children)
        PROVE  zone[g[n].children[j]] = {x \in zone[n] : Between(g[n].keys, j, x)}
    <3>1. n # l
      <4>1. Len(<<>>) = 0
        OBVIOUS
      <4> QED BY <1>1, <2>4, <4>1
    <3>2. g[n] = h[n] /\ n \in DOMAIN h
      BY <1>1, <3>1
    <3> QED BY <1>2, <2>4, <3>2 DEF Zoned
  <2> QED BY <1>1, <1>2, <2>1, <2>2, <2>3, <2>4 DEF Zoned
<1>6. Apart(g, own, zone)
  BY <1>1, <1>2 DEF Apart
<1>7. Chained(g, own, zone)
  <2>1. b.next = a.next /\ b.leaf = a.leaf
    <3>1. b.next = a.next
      BY DEF IsPut
    <3> QED BY <1>1, <3>1
  <2>2. \A n \in DOMAIN h : g[n].leaf = h[n].leaf /\ g[n].next = h[n].next
    BY <1>1, <2>1
  <2>3. Chained(h, own, zone)
    BY DEF Mapped
  <2> QED BY <1>1, <2>2, <2>3, SameChained
<1> QED BY <1>1, <1>2, <1>5, <1>6, <1>7 DEF Mapped

-----------------------------------------------------------------------------
(* The zones in every step                                                 *)

\* A sequence without, or with one key, is rising.
LEMMA ShortRising ==
    ASSUME NEW k \in Int
    PROVE  IsRising(<<>>) /\ IsRising(<<k>>)
<1>1. Len(<<>>) = 0 /\ Len(<<k>>) = 1 /\ <<k>>[1] = k
  OBVIOUS
<1> QED BY <1>1 DEF IsRising, Rising

\* The first leaf takes every key.
LEMMA InsertFirstMapped ==
    ASSUME NEW rank, NEW own, Core(heap, root, rank, own, call), NEW zone, Mapped(heap, root, own, zone),
           NEW t \in Trees, NEW k \in Keys, NEW v \in Values, InsertFirst(t, k, v),
           NEW l, l = FreeNodes(heap, 1)[1]
    PROVE  Mapped(heap', root', With(own, l, t), With(zone, l, Int)) /\ l \in (1..MaxNodes) \ DOMAIN heap
<1> PICK node : node = Leaf(<<k>>, <<v>>, Nil)
  OBVIOUS
<1>1. HeapType(heap) /\ Forest(heap, root, rank, own) /\ Spare(heap, 1) /\ root[t] = Nil
  BY DEF Core, Forest, Linked, InsertFirst, Room, Spare
<1>2. l \in (1..MaxNodes) \ DOMAIN heap
  BY <1>1, FreeNode
<1>3. heap' = With(heap, l, node) /\ root' = [root EXCEPT ![t] = l]
  BY DEF InsertFirst
<1>4. IsNewRoot(node, root, rank, t, 0) /\ IsRising(node.keys) /\ node.leaf /\ node.next = Nil
  <2>1. <<k>> \in Seq(Keys) /\ <<v>> \in Seq(Values) /\ Len(<<k>>) = 1 /\ Len(<<v>>) = 1
    OBVIOUS
  <2>2. IsNode(node)
    BY <2>1, LeafIsNode
  <2>3. /\ node.leaf /\ node.children = <<>> /\ node.keys = <<k>> /\ node.values = <<v>>
        /\ node.next = Nil
    BY DEF Leaf
  <2>4. IsRising(<<k>>)
    BY KeysAssumption, ShortRising
  <2> QED BY <1>1, <2>1, <2>2, <2>3, <2>4 DEF IsNewRoot
<1>5. Mapped(With(heap, l, node), [root EXCEPT ![t] = l], With(own, l, t), With(zone, l, Int))
  BY <1>1, <1>2, <1>4, NewRootMapped
<1> QED BY <1>2, <1>3, <1>5

\* The parent of a full root takes every key.
LEMMA RaisedMapped ==
    ASSUME NEW rank, NEW own, Core(heap, root, rank, own, call), NEW zone, Mapped(heap, root, own, zone),
           NEW t \in Trees, root[t] # Nil, NEW p \in (1..MaxNodes) \ DOMAIN heap
    PROVE  Mapped(Raised(t, p), [root EXCEPT ![t] = p], With(own, p, t), With(zone, p, Int))
<1> PICK node : node = Inner(<<>>, <<root[t]>>)
  OBVIOUS
<1>1. HeapType(heap) /\ Forest(heap, root, rank, own) /\ root[t] \in DOMAIN heap
  BY DEF Core, Forest, Linked, Rooted
<1>2. /\ IsNewRoot(node, root, rank, t, rank[root[t]] + 1) /\ IsRising(node.keys)
      /\ ~node.leaf /\ node.values = <<>>
  <2>1. root[t] \in 1..MaxNodes
    BY <1>1 DEF HeapType
  <2>2. <<>> \in Seq(Keys) /\ <<root[t]>> \in Seq(1..MaxNodes) /\ Len(<<>>) = 0
    BY <2>1
  <2>3. IsNode(node)
    BY <2>2, InnerIsNode
  <2>4. ~node.leaf /\ node.children = <<root[t]>> /\ node.keys = <<>> /\ node.values = <<>>
    BY DEF Inner
  <2>5. IsRising(<<>>)
    BY <2>2 DEF IsRising, Rising
  <2> QED BY <2>2, <2>3, <2>4, <2>5 DEF IsNewRoot
<1>3. Mapped(With(heap, p, node), [root EXCEPT ![t] = p], With(own, p, t), With(zone, p, Int))
  BY <1>1, <1>2, NewRootMapped
<1> QED BY <1>3 DEF Raised

\* A split of the root keeps the zones.
LEMMA InsertSplitMapped ==
    ASSUME NEW rank, NEW own, Core(heap, root, rank, own, call), NEW zone, Mapped(heap, root, own, zone),
           NEW t \in Trees, NEW k \in Keys, NEW v \in Values, root[t] # Nil,
           NEW p, NEW neu, NEW h, h = Raised(t, p), NEW r2, r2 = [root EXCEPT ![t] = p], NEW c, NEW i,
           IsRootSplit(rank, own, t, k, v, p, i, neu, h, r2, c)
    PROVE  \E zone2 : /\ Mapped(heap', root', Like(With(own, p, t), neu, c), zone2)
                      /\ KeyAt(zone2, call')
<1> PICK own1 : own1 = With(own, p, t)
  OBVIOUS
<1> PICK rank1 : rank1 = RaisedRank(rank, t, p)
  OBVIOUS
<1> PICK zone1 : zone1 = With(zone, p, Int)
  OBVIOUS
<1> PICK k0 : k0 = h[c].keys[Middle(h[c]) + 1]
  OBVIOUS
<1>1. /\ Forest(h, r2, rank1, own1)
      /\ DOMAIN h = DOMAIN heap \union {p} /\ p \notin DOMAIN heap
      /\ neu \in (1..MaxNodes) \ DOMAIN h /\ c \in DOMAIN h \ {p}
      /\ i \in 1..Len(h[p].children) /\ h[p].children[i] = c /\ ~h[p].leaf
      /\ IsFullSplit(h, heap', p, i, c, neu) /\ root' = r2
      /\ call' = [tree |-> t, node |-> p, key |-> k, value |-> v]
  BY DEF IsRootSplit
<1>2. p \in DOMAIN h /\ p \in (1..MaxNodes) \ DOMAIN heap /\ Slot(h, p, i, c)
  <2>1. DOMAIN h \subseteq 1..MaxNodes
    BY <1>1 DEF Forest, Linked, HeapType
  <2> QED BY <1>1, <2>1 DEF Slot
<1>3. Mapped(h, r2, own1, zone1)
  BY <1>2, RaisedMapped
<1>4. Mapped(heap', r2, Like(own1, neu, c), Divided(zone1, c, neu, k0)) /\ k0 \in Int
  <2> PICK g : g = heap'
    OBVIOUS
  <2>1. Mapped(g, r2, Like(own1, neu, c), Divided(zone1, c, neu, k0)) /\ k0 \in Int
    BY <1>1, <1>2, <1>3, SplitMapped
  <2> QED BY <2>1
<1>5. KeyAt(Divided(zone1, c, neu, k0), call')
  <2> PICK zone2 : zone2 = Divided(zone1, c, neu, k0)
    OBVIOUS
  <2>1. zone2[p] = Int
    <3>1. IsDivided(zone1, zone2, DOMAIN h, c, neu, k0)
      <4> PICK D : D = DOMAIN h
        OBVIOUS
      <4>1. DOMAIN zone1 = D /\ c \in D /\ neu \notin D
        BY <1>1, <1>3 DEF Mapped, Zoned
      <4>2. IsDivided(zone1, zone2, D, c, neu, k0)
        BY <4>1, DividedFacts
      <4> QED BY <4>2
    <3>2. zone1[p] = Int
      BY DEF With
    <3> QED BY <1>1, <1>2, <3>1, <3>2 DEF IsDivided
  <2>2. k \in Int
    BY KeysAssumption
  <2> QED BY <1>1, <2>1, <2>2 DEF KeyAt
<1> QED BY <1>1, <1>4, <1>5

\* Descend stays on the way of the key, with no split.
LEMMA DescendKeyAt ==
    ASSUME NEW rank, NEW own, Core(heap, root, rank, own, call), NEW zone, Mapped(heap, root, own, zone),
           KeyAt(zone, call), call # Idle, NEW p, p = call.node, ~heap[p].leaf,
           NEW i, i = UpperBound(heap[p].keys, call.key) + 1, NEW c, c = heap[p].children[i]
    PROVE  call.key \in zone[c] /\ call.key \in Int
<1>1. p \in DOMAIN heap /\ call.key \in Keys
  BY CallFacts
<1>2. Forest(heap, root, rank, own) /\ Zoned(heap, zone)
  BY DEF Core, Mapped
<1>3. i \in 1..Len(heap[p].children)
  BY <1>1, <1>2, RouteFacts
<1>4. heap[p].keys \in Seq(Keys) /\ IsRising(heap[p].keys) /\ call.key \in Int
  BY <1>1, <1>2, ChildFacts, KeysAssumption DEF Forest, Zoned
<1>5. Between(heap[p].keys, i, call.key)
  BY <1>4, BoundsPlace
<1>6. zone[c] = {k \in zone[p] : Between(heap[p].keys, i, k)}
  BY <1>1, <1>2, <1>3, Zenon DEF Zoned
<1> QED BY <1>4, <1>5, <1>6 DEF KeyAt

\* Descend stays on the way of the key, behind a split.
LEMMA DescendSplitMapped ==
    ASSUME NEW rank, NEW own, Core(heap, root, rank, own, call), NEW zone, Mapped(heap, root, own, zone),
           KeyAt(zone, call), NEW p, NEW i, i = UpperBound(heap[p].keys, call.key) + 1, NEW c, NEW neu,
           IsDescent(rank, own, p, i, c, neu)
    PROVE  \E zone2 : /\ Mapped(heap', root', Like(own, neu, c), zone2)
                      /\ KeyAt(zone2, call')
<1> PICK k0 : k0 = heap[c].keys[Middle(heap[c]) + 1]
  OBVIOUS
<1> PICK g : g = heap'
  OBVIOUS
<1> PICK zone2 : zone2 = Divided(zone, c, neu, k0)
  OBVIOUS
<1>1. /\ call # Idle /\ p = call.node
      /\ p \in DOMAIN heap /\ ~heap[p].leaf /\ neu \in (1..MaxNodes) \ DOMAIN heap
      /\ i \in 1..Len(heap[p].children) /\ c \in DOMAIN heap \ {p} /\ c = heap[p].children[i]
      /\ IsFullSplit(heap, g, p, i, c, neu) /\ root' = root
      /\ call' = [tree |-> call.tree, node |-> HalfFor(g[p], i, call.key),
                  key |-> call.key, value |-> call.value]
  BY Zenon DEF IsDescent
<1>2. Forest(heap, root, rank, own) /\ Linked(heap, rank, own) /\ Slot(heap, p, i, c)
  BY <1>1, Zenon DEF Core, Forest, Slot
<1>3. Mapped(g, root, Like(own, neu, c), zone2) /\ k0 \in Int
  <2> PICK h : h = heap
    OBVIOUS
  <2>1. /\ Forest(h, root, rank, own) /\ Mapped(h, root, own, zone) /\ p \in DOMAIN h
        /\ i \in 1..Len(h[p].children) /\ neu \in (1..MaxNodes) \ DOMAIN h
        /\ ~h[p].leaf /\ c \in DOMAIN h \ {p} /\ Slot(h, p, i, c)
        /\ IsFullSplit(h, g, p, i, c, neu) /\ k0 = h[c].keys[Middle(h[c]) + 1]
    BY <1>1, <1>2, Zenon
  <2>2. Mapped(g, root, Like(own, neu, c), Divided(zone, c, neu, k0)) /\ k0 \in Int
    BY <2>1, SplitMapped, ZenonT(40)
  <2> QED BY <2>2
<1>4. GoesOn(heap, g, p, i, call.key, c, neu)
  BY <1>1, <1>2, HalfOfSplit, Zenon
<1>5. call.key \in zone[c] /\ call.key \in Int
  BY <1>1, DescendKeyAt, Zenon
<1>6. IsDivided(zone, zone2, DOMAIN heap, c, neu, k0)
  <2> PICK D : D = DOMAIN heap
    OBVIOUS
  <2>1. DOMAIN zone = D /\ c \in D /\ neu \notin D
    BY <1>1, Zenon DEF Mapped, Zoned
  <2>2. IsDivided(zone, zone2, D, c, neu, k0)
    BY <2>1, DividedFacts
  <2> QED BY <2>2
<1>7. call.key \in zone2[HalfFor(g[p], i, call.key)]
  <2>1. CASE call.key >= k0
    <3>1. HalfFor(g[p], i, call.key) = neu
      BY <1>4, <2>1 DEF GoesOn
    <3>2. k0 <= call.key
      BY <1>3, <1>5, <2>1
    <3> QED BY <1>5, <1>6, <3>1, <3>2 DEF IsDivided
  <2>2. CASE ~(call.key >= k0)
    <3>1. HalfFor(g[p], i, call.key) = c
      BY <1>4, <2>2 DEF GoesOn
    <3>2. call.key < k0
      BY <1>3, <1>5, <2>2
    <3> QED BY <1>5, <1>6, <3>1, <3>2 DEF IsDivided
  <2> QED BY <2>1, <2>2
<1>8. KeyAt(zone2, call')
  BY <1>1, <1>7, Zenon DEF KeyAt
<1> QED BY <1>1, <1>3, <1>8, Zenon

\* What stays when a tree is destroyed.
LEMMA RestMapped ==
    ASSUME NEW rank, NEW own, Core(heap, root, rank, own, call), NEW zone, Mapped(heap, root, own, zone),
           NEW t \in Trees, NEW D, IsRest(own, t, D), NEW h, h = Part(heap, D),
           NEW r1, r1 = [root EXCEPT ![t] = Nil]
    PROVE  /\ Forest(h, r1, Part(rank, D), Part(own, D)) /\ r1[t] = Nil
           /\ Mapped(h, r1, Part(own, D), Part(zone, D))
<1>1. /\ Forest(heap, root, rank, own) /\ D \in SUBSET DOMAIN heap
      /\ \A n \in DOMAIN heap : n \in D <=> own[n] # t
  BY DEF Core, IsRest
<1>2. Forest(h, r1, Part(rank, D), Part(own, D))
  BY <1>1, RemoveForest
<1>3. Mapped(h, r1, Part(own, D), Part(zone, D))
  BY <1>1, RemoveMapped
<1>4. root \in [Trees -> DOMAIN heap \union {Nil}]
  BY <1>1 DEF Forest, Rooted
<1> QED BY <1>2, <1>3, <1>4

\* Move keeps the zones.
LEMMA MoveMapped ==
    ASSUME NEW rank, NEW own, Core(heap, root, rank, own, call), NEW zone, Mapped(heap, root, own, zone),
           NEW t \in Trees, NEW from \in Trees, Move(t, from), NEW D, IsRest(own, t, D)
    PROVE  Mapped(heap', root', Handed(Part(own, D), t, from), Part(zone, D))
<1> PICK h : h = Part(heap, D)
  OBVIOUS
<1> PICK r1 : r1 = [root EXCEPT ![t] = Nil]
  OBVIOUS
<1> PICK rank1 : rank1 = Part(rank, D)
  OBVIOUS
<1> PICK own1 : own1 = Part(own, D)
  OBVIOUS
<1> PICK zone1 : zone1 = Part(zone, D)
  OBVIOUS
<1> PICK r2 : RootHanded(r2, r1, t, from)
  BY DEF RootHanded
<1>1. root \in [Trees -> DOMAIN heap \union {Nil}] /\ t # from
  BY DEF Core, Forest, Rooted, Move
<1>2. heap' = h /\ root' = r2
  <2>1. heap' = h
    BY DEF Move, IsRest
  <2>2. root' = [root EXCEPT ![t] = root[from], ![from] = Nil]
    BY DEF Move
  <2>3. r1[from] = root[from] /\ r1 \in [Trees -> DOMAIN heap \union {Nil}]
    BY <1>1, <2>1
  <2>4. r2 = [root EXCEPT ![t] = root[from], ![from] = Nil]
    BY <1>1, <2>1, <2>3 DEF RootHanded
  <2> QED BY <2>1, <2>2, <2>4
<1>3. Forest(h, r1, rank1, own1) /\ r1[t] = Nil /\ Mapped(h, r1, own1, zone1)
  BY RestMapped
<1>4. Mapped(h, r2, Handed(own1, t, from), zone1)
  BY <1>1, <1>3, HandMapped
<1> QED BY <1>2, <1>4

\* Copy keeps the zones.
LEMMA CopyMapped ==
    ASSUME NEW rank, NEW own, Core(heap, root, rank, own, call), NEW zone, Mapped(heap, root, own, zone),
           NEW t \in Trees, NEW from \in Trees, NEW D, IsRest(own, t, D),
           NEW S, NEW F, NEW f, NEW s, IsCopy(own, t, from, D, S, F, f, s)
    PROVE  Mapped(heap', root', CopyOwner(Part(own, D), F, t), CopyRank(Part(zone, D), F, s))
<1> PICK h : h = Part(heap, D)
  OBVIOUS
<1> PICK r1 : r1 = [root EXCEPT ![t] = Nil]
  OBVIOUS
<1> PICK rank1 : rank1 = Part(rank, D)
  OBVIOUS
<1> PICK own1 : own1 = Part(own, D)
  OBVIOUS
<1> PICK zone1 : zone1 = Part(zone, D)
  OBVIOUS
<1> PICK g : g = heap'
  OBVIOUS
<1> PICK r2 : r2 = root'
  OBVIOUS
<1>1. Forest(h, r1, rank1, own1) /\ r1[t] = Nil /\ Mapped(h, r1, own1, zone1)
  BY RestMapped
<1>2. /\ t # from /\ IsClone(h, g, S, F, f, s) /\ RootCopied(r2, r1, t, from, f)
      /\ \A n \in D : n \in S <=> own[n] = from
      /\ \A m \in F : g[m] = CloneNode(from, s[m], f)
  BY DEF IsCopy
<1>3. \A n \in DOMAIN h : n \in S <=> own1[n] = from
  BY <1>2 DEF Part
<1>4. ASSUME NEW m \in F, ~g[m].leaf PROVE g[m].values = <<>>
  <2> PICK n : n = s[m]
    OBVIOUS
  <2> PICK x : x = CloneNode(from, n, f)
    OBVIOUS
  <2>1. g[m] = x
    BY <1>2
  <2>2. CASE heap[n].leaf
    <3>1. x = Leaf(heap[n].keys, heap[n].values, NextCopied(from, n, f))
      BY <2>2 DEF CloneNode
    <3>2. x.leaf
      BY <3>1 DEF Leaf
    <3> QED BY <1>4, <2>1, <3>2
  <2>3. CASE ~heap[n].leaf
    <3>1. x = Inner(heap[n].keys, [i \in DOMAIN heap[n].children |-> f[heap[n].children[i]]])
      BY <2>3 DEF CloneNode
    <3> QED BY <2>1, <3>1 DEF Inner
  <2> QED BY <2>2, <2>3
<1>5. NextsCopied(h, g, F, f, s)
  <2> SUFFICES ASSUME NEW m \in F, g[m].leaf
               PROVE  g[m].next = IF h[s[m]].next = Nil THEN Nil ELSE f[h[s[m]].next]
    BY DEF NextsCopied
  <2> PICK n : n = s[m]
    OBVIOUS
  <2> PICK x : x = NextCopied(from, n, f)
    OBVIOUS
  <2>1. n \in D /\ n \in DOMAIN heap /\ own[n] = from /\ h[n] = heap[n] /\ heap[n].leaf
    <3>1. s[m] \in S /\ S \subseteq D /\ g[m].leaf = h[s[m]].leaf
      BY <1>2 DEF IsClone, Part
    <3> QED BY <1>2, <3>1 DEF IsRest, Part
  <2>2. g[m] = Leaf(heap[n].keys, heap[n].values, x)
    BY <1>2, <2>1 DEF CloneNode
  <2>3. g[m].next = x
    BY <2>2 DEF Leaf
  <2>4. x = IF heap[n].next = Nil THEN Nil ELSE f[heap[n].next]
    <3>1. Held(heap, root, rank, own)
      BY DEF Core, Held
    <3> QED BY <2>1, <3>1, NextCopiedFacts
  <2> QED BY <2>1, <2>3, <2>4
<1>6. Mapped(g, r2, CopyOwner(own1, F, t), CopyRank(zone1, F, s))
  BY <1>1, <1>2, <1>3, <1>4, <1>5, CloneMapped, ZenonT(40)
<1> QED BY <1>6

MapInv == \E rank, own, zone : Core(heap, root, rank, own, call)
                               /\ Mapped(heap, root, own, zone) /\ KeyAt(zone, call)

\* The zones are there at first.
LEMMA InitMapped ==
    ASSUME Init
    PROVE  MapInv
<1> PICK z : z = NoNodes
  OBVIOUS
<1>1. heap = z /\ root = [t \in Trees |-> Nil] /\ call = Idle
  BY DEF Init
<1>2. DOMAIN z = {} /\ z \in [{} -> Nat] /\ z \in [{} -> Trees]
  BY DEF NoNodes
<1>3. Linked(heap, z, z)
  BY <1>1, <1>2 DEF Linked, HeapType
<1>4. Rooted(heap, root, z)
  BY <1>1, <1>2 DEF Rooted
<1>5. Core(heap, root, z, z, call)
  BY <1>1, <1>2, <1>3, <1>4 DEF Core, Forest, Occupied, Pending
<1>6. Mapped(heap, root, z, z)
  BY <1>1, <1>2 DEF Mapped, Zoned, Apart, RootZones, Chained
<1>7. KeyAt(z, call)
  BY <1>1 DEF KeyAt
<1> QED BY <1>5, <1>6, <1>7 DEF MapInv

-----------------------------------------------------------------------------
(* Lookup                                                                  *)

\* An inner node with its children and their zones.
IsInner(h, rank, own, zone, n, s) ==
    /\ s = h[n].keys /\ s \in Seq(Keys) /\ IsRising(s) /\ Len(s) \in Nat
    /\ DOMAIN h[n].children = 1..(Len(s) + 1) /\ zone[n] \subseteq Int
    /\ \A i \in 1..(Len(s) + 1) : \E x :
         /\ x = h[n].children[i] /\ x \in DOMAIN h /\ rank[x] < rank[n] /\ own[x] = own[n]
         /\ zone[x] = {k \in zone[n] : Between(s, i, k)}

\* Every node that is no leaf is such a node.
LEMMA InnerFacts ==
    ASSUME NEW h, NEW rank, NEW own, Linked(h, rank, own), NEW zone, Zoned(h, zone),
           NEW n \in DOMAIN h, ~h[n].leaf
    PROVE  IsInner(h, rank, own, zone, n, h[n].keys)
<1> PICK s : s = h[n].keys
  OBVIOUS
<1>1. /\ h[n].keys \in Seq(Keys) /\ DOMAIN h[n].children = 1..Len(h[n].children)
      /\ \A i \in 1..Len(h[n].children) :
           h[n].children[i] \in DOMAIN h /\ rank[h[n].children[i]] < rank[n]
  BY ChildFacts
<1>2. Len(h[n].children) = Len(h[n].keys) + 1
  BY DEF Linked
<1>3. \A i \in 1..Len(h[n].children) : own[h[n].children[i]] = own[n]
  BY DEF Linked
<1>4. /\ IsRising(h[n].keys) /\ zone[n] \subseteq Int
      /\ \A i \in 1..Len(h[n].children) :
           zone[h[n].children[i]] = {k \in zone[n] : Between(h[n].keys, i, k)}
  BY DEF Zoned
<1>5. Len(s) \in Nat /\ s \in Seq(Keys)
  BY <1>1
<1> QED BY <1>1, <1>2, <1>3, <1>4, <1>5 DEF IsInner

\* A way down the tree: from every inner node m to its child c[m].
IsWay(h, rank, c) == \A m \in DOMAIN h : ~h[m].leaf => c[m] \in DOMAIN h /\ rank[c[m]] < rank[m]

\* There is a function that goes all the way.
LEMMA WayDown ==
    ASSUME NEW h, NEW rank, NEW own, Linked(h, rank, own), NEW c, IsWay(h, rank, c)
    PROVE  \E f : f = [m \in DOMAIN h |-> IF h[m].leaf THEN m ELSE f[c[m]]]
<1> DEFINE D == DOMAIN h
           step == [p \in D \X [D -> D] |-> IF h[p[1]].leaf THEN p[1] ELSE p[2][c[p[1]]]]
<1>1. IsFiniteSet(D) /\ rank \in [D -> Nat]
  BY HeapFinite DEF Linked
<1>2. \A m \in D : ~h[m].leaf => c[m] \in D /\ rank[c[m]] < rank[m]
  BY DEF IsWay
<1>3. step \in [D \X [D -> D] -> D]
  <2> HIDE DEF D
  <2> QED BY <1>2
<1>4. \A m \in D : \A f \in [D -> D] : step[<<m, f>>] = IF h[m].leaf THEN m ELSE f[c[m]]
  <2> HIDE DEF D
  <2> QED OBVIOUS
<1>5. IsRankedStep(step, D, rank, D)
  <2> HIDE DEF D, step
  <2>1. ASSUME NEW m \in D, NEW f \in [D -> D], NEW g \in [D -> D],
               \A x \in D : rank[x] < rank[m] => f[x] = g[x]
        PROVE  step[<<m, f>>] = step[<<m, g>>]
    <3>1. ~h[m].leaf => f[c[m]] = g[c[m]]
      BY <1>2, <2>1
    <3> QED BY <1>4, <3>1
  <2> QED BY <1>3, <2>1 DEF IsRankedStep
<1>6. CASE D = {}
  <2> PICK f : f = [m \in {} |-> m]
    OBVIOUS
  <2>1. f = [m \in DOMAIN h |-> IF h[m].leaf THEN m ELSE f[c[m]]]
    BY <1>6
  <2> QED BY <2>1
<1>7. CASE D # {}
  <2>1. \E f : IsRecursive(f, D, D, step)
    <3> HIDE DEF D, step
    <3> QED BY <1>1, <1>5, <1>7, RankedRecursion
  <2>2. PICK f \in [D -> D] : \A m \in D : f[m] = step[<<m, f>>]
    BY <2>1 DEF IsRecursive
  <2>3. f = [m \in D |-> IF h[m].leaf THEN m ELSE f[c[m]]]
    <3> HIDE DEF D, step
    <3> QED BY <1>4, <2>2
  <2> QED BY <2>3
<1> QED BY <1>6, <1>7

\* The leaf that a search for k from node n finds.
IsFound(h, own, zone, n, k, l) == l \in DOMAIN h /\ h[l].leaf /\ own[l] = own[n] /\ k \in zone[l]

\* A search ends in the leaf around its key.
LEMMA FindLeafFacts ==
    ASSUME NEW h, NEW rank, NEW own, Linked(h, rank, own), NEW zone, Zoned(h, zone), NEW k \in Int,
           NEW n \in DOMAIN h, k \in zone[n]
    PROVE  IsFound(h, own, zone, n, k, FindLeaf(h, n, k))
<1> DEFINE D == DOMAIN h
           c == [m \in D |-> Route(h[m], k)]
           Is(f) == f = [m \in D |-> IF h[m].leaf THEN m ELSE f[Route(h[m], k)]]
           G == CHOOSE f : Is(f)
           Good == {m \in D : k \in zone[m] => IsFound(h, own, zone, m, k, G[m])}
<1>1. ASSUME NEW m \in D, ~h[m].leaf
      PROVE  /\ Route(h[m], k) \in D /\ rank[Route(h[m], k)] < rank[m] /\ own[Route(h[m], k)] = own[m]
             /\ k \in zone[m] => k \in zone[Route(h[m], k)]
  <2> PICK s : s = h[m].keys
    OBVIOUS
  <2>1. IsInner(h, rank, own, zone, m, s)
    BY <1>1, InnerFacts
  <2>2. PICK i : i = UpperBound(s, k) + 1
    OBVIOUS
  <2>3. s \in Seq(Keys) /\ IsRising(s) /\ Len(s) \in Nat
    BY <2>1 DEF IsInner
  <2>4. Between(s, i, k) /\ UpperBound(s, k) \in 0..Len(s)
    BY <2>2, <2>3, BoundsPlace, BoundsRising DEF IsUpperBound
  <2>5. i \in 1..(Len(s) + 1)
    BY <2>2, <2>3, <2>4
  <2>6. Route(h[m], k) = h[m].children[i]
    BY <2>2 DEF Route
  <2> QED BY <2>1, <2>4, <2>5, <2>6 DEF IsInner
<1>2. \E f : Is(f)
  <2>1. IsWay(h, rank, c)
    BY <1>1 DEF IsWay
  <2>2. \E f : f = [m \in DOMAIN h |-> IF h[m].leaf THEN m ELSE f[c[m]]]
    <3> HIDE DEF c
    <3> QED BY <2>1, WayDown
  <2> QED BY <2>2
<1>3. Is(G)
  <2> HIDE DEF Is
  <2> QED BY <1>2
<1>4. FindLeaf(h, n, k) = G[n]
  BY DEF FindLeaf
<1> HIDE DEF G
<1>5. \A m \in D : G[m] = IF h[m].leaf THEN m ELSE G[Route(h[m], k)]
  BY <1>3
<1>6. ASSUME NEW m \in D, \A x \in D : rank[x] < rank[m] => x \in Good PROVE m \in Good
  <2> SUFFICES ASSUME k \in zone[m] PROVE IsFound(h, own, zone, m, k, G[m])
    OBVIOUS
  <2>1. CASE h[m].leaf
    BY <1>5, <2>1 DEF IsFound
  <2>2. CASE ~h[m].leaf
    <3>1. IsFound(h, own, zone, Route(h[m], k), k, G[Route(h[m], k)])
      BY <1>1, <1>6, <2>2
    <3> QED BY <1>1, <1>5, <2>2, <3>1 DEF IsFound
  <2> QED BY <2>1, <2>2
<1>7. rank \in [D -> Nat]
  BY DEF Linked
<1>8. n \in Good
  <2> HIDE DEF Good, D
  <2>1. D \subseteq Good
    BY <1>6, <1>7, RankInduction
  <2> QED BY <2>1 DEF D
<1> QED BY <1>4, <1>8

\* The zone of leaf l is the beginning of that of node n.
Leads(h, own, zone, n, l) ==
    /\ l \in DOMAIN h /\ h[l].leaf /\ own[l] = own[n] /\ zone[l] \subseteq zone[n]
    /\ \A a \in zone[l], b \in zone[n] \ zone[l] : a < b

\* begin() is at the first leaf.
LEMMA LeftmostFacts ==
    ASSUME NEW h, NEW rank, NEW own, Linked(h, rank, own), NEW zone, Zoned(h, zone), NEW n \in DOMAIN h
    PROVE  Leads(h, own, zone, n, LeftmostLeaf(h, n))
<1> DEFINE D == DOMAIN h
           c == [m \in D |-> h[m].children[1]]
           Is(f) == f = [m \in D |-> IF h[m].leaf THEN m ELSE f[h[m].children[1]]]
           G == CHOOSE f : Is(f)
           Good == {m \in D : Leads(h, own, zone, m, G[m])}
<1>1. ASSUME NEW m \in D, ~h[m].leaf, NEW x, x = h[m].children[1]
      PROVE  /\ x \in D /\ rank[x] < rank[m] /\ own[x] = own[m] /\ zone[x] \subseteq zone[m]
             /\ \A a \in zone[x], b \in zone[m] \ zone[x] : a < b
  <2> PICK s : s = h[m].keys
    OBVIOUS
  <2>1. IsInner(h, rank, own, zone, m, s)
    BY <1>1, InnerFacts
  <2>2. IsRising(s) /\ 1 \in 1..(Len(s) + 1) /\ zone[m] \subseteq Int
    BY <2>1 DEF IsInner
  <2>3. x \in D /\ rank[x] < rank[m] /\ own[x] = own[m] /\ zone[x] = {a \in zone[m] : Between(s, 1, a)}
    BY <1>1, <2>1, <2>2 DEF IsInner
  <2>4. ASSUME NEW a \in zone[x], NEW b \in zone[m] \ zone[x] PROVE a < b
    <3>1. a \in Int /\ b \in Int /\ Between(s, 1, a) /\ ~Between(s, 1, b)
      BY <2>2, <2>3
    <3>2. 1 <= Len(s) /\ ~(b < s[1]) /\ a < s[1]
      BY <3>1 DEF Between
    <3>3. s[1] \in Int
      BY <2>2, <3>2 DEF IsRising
    <3> QED BY <3>1, <3>2, <3>3
  <2> QED BY <2>3, <2>4
<1>2. \E f : Is(f)
  <2>1. IsWay(h, rank, c)
    BY <1>1 DEF IsWay
  <2>2. \E f : f = [m \in DOMAIN h |-> IF h[m].leaf THEN m ELSE f[c[m]]]
    <3> HIDE DEF c
    <3> QED BY <2>1, WayDown
  <2> QED BY <2>2
<1>3. Is(G)
  <2> HIDE DEF Is
  <2> QED BY <1>2
<1>4. LeftmostLeaf(h, n) = G[n]
  BY DEF LeftmostLeaf
<1> HIDE DEF G
<1>5. \A m \in D : G[m] = IF h[m].leaf THEN m ELSE G[h[m].children[1]]
  BY <1>3
<1>6. ASSUME NEW m \in D, \A x \in D : rank[x] < rank[m] => x \in Good PROVE m \in Good
  <2>1. CASE h[m].leaf
    BY <1>5, <2>1 DEF Leads
  <2>2. CASE ~h[m].leaf
    <3> PICK x : x = h[m].children[1]
      OBVIOUS
    <3> PICK l : l = G[m]
      OBVIOUS
    <3>1. /\ x \in D /\ rank[x] < rank[m] /\ own[x] = own[m] /\ zone[x] \subseteq zone[m]
          /\ \A a \in zone[x], b \in zone[m] \ zone[x] : a < b
      BY <1>1, <2>2
    <3>2. Leads(h, own, zone, x, l)
      BY <1>5, <1>6, <2>2, <3>1
    <3>3. Leads(h, own, zone, m, l)
      BY <3>1, <3>2 DEF Leads
    <3> QED BY <3>3
  <2> QED BY <2>1, <2>2
<1>7. rank \in [D -> Nat]
  BY DEF Linked
<1>8. n \in Good
  <2> HIDE DEF Good, D
  <2>1. D \subseteq Good
    BY <1>6, <1>7, RankInduction
  <2> QED BY <2>1 DEF D
<1> QED BY <1>4, <1>8

-----------------------------------------------------------------------------
(* Entries                                                                 *)

\* What a node, and the nodes that a tree owns, hold.
Entries(n) == {<<n.keys[i], n.values[i]>> : i \in DOMAIN n.values}
Holds(h, own, t, e) == \E n \in DOMAIN h : own[n] = t /\ e \in Entries(h[n])

\* The contents of a tree are the entries of its nodes.
LEMMA ContentsOwned ==
    ASSUME NEW rank, NEW own, Forest(heap, root, rank, own), NEW t \in Trees
    PROVE  \A e : e \in Contents(t) <=> Holds(heap, own, t, e)
<1>1. Subtree(heap, root[t]) = {n \in DOMAIN heap : own[n] = t}
  BY SubtreeOwned
<1> QED BY <1>1 DEF Contents, Holds, Entries

\* The same after a step.
LEMMA ContentsOwnedNext ==
    ASSUME NEW rank, NEW own, Forest(heap', root', rank, own), NEW t \in Trees
    PROVE  \A e : e \in Contents(t)' <=> Holds(heap', own, t, e)
<1> PICK h : h = heap'
  OBVIOUS
<1> PICK r : r = root'
  OBVIOUS
<1>1. Subtree(h, r[t]) = {n \in DOMAIN h : own[n] = t}
  BY SubtreeOwned
<1>2. Contents(t)' = UNION {{<<h[n].keys[i], h[n].values[i]>> : i \in DOMAIN h[n].values} :
                              n \in Subtree(h, r[t])}
  BY DEF Contents
<1> QED BY <1>1, <1>2 DEF Holds, Entries

\* A leaf has an entry for each of its values, an inner node none.
LEMMA EntryFacts ==
    ASSUME NEW n, IsNode(n), n.leaf => Len(n.values) = Len(n.keys), ~n.leaf => n.values = <<>>, NEW e
    PROVE  e \in Entries(n) <=> n.leaf /\ \E i \in 1..Len(n.keys) : e = <<n.keys[i], n.values[i]>>
<1>1. DOMAIN n.values = 1..Len(n.values) /\ Len(<<>>) = 0
  BY DEF IsNode
<1> QED BY <1>1 DEF Entries


\* Leaves with as many values as keys, and inner nodes without values.
Tidy(h) ==
    \A n \in DOMAIN h :
      IsNode(h[n]) /\ IF h[n].leaf THEN Len(h[n].values) = Len(h[n].keys) ELSE h[n].values = <<>>
IsEntry(n, i, e) == n.leaf /\ i \in 1..Len(n.keys) /\ e = <<n.keys[i], n.values[i]>>

\* An entry is in a tree if it is in one of its leaves.
LEMMA HoldsFacts ==
    ASSUME NEW h, NEW rank, NEW own, Linked(h, rank, own), NEW zone, Zoned(h, zone)
    PROVE  /\ Tidy(h)
           /\ \A t, e : Holds(h, own, t, e) <=> \E n \in DOMAIN h : \E i : own[n] = t /\ IsEntry(h[n], i, e)
<1>1. Tidy(h)
  BY DEF Tidy, Zoned, Linked, HeapType
<1>2. ASSUME NEW n \in DOMAIN h, NEW e PROVE e \in Entries(h[n]) <=> \E i : IsEntry(h[n], i, e)
  <2> PICK a : a = h[n]
    OBVIOUS
  <2>1. IsNode(a) /\ (a.leaf => Len(a.values) = Len(a.keys)) /\ (~a.leaf => a.values = <<>>)
    BY <1>1 DEF Tidy
  <2>2. e \in Entries(a) <=> a.leaf /\ \E i \in 1..Len(a.keys) : e = <<a.keys[i], a.values[i]>>
    BY <2>1, EntryFacts
  <2> QED BY <2>2 DEF IsEntry
<1>3. ASSUME NEW t, NEW e
      PROVE  Holds(h, own, t, e) <=> \E n \in DOMAIN h : \E i : own[n] = t /\ IsEntry(h[n], i, e)
  BY <1>2 DEF Holds
<1> QED BY <1>1, <1>3

\* A split moves entries, but adds and drops none.
LEMMA SplitHolds ==
    ASSUME NEW h, NEW rank, NEW own, Linked(h, rank, own), NEW zone, Zoned(h, zone), NEW g,
           NEW p \in DOMAIN h, NEW i, NEW neu, neu \notin DOMAIN h, NEW c \in DOMAIN h \ {p},
           ~h[p].leaf, IsFullSplit(h, g, p, i, c, neu), NEW own2, own2 = Like(own, neu, c),
           NEW rank2, Linked(g, rank2, own2), NEW zone2, Zoned(g, zone2)
    PROVE  \A t, e : Holds(g, own2, t, e) <=> Holds(h, own, t, e)
<1> PICK q : IsMiddle(h[c], q)
  BY DEF IsMiddle
<1> PICK m \in Nat : m = Len(h[c].keys)
  BY ChildFacts
<1>1. own2[neu] = own[c] /\ \A n \in DOMAIN h : own2[n] = own[n]
  <2> PICK D : D = DOMAIN h
    OBVIOUS
  <2>1. DOMAIN own = D /\ c \in D /\ neu \notin D
    BY DEF Linked
  <2>2. own2[neu] = own[c] /\ \A n \in D : own2[n] = own[n]
    BY <2>1, LikeFacts
  <2> QED BY <2>2
<1>2. /\ DOMAIN g = DOMAIN h \union {neu} /\ \A n \in DOMAIN h \ {p, c} : g[n] = h[n]
      /\ ~g[p].leaf /\ g[c].leaf = h[c].leaf /\ g[neu].leaf = h[c].leaf
  BY DEF IsFullSplit, IsSplit, Halved, Promoted
<1>3. q \in Nat /\ q + 1 <= m
  <2>1. h[c].keys \in Seq(Keys) /\ Full(h[c])
    BY ChildFacts DEF IsFullSplit
  <2>2. Middle(h[c]) \in Nat /\ m - Middle(h[c]) - 1 >= MinDegree - 1 /\ MinDegree \in Nat /\ MinDegree >= 2
    BY <2>1, MiddleFacts
  <2>3. q \in Nat /\ m - q - 1 >= MinDegree - 1
    BY <2>2 DEF IsMiddle
  <2> QED BY <2>2, <2>3
<1>4. h[c].leaf =>
        /\ Len(g[c].keys) = q /\ \A j \in 1..q : g[c].keys[j] = h[c].keys[j]
        /\ \A j \in 1..q : g[c].values[j] = h[c].values[j]
        /\ Len(g[neu].keys) = m - q
        /\ \A j \in 1..(m - q) : g[neu].keys[j] = h[c].keys[q + j]
        /\ \A j \in 1..(m - q) : g[neu].values[j] = h[c].values[q + j]
  BY DEF IsFullSplit, Halved, IsMiddle
<1>5. ASSUME NEW t, NEW e, Holds(g, own2, t, e) PROVE Holds(h, own, t, e)
  <2> PICK n, j : n \in DOMAIN g /\ own2[n] = t /\ IsEntry(g[n], j, e)
    BY <1>5, HoldsFacts
  <2>1. \E n1 \in DOMAIN h : \E j1 : own[n1] = t /\ IsEntry(h[n1], j1, e)
    <3>1. CASE n \notin {c, neu}
      <4>1. n \in DOMAIN h \ {p, c}
        BY <1>2, <3>1 DEF IsEntry
      <4> QED BY <1>1, <1>2, <4>1
    <3>2. CASE n = c
      <4>1. h[c].leaf /\ j \in 1..q /\ e = <<g[c].keys[j], g[c].values[j]>>
        BY <1>2, <1>4, <3>2 DEF IsEntry
      <4>2. j \in 1..m
        BY <1>3, <4>1
      <4>3. IsEntry(h[c], j, e)
        BY <1>4, <4>1, <4>2 DEF IsEntry
      <4> QED BY <1>1, <3>2, <4>3
    <3>3. CASE n = neu
      <4>1. h[c].leaf /\ j \in 1..(m - q) /\ e = <<g[neu].keys[j], g[neu].values[j]>>
        BY <1>2, <1>4, <3>3 DEF IsEntry
      <4>2. q + j \in 1..m
        BY <1>3, <4>1
      <4>3. IsEntry(h[c], q + j, e)
        BY <1>4, <4>1, <4>2 DEF IsEntry
      <4> QED BY <1>1, <3>3, <4>3
    <3> QED BY <3>1, <3>2, <3>3
  <2> QED BY <2>1, HoldsFacts
<1>6. ASSUME NEW t, NEW e, Holds(h, own, t, e) PROVE Holds(g, own2, t, e)
  <2> PICK n, j : n \in DOMAIN h /\ own[n] = t /\ IsEntry(h[n], j, e)
    BY <1>6, HoldsFacts
  <2>1. \E n1 \in DOMAIN g : \E j1 : own2[n1] = t /\ IsEntry(g[n1], j1, e)
    <3>1. CASE n # c
      <4>1. n \in DOMAIN h \ {p, c}
        BY <3>1 DEF IsEntry
      <4> QED BY <1>1, <1>2, <4>1
    <3>2. CASE n = c
      <4>1. h[c].leaf /\ j \in 1..m /\ e = <<h[c].keys[j], h[c].values[j]>>
        BY <3>2 DEF IsEntry
      <4>2. CASE j <= q
        <5>1. j \in 1..q
          BY <1>3, <4>1, <4>2
        <5>2. IsEntry(g[c], j, e)
          BY <1>2, <1>4, <4>1, <5>1 DEF IsEntry
        <5> QED BY <1>1, <1>2, <3>2, <5>2
      <4>3. CASE j > q
        <5> PICK j1 \in Nat : j = q + j1 /\ j1 \in 1..(m - q)
          <6>1. j - q \in Nat /\ j = q + (j - q) /\ j - q \in 1..(m - q)
            BY <1>3, <4>1, <4>3
          <6> QED BY <6>1
        <5>1. g[neu].keys[j1] = h[c].keys[j] /\ g[neu].values[j1] = h[c].values[j] /\ Len(g[neu].keys) = m - q
          BY <1>4, <4>1
        <5>2. IsEntry(g[neu], j1, e)
          BY <1>2, <4>1, <5>1 DEF IsEntry
        <5> QED BY <1>1, <1>2, <3>2, <5>2
      <4>4. j <= q \/ j > q
        <5>1. j \in Int /\ q \in Int
          BY <1>3, <4>1
        <5> QED BY <5>1
      <4> QED BY <4>2, <4>3, <4>4
    <3> QED BY <3>1, <3>2
  <2> QED BY <2>1, HoldsFacts
<1> QED BY <1>5, <1>6

\* A new root brings its own entries.
LEMMA NewRootHolds ==
    ASSUME NEW h, NEW own, DOMAIN own = DOMAIN h, NEW l, l \notin DOMAIN h, NEW node, NEW t
    PROVE  \A u, e : Holds(With(h, l, node), With(own, l, t), u, e) <=>
             Holds(h, own, u, e) \/ (u = t /\ e \in Entries(node))
<1> PICK g : g = With(h, l, node)
  OBVIOUS
<1> PICK own2 : own2 = With(own, l, t)
  OBVIOUS
<1>1. DOMAIN g = DOMAIN h \union {l} /\ g[l] = node /\ \A n \in DOMAIN h : g[n] = h[n] /\ n # l
  BY DEF With
<1>2. own2[l] = t /\ \A n \in DOMAIN h : own2[n] = own[n]
  BY DEF With
<1>3. ASSUME NEW u, NEW e
      PROVE  Holds(g, own2, u, e) <=> Holds(h, own, u, e) \/ (u = t /\ e \in Entries(node))
  <2>1. Holds(g, own2, u, e) => Holds(h, own, u, e) \/ (u = t /\ e \in Entries(node))
    BY <1>1, <1>2 DEF Holds
  <2>2. Holds(h, own, u, e) => Holds(g, own2, u, e)
    BY <1>1, <1>2 DEF Holds
  <2>3. u = t /\ e \in Entries(node) => Holds(g, own2, u, e)
    BY <1>1, <1>2 DEF Holds
  <2> QED BY <2>1, <2>2, <2>3
<1> QED BY <1>3

\* Without the nodes of tree t, the others have their entries.
LEMMA RestHolds ==
    ASSUME NEW own, NEW t, NEW D, IsRest(own, t, D), NEW u, NEW e
    PROVE  Holds(Part(heap, D), Part(own, D), u, e) <=> u # t /\ Holds(heap, own, u, e)
<1> PICK g : g = Part(heap, D)
  OBVIOUS
<1> PICK own2 : own2 = Part(own, D)
  OBVIOUS
<1>1. /\ DOMAIN g = D /\ \A n \in D : n \in DOMAIN heap /\ g[n] = heap[n] /\ own2[n] = own[n]
      /\ \A n \in DOMAIN heap : n \in D <=> own[n] # t
  BY DEF IsRest, Part
<1>2. Holds(g, own2, u, e) <=> u # t /\ Holds(heap, own, u, e)
  BY <1>1 DEF Holds
<1> QED BY <1>2

\* Nodes that change hands take their entries with them.
LEMMA HandHolds ==
    ASSUME NEW h, NEW own, DOMAIN own = DOMAIN h, NEW t, NEW from, t # from,
           \A n \in DOMAIN h : own[n] # t
    PROVE  \A u, e : Holds(h, Handed(own, t, from), u, e) <=>
             IF u = t THEN Holds(h, own, from, e) ELSE u # from /\ Holds(h, own, u, e)
<1> PICK own2 : own2 = Handed(own, t, from)
  OBVIOUS
<1>1. \A n \in DOMAIN h : own2[n] = IF own[n] = from THEN t ELSE own[n]
  BY DEF Handed
<1>2. ASSUME NEW u, NEW e
      PROVE  Holds(h, own2, u, e) <=>
               IF u = t THEN Holds(h, own, from, e) ELSE u # from /\ Holds(h, own, u, e)
  <2>1. CASE u = t
    BY <1>1, <2>1 DEF Holds
  <2>2. CASE u # t
    BY <1>1, <2>2 DEF Holds
  <2> QED BY <2>1, <2>2
<1> QED BY <1>2

\* S is what from owns, and t owns nothing.
Sources(h, own, S, from, t) ==
    \A n \in DOMAIN h : own[n] # t /\ (n \in S <=> own[n] = from)

\* own2 gives the nodes of F to t and leaves the other nodes where own has them.
Given(own, own2, F, t) == own2 = CopyOwner(own, F, t)

\* In g, t has the entries that from has in h, and the other trees their own.
Copied(h, own, g, own2, t, from) ==
    \A u, e : Holds(g, own2, u, e) <=>
      IF u = t THEN Holds(h, own, from, e) ELSE Holds(h, own, u, e)

\* A copy has the entries of its source.
LEMMA CloneHolds ==
    ASSUME NEW h, NEW rank, NEW own, Linked(h, rank, own), NEW zone, Zoned(h, zone),
           NEW t, NEW from, t # from, NEW g, NEW S, NEW F, NEW f, NEW s,
           Sources(h, own, S, from, t), IsClone(h, g, S, F, f, s),
           NEW own2, Given(own, own2, F, t),
           NEW rank2, Linked(g, rank2, own2), NEW zone2, Zoned(g, zone2)
    PROVE  Copied(h, own, g, own2, t, from)
<1>1. /\ \A n \in S : n \in DOMAIN h /\ f[n] \in F /\ s[f[n]] = n
      /\ \A m \in F : s[m] \in S /\ f[s[m]] = m /\ m \notin DOMAIN h
      /\ DOMAIN g = DOMAIN h \union F
      /\ \A n \in DOMAIN h : g[n] = h[n] /\ n \notin F
      /\ \A m \in F : /\ g[m].leaf = h[s[m]].leaf /\ g[m].keys = h[s[m]].keys
                      /\ h[s[m]].leaf => g[m].values = h[s[m]].values
  BY DEF IsClone
<1>2. /\ \A n \in DOMAIN h : own2[n] = own[n] /\ own[n] # t
      /\ \A m \in F : own2[m] = t
  <2>1. DOMAIN own = DOMAIN h
    BY DEF Linked
  <2> QED BY <1>1, <2>1 DEF CopyOwner, Given, Sources
<1>3. \A m \in F : \A i, e : IsEntry(g[m], i, e) <=> IsEntry(h[s[m]], i, e)
  BY <1>1 DEF IsEntry
<1>4. \A u, e : Holds(h, own, u, e) <=> \E n \in DOMAIN h : \E i : own[n] = u /\ IsEntry(h[n], i, e)
  BY HoldsFacts
<1>5. \A u, e : Holds(g, own2, u, e) <=> \E n \in DOMAIN g : \E i : own2[n] = u /\ IsEntry(g[n], i, e)
  BY HoldsFacts
<1>6. ASSUME NEW e PROVE Holds(g, own2, t, e) <=> Holds(h, own, from, e)
  <2>1. ASSUME Holds(g, own2, t, e) PROVE Holds(h, own, from, e)
    <3> PICK m, i : m \in DOMAIN g /\ own2[m] = t /\ IsEntry(g[m], i, e)
      BY <1>5, <2>1
    <3>1. m \in F
      BY <1>1, <1>2
    <3>2. s[m] \in DOMAIN h /\ own[s[m]] = from /\ IsEntry(h[s[m]], i, e)
      BY <1>1, <1>3, <3>1 DEF Sources
    <3> QED BY <1>4, <3>2
  <2>2. ASSUME Holds(h, own, from, e) PROVE Holds(g, own2, t, e)
    <3> PICK n, i : n \in DOMAIN h /\ own[n] = from /\ IsEntry(h[n], i, e)
      BY <1>4, <2>2
    <3>1. f[n] \in F /\ s[f[n]] = n
      BY <1>1 DEF Sources
    <3>2. f[n] \in DOMAIN g /\ own2[f[n]] = t /\ IsEntry(g[f[n]], i, e)
      BY <1>1, <1>2, <1>3, <3>1
    <3> QED BY <1>5, <3>2
  <2> QED BY <2>1, <2>2
<1>7. ASSUME NEW u, u # t, NEW e PROVE Holds(g, own2, u, e) <=> Holds(h, own, u, e)
  <2>1. \A n \in DOMAIN g : own2[n] = u => n \in DOMAIN h /\ g[n] = h[n] /\ own[n] = u
    BY <1>1, <1>2, <1>7
  <2>2. \A n \in DOMAIN h : own[n] = u => n \in DOMAIN g /\ g[n] = h[n] /\ own2[n] = u
    BY <1>1, <1>2
  <2> QED BY <1>4, <1>5, <2>1, <2>2
<1> QED BY <1>6, <1>7 DEF Copied

\* Node n has entry e.
HasEntry(n, e) == \E j : IsEntry(n, j, e)

\* What an insertion of k and v leaves of an old entry, or adds.
Put(e, k, v, was) == (was /\ e[1] # k) \/ e = <<k, v>>

\* PutInLeaf changes one entry of a leaf.
LEMMA PutEntries ==
    ASSUME NEW a, a.leaf, a.keys \in Seq(Keys), IsRising(a.keys), Len(a.values) = Len(a.keys),
           NEW b, b.leaf, NEW k \in Keys, NEW i \in 1..(Len(a.keys) + 1), i = LowerBound(a.keys, k) + 1,
           NEW v, Replaced(a, b, i, k, v) \/ Added(a, b, i, k, v), NEW e
    PROVE  HasEntry(b, e) <=> Put(e, k, v, HasEntry(a, e))
<1> PICK x \in Nat : x = Len(a.keys)
  OBVIOUS
<1>1. IsRising(a.keys) /\ k \in Int
  BY KeysAssumption
<1>2. \A j, j1 \in 1..x : a.keys[j] = a.keys[j1] => j = j1
  <2> SUFFICES ASSUME NEW j \in 1..x, NEW j1 \in 1..x, a.keys[j] = a.keys[j1] PROVE j = j1
    OBVIOUS
  <2>1. a.keys[j] \in Int /\ a.keys[j1] \in Int /\ (j < j1 => a.keys[j] < a.keys[j1])
        /\ (j1 < j => a.keys[j1] < a.keys[j])
    BY <1>1 DEF IsRising, Rising
  <2>2. ~(j < j1) /\ ~(j1 < j)
    BY <2>1
  <2> QED BY <2>2
<1>3. CASE Replaced(a, b, i, k, v)
  <2>1. i \in 1..x /\ a.keys[i] = k /\ b.keys = a.keys /\ b.values[i] = v
        /\ \A j \in 1..x : j # i => b.values[j] = a.values[j]
    BY <1>3 DEF Replaced
  <2>2. ASSUME NEW j, IsEntry(b, j, e) PROVE Put(e, k, v, HasEntry(a, e))
    <3>1. j \in 1..x /\ e = <<a.keys[j], b.values[j]>>
      BY <2>1, <2>2 DEF IsEntry
    <3>2. CASE j = i
      BY <2>1, <3>1, <3>2 DEF Put, HasEntry
    <3>3. CASE j # i
      <4>1. e = <<a.keys[j], a.values[j]>> /\ a.keys[j] # k
        BY <1>2, <2>1, <3>1, <3>3
      <4>2. IsEntry(a, j, e) /\ e[1] # k
        BY <3>1, <4>1 DEF IsEntry
      <4> QED BY <4>2 DEF Put, HasEntry
    <3> QED BY <3>2, <3>3
  <2>3. ASSUME NEW j, IsEntry(a, j, e), e[1] # k PROVE IsEntry(b, j, e)
    <3>1. j \in 1..x /\ e = <<a.keys[j], a.values[j]>> /\ j # i
      BY <2>1, <2>3 DEF IsEntry
    <3> QED BY <2>1, <3>1 DEF IsEntry
  <2>4. ASSUME e = <<k, v>> PROVE IsEntry(b, i, e)
    BY <2>1, <2>4 DEF IsEntry
  <2> QED BY <2>2, <2>3, <2>4 DEF Put, HasEntry
<1>4. CASE Added(a, b, i, k, v)
  <2> PICK ks : ks = a.keys
    OBVIOUS
  <2> PICK vs : vs = a.values
    OBVIOUS
  <2>1. i \in 1..(x + 1)
        /\ Len(b.keys) = x + 1
        /\ \A j \in 1..(x + 1) :
             /\ b.keys[j] = IF j < i THEN ks[j] ELSE IF j = i THEN k ELSE ks[j - 1]
             /\ b.values[j] = IF j < i THEN vs[j] ELSE IF j = i THEN v ELSE vs[j - 1]
    BY <1>4 DEF Added, IsInserted
  <2>2. \A j \in 1..x : ks[j] # k
    <3>1. \/ LowerBound(a.keys, k) + 1 <= Len(a.keys) /\ a.keys[LowerBound(a.keys, k) + 1] = k
          \/ \A j \in 1..Len(a.keys) : a.keys[j] # k
      BY <1>1, BoundsPlace
    <3>2. \A j \in 1..Len(a.keys) : a.keys[j] # k
      BY <1>4, <3>1 DEF Added
    <3> QED BY <3>2
  <2>3. ASSUME NEW j, IsEntry(b, j, e) PROVE Put(e, k, v, HasEntry(a, e))
    <3>1. j \in 1..(x + 1) /\ e = <<b.keys[j], b.values[j]>>
      BY <2>1, <2>3 DEF IsEntry
    <3>2. CASE j < i
      <4>1. j \in 1..x /\ e = <<ks[j], vs[j]>>
        BY <2>1, <3>1, <3>2
      <4>2. IsEntry(a, j, e) /\ e[1] # k
        BY <2>2, <4>1 DEF IsEntry
      <4> QED BY <4>2 DEF Put, HasEntry
    <3>3. CASE j = i
      BY <2>1, <3>1, <3>3 DEF Put, HasEntry
    <3>4. CASE j > i
      <4>1. j - 1 \in 1..x /\ e = <<ks[j - 1], vs[j - 1]>>
        BY <2>1, <3>1, <3>4
      <4>2. IsEntry(a, j - 1, e) /\ e[1] # k
        BY <2>2, <4>1 DEF IsEntry
      <4> QED BY <4>2 DEF Put, HasEntry
    <3>5. j < i \/ j = i \/ j > i
      BY <2>1, <3>1
    <3> QED BY <3>2, <3>3, <3>4, <3>5
  <2>4. ASSUME NEW j, IsEntry(a, j, e), e[1] # k PROVE HasEntry(b, e)
    <3>1. j \in 1..x /\ e = <<ks[j], vs[j]>>
      BY <2>4 DEF IsEntry
    <3>2. CASE j < i
      <4>1. j \in 1..(x + 1) /\ b.keys[j] = ks[j] /\ b.values[j] = vs[j]
        BY <2>1, <3>1, <3>2
      <4>2. IsEntry(b, j, e)
        BY <2>1, <3>1, <4>1 DEF IsEntry
      <4> QED BY <4>2 DEF HasEntry
    <3>3. CASE j >= i
      <4> PICK j1 \in 1..(x + 1) : j1 = j + 1
        BY <3>1
      <4>1. b.keys[j1] = ks[j] /\ b.values[j1] = vs[j]
        <5>1. ~(j1 < i) /\ j1 # i /\ j1 - 1 = j
          BY <2>1, <3>1, <3>3
        <5> QED BY <2>1, <5>1
      <4>2. IsEntry(b, j1, e)
        BY <2>1, <3>1, <4>1 DEF IsEntry
      <4> QED BY <4>2 DEF HasEntry
    <3>4. j < i \/ j >= i
      BY <2>1, <3>1
    <3> QED BY <3>2, <3>3, <3>4
  <2>5. ASSUME e = <<k, v>> PROVE IsEntry(b, i, e)
    BY <2>1, <2>5 DEF IsEntry
  <2> QED BY <2>3, <2>4, <2>5 DEF Put, HasEntry
<1> QED BY <1>3, <1>4

\* One leaf of a tree has changed.
LEMMA PutHolds ==
    ASSUME NEW h, NEW g, DOMAIN g = DOMAIN h, NEW rank, NEW own, Linked(h, rank, own), Linked(g, rank, own),
           NEW zone, Zoned(h, zone), Zoned(g, zone), NEW l \in DOMAIN h,
           \A n \in DOMAIN h \ {l} : g[n] = h[n], NEW e, NEW k, NEW v,
           HasEntry(g[l], e) <=> Put(e, k, v, HasEntry(h[l], e)),
           \A n \in DOMAIN h \ {l} : own[n] = own[l] /\ HasEntry(h[n], e) => e[1] # k,
           NEW u
    PROVE  Holds(g, own, u, e) <=>
             IF u = own[l] THEN Put(e, k, v, Holds(h, own, u, e)) ELSE Holds(h, own, u, e)
<1> DEFINE Here(f) == HasEntry(f[l], e)
           Elsewhere(f) == \E n \in DOMAIN h \ {l} : own[n] = u /\ HasEntry(f[n], e)
<1>1. Holds(h, own, u, e) <=> \E n \in DOMAIN h : own[n] = u /\ HasEntry(h[n], e)
  BY HoldsFacts DEF HasEntry
<1>2. Holds(g, own, u, e) <=> \E n \in DOMAIN h : own[n] = u /\ HasEntry(g[n], e)
  BY HoldsFacts DEF HasEntry
<1>3. Holds(h, own, u, e) <=> (u = own[l] /\ Here(h)) \/ Elsewhere(h)
  BY Zenon, <1>1
<1>4. Holds(g, own, u, e) <=> (u = own[l] /\ Here(g)) \/ Elsewhere(g)
  BY Zenon, <1>2
<1>5. Elsewhere(g) <=> Elsewhere(h)
  OBVIOUS
<1>6. Here(g) <=> Put(e, k, v, Here(h))
  OBVIOUS
<1>7. u = own[l] /\ Elsewhere(h) => e[1] # k
  OBVIOUS
<1> HIDE DEF Here, Elsewhere
<1>8. CASE u = own[l]
  BY <1>3, <1>4, <1>5, <1>6, <1>7, <1>8 DEF Put, HasEntry
<1>9. CASE u # own[l]
  BY <1>3, <1>4, <1>5, <1>9
<1> QED BY <1>8, <1>9

\* PutInLeaf changes one entry of one tree.
LEMMA PutChanges ==
    ASSUME NEW rank, NEW own, Core(heap, root, rank, own, call), NEW zone,
           Mapped(heap, root, own, zone), Mapped(heap', root', own, zone),
           Forest(heap', root', rank, own), KeyAt(zone, call), NEW l, l = call.node,
           NEW a, NEW b, NEW i, NEW k, NEW v, IsPut(own, l, a, b, i, k, v), NEW e, NEW u
    PROVE  Holds(heap', own, u, e) <=>
             IF u = call.tree THEN Put(e, k, v, Holds(heap, own, u, e)) ELSE Holds(heap, own, u, e)
<1> PICK h : h = heap
  OBVIOUS
<1> PICK g : g = heap'
  OBVIOUS
<1>1. /\ l \in DOMAIN h /\ a = h[l] /\ b = g[l] /\ own[l] = call.tree /\ a.leaf /\ b.leaf
      /\ k \in zone[l] /\ a.keys \in Seq(Keys) /\ Len(a.values) = Len(a.keys)
      /\ i = LowerBound(a.keys, k) + 1 /\ i \in 1..(Len(a.keys) + 1) /\ k \in Keys
      /\ DOMAIN g = DOMAIN h /\ (\A m \in DOMAIN h \ {l} : g[m] = h[m])
      /\ Replaced(a, b, i, k, v) \/ Added(a, b, i, k, v)
  BY DEF IsPut, KeyAt, IsNode
<1>2. /\ Linked(h, rank, own) /\ Linked(g, rank, own) /\ Zoned(h, zone) /\ Zoned(g, zone)
      /\ Apart(h, own, zone)
  BY DEF Core, Forest, Mapped
<1>3. IsRising(a.keys)
  BY <1>1, <1>2 DEF Zoned
<1>4. HasEntry(b, e) <=> Put(e, k, v, HasEntry(a, e))
  BY <1>1, <1>3, PutEntries
<1>5. ASSUME NEW n \in DOMAIN h \ {l}, own[n] = own[l], HasEntry(h[n], e) PROVE e[1] # k
  <2> PICK j : IsEntry(h[n], j, e)
    BY <1>5 DEF HasEntry
  <2>1. h[n].leaf /\ h[n].keys[j] \in zone[n] /\ e[1] = h[n].keys[j]
    BY <1>2, <1>5 DEF Zoned, IsEntry
  <2>2. zone[n] \intersect zone[l] = {}
    BY <1>1, <1>2, <1>5, <2>1 DEF Apart
  <2> QED BY <1>1, <2>1, <2>2
<1>6. HasEntry(g[l], e) <=> Put(e, k, v, HasEntry(h[l], e))
  BY <1>1, <1>4
<1>7. Holds(g, own, u, e) <=>
        IF u = own[l] THEN Put(e, k, v, Holds(h, own, u, e)) ELSE Holds(h, own, u, e)
  BY <1>1, <1>2, <1>5, <1>6, PutHolds
<1> QED BY <1>1, <1>7

-----------------------------------------------------------------------------
(* Every step is one of a map                                              *)

\* What the users of the trees see.
Shown == [t \in Trees |-> Contents(t)]

Good(h, r, c, rank, own, zone) == Core(h, r, rank, own, c) /\ Mapped(h, r, own, zone) /\ KeyAt(zone, c)

\* The keys of a set of entries, and their number.
KeysIn(C) == {e[1] : e \in C}
Counts(C, n) == IsFiniteSet(KeysIn(C)) /\ n = Cardinality(KeysIn(C))

\* One entry has one key.
LEMMA FirstCount ==
    ASSUME NEW k, NEW v
    PROVE  Counts({<<k, v>>}, 1)
<1>1. KeysIn({<<k, v>>}) = {k}
  BY DEF KeysIn
<1>2. IsFiniteSet({k}) /\ Cardinality({k}) = 1
  BY FS_Singleton
<1> QED BY <1>1, <1>2 DEF Counts

\* An insertion adds a key, or takes the place of one that is there.
LEMMA PutCount ==
    ASSUME NEW C, NEW n, Counts(C, n), NEW k, NEW v, NEW m, m = IF k \in KeysIn(C) THEN n ELSE n + 1
    PROVE  Counts({e \in C : e[1] # k} \union {<<k, v>>}, m)
<1> PICK K : K = KeysIn(C)
  OBVIOUS
<1> PICK B : B = {e \in C : e[1] # k} \union {<<k, v>>}
  OBVIOUS
<1>1. KeysIn(B) = K \union {k}
  <2>1. ASSUME NEW x \in KeysIn(B) PROVE x \in K \union {k}
    <3>1. PICK e \in B : x = e[1]
      BY <2>1 DEF KeysIn
    <3>2. e \in C \/ e = <<k, v>>
      OBVIOUS
    <3>3. <<k, v>>[1] = k
      OBVIOUS
    <3> QED BY <3>1, <3>2, <3>3 DEF KeysIn
  <2>2. k \in KeysIn(B)
    <3>1. <<k, v>> \in B /\ <<k, v>>[1] = k
      OBVIOUS
    <3> QED BY <3>1 DEF KeysIn
  <2>3. ASSUME NEW x \in K, x # k PROVE x \in KeysIn(B)
    <3>1. PICK e \in C : x = e[1]
      BY <2>3 DEF KeysIn
    <3>2. e \in B
      BY <2>3, <3>1
    <3> QED BY <3>1, <3>2 DEF KeysIn
  <2> QED BY <2>1, <2>2, <2>3
<1>2. IsFiniteSet(K) /\ n = Cardinality(K)
  BY DEF Counts
<1>3. IsFiniteSet(K \union {k}) /\ Cardinality(K \union {k}) = IF k \in K THEN n ELSE n + 1
  BY <1>2, FS_AddElement
<1> QED BY <1>1, <1>3 DEF Counts

\* size() is the number of keys in a tree that has a root.
Sized == \A t \in Trees : root[t] # Nil => Counts(Contents(t), size[t])

\* A step that keeps the invariant and shows as a step of the maps.
MapStep == MapInv' /\ [Maps!Next]_Shown /\ (Sized => Sized')

\* After a step, tree u is as some tree was before.
Inherits(u) ==
    \E w \in Trees : root[w] # Nil /\ Contents(u)' = Contents(w) /\ size'[u] = size[w]

\* Such a tree is sized.
LEMMA SizedStep ==
    ASSUME \A u \in Trees : root'[u] # Nil => Inherits(u) \/ Counts(Contents(u)', size'[u]), Sized
    PROVE  Sized'
<1>1. ASSUME NEW u \in Trees, root'[u] # Nil PROVE Counts(Contents(u)', size'[u])
  <2>1. CASE Inherits(u)
    BY <2>1 DEF Inherits, Sized
  <2> QED BY <1>1, <2>1
<1> QED BY <1>1 DEF Sized

\* The contents before and after a step, as entries that nodes hold.
LEMMA StepContents ==
    ASSUME NEW rank, NEW own, NEW zone, Good(heap, root, call, rank, own, zone),
           NEW rank2, NEW own2, NEW zone2, Good(heap', root', call', rank2, own2, zone2)
    PROVE  /\ MapInv'
           /\ \A u \in Trees : \A e : e \in Contents(u) <=> Holds(heap, own, u, e)
           /\ \A u \in Trees : \A e : e \in Contents(u)' <=> Holds(heap', own2, u, e)
<1>1. MapInv'
  BY DEF MapInv, Good
<1>2. Forest(heap, root, rank, own) /\ Forest(heap', root', rank2, own2)
  BY DEF Good, Core
<1>3. \A u \in Trees : \A e : e \in Contents(u) <=> Holds(heap, own, u, e)
  BY <1>2, ContentsOwned
<1>4. \A u \in Trees : \A e : e \in Contents(u)' <=> Holds(heap', own2, u, e)
  BY <1>2, ContentsOwnedNext
<1> QED BY <1>1, <1>3, <1>4

\* The same entries in all trees: the users see nothing.
LEMMA SameShown ==
    ASSUME NEW rank, NEW own, NEW zone, Good(heap, root, call, rank, own, zone),
           NEW rank2, NEW own2, NEW zone2, Good(heap', root', call', rank2, own2, zone2),
           \A u, e : Holds(heap', own2, u, e) <=> Holds(heap, own, u, e),
           size' = size, \A u \in Trees : root'[u] # Nil => root[u] # Nil
    PROVE  MapStep
<1>1. /\ MapInv'
      /\ \A u \in Trees : \A e : e \in Contents(u) <=> Holds(heap, own, u, e)
      /\ \A u \in Trees : \A e : e \in Contents(u)' <=> Holds(heap', own2, u, e)
  BY StepContents
<1>2. \A u \in Trees : Contents(u)' = Contents(u)
  BY <1>1
<1>3. Shown' = Shown
  BY <1>2 DEF Shown
<1>4. \A u \in Trees : root'[u] # Nil => Inherits(u)
  BY <1>2 DEF Inherits
<1> QED BY <1>1, <1>3, <1>4, SizedStep DEF MapStep

\* The first insertion is an insertion into an empty map.
LEMMA InsertFirstStep ==
    ASSUME NEW rank, NEW own, NEW zone, Good(heap, root, call, rank, own, zone),
           NEW t \in Trees, NEW k \in Keys, NEW v \in Values, InsertFirst(t, k, v),
           size \in [Trees -> Nat]
    PROVE  MapStep
<1> PICK l : l = FreeNodes(heap, 1)[1]
  OBVIOUS
<1> PICK node : node = Leaf(<<k>>, <<v>>, Nil)
  OBVIOUS
<1> PICK own2 : own2 = With(own, l, t)
  OBVIOUS
<1>1. Core(heap, root, rank, own, call) /\ Mapped(heap, root, own, zone)
  BY DEF Good
<1>2. Core(heap', root', With(rank, l, 0), own2, call')
  BY <1>1, InsertFirstCore
<1>3. Mapped(heap', root', own2, With(zone, l, Int)) /\ l \in (1..MaxNodes) \ DOMAIN heap
  BY <1>1, InsertFirstMapped
<1>4. call' = Idle /\ root[t] = Nil /\ heap' = With(heap, l, node)
  BY DEF InsertFirst
<1>5. Good(heap', root', call', With(rank, l, 0), own2, With(zone, l, Int))
  BY <1>2, <1>3, <1>4 DEF Good, KeyAt
<1>6. DOMAIN own = DOMAIN heap /\ \A n \in DOMAIN heap : own[n] # t
  <2>1. Forest(heap, root, rank, own)
    BY <1>1 DEF Core
  <2>2. \A n \in DOMAIN heap : own[n] # t
    BY <1>4, <2>1, SubtreeOwned
  <2> QED BY <2>1, <2>2 DEF Forest, Linked
<1>7. \A u, e : Holds(heap', own2, u, e) <=> Holds(heap, own, u, e) \/ (u = t /\ e \in Entries(node))
  <2>1. l \notin DOMAIN heap
    BY <1>3
  <2> PICK h : h = heap
    OBVIOUS
  <2>2. \A u, e : Holds(With(h, l, node), With(own, l, t), u, e) <=>
          Holds(h, own, u, e) \/ (u = t /\ e \in Entries(node))
    BY <1>6, <2>1, NewRootHolds
  <2> QED BY <1>4, <2>2
<1>8. \A e : e \in Entries(node) <=> e = <<k, v>>
  <2>1. node.keys = <<k>> /\ node.values = <<v>>
    BY DEF Leaf
  <2>2. DOMAIN <<v>> = {1} /\ <<k>>[1] = k /\ <<v>>[1] = v
    OBVIOUS
  <2>3. DOMAIN node.values = {1} /\ node.keys[1] = k /\ node.values[1] = v
    BY <2>1, <2>2
  <2>4. Entries(node) = {<<node.keys[i], node.values[i]>> : i \in {1}}
    BY <2>3 DEF Entries
  <2>5. Entries(node) = {<<k, v>>}
    BY <2>3, <2>4
  <2> QED BY <2>5
<1>9. \A e : ~Holds(heap, own, t, e)
  BY <1>6 DEF Holds
<1>10. /\ MapInv'
       /\ \A u \in Trees : \A e : e \in Contents(u) <=> Holds(heap, own, u, e)
       /\ \A u \in Trees : \A e : e \in Contents(u)' <=> Holds(heap', own2, u, e)
  BY <1>5, StepContents
<1>11. \A u \in Trees : Contents(u)' =
         IF u = t THEN {e \in Contents(u) : e[1] # k} \union {<<k, v>>} ELSE Contents(u)
  <2>1. Contents(t)' = {e \in Contents(t) : e[1] # k} \union {<<k, v>>}
    BY <1>7, <1>8, <1>9, <1>10
  <2>2. \A u \in Trees \ {t} : Contents(u)' = Contents(u)
    BY <1>7, <1>10
  <2> QED BY <2>1, <2>2
<1>12. Maps!Insert(t, k, v)
  BY <1>11 DEF Maps!Insert
<1>13. ASSUME NEW u \in Trees, root'[u] # Nil PROVE Inherits(u) \/ Counts(Contents(u)', size'[u])
  <2>1. CASE u = t
    <3>1. Contents(t)' = {<<k, v>>}
      BY <1>9, <1>10, <1>11
    <3>2. size'[t] = 1
      BY DEF InsertFirst
    <3> QED BY <2>1, <3>1, <3>2, FirstCount
  <2>2. CASE u # t
    <3>1. root \in [Trees -> DOMAIN heap \union {Nil}]
      BY <1>1 DEF Core, Forest, Rooted
    <3>2. root'[u] = root[u] /\ size'[u] = size[u]
      BY <2>2, <3>1 DEF InsertFirst
    <3> QED BY <1>11, <1>13, <2>2, <3>2 DEF Inherits
  <2> QED BY <2>1, <2>2
<1>14. Sized => Sized'
  BY <1>13, SizedStep
<1> QED BY <1>10, <1>12, <1>14 DEF Maps!Next, MapStep, Shown

\* The call of an insertion changes no entry, nor does the split of the root.
LEMMA InsertStep ==
    ASSUME NEW rank, NEW own, NEW zone, Good(heap, root, call, rank, own, zone),
           NEW t \in Trees, NEW k \in Keys, NEW v \in Values, Insert(t, k, v)
    PROVE  MapStep
<1> PICK c : c = root[t]
  OBVIOUS
<1>1. Core(heap, root, rank, own, call) /\ Mapped(heap, root, own, zone) /\ root[t] # Nil
  BY DEF Good, Insert
<1>2. CASE ~Full(heap[c])
  <2>1. Core(heap, root, rank, own, call')
    BY <1>1, <1>2, InsertCore
  <2>2. heap' = heap /\ root' = root /\ call' = [tree |-> t, node |-> c, key |-> k, value |-> v]
    BY <1>2 DEF Insert
  <2>3. KeyAt(zone, call')
    <3>1. zone[c] = Int /\ k \in Int
      BY <1>1, KeysAssumption DEF Mapped, RootZones
    <3> QED BY <2>2, <3>1 DEF KeyAt
  <2>4. Good(heap', root', call', rank, own, zone)
    BY <1>1, <2>1, <2>2, <2>3 DEF Good
  <2>5. \A u, e : Holds(heap', own, u, e) <=> Holds(heap, own, u, e)
    BY <2>2
  <2>6. size' = size
    BY DEF Insert
  <2> QED BY <2>2, <2>4, <2>5, <2>6, SameShown
<1>3. CASE Full(heap[c])
  <2> PICK p : p = FreeNodes(heap, 2)[1]
    OBVIOUS
  <2> PICK neu : neu = FreeNodes(heap, 2)[2]
    OBVIOUS
  <2> PICK h : h = Raised(t, p)
    OBVIOUS
  <2> PICK r2 : r2 = [root EXCEPT ![t] = p]
    OBVIOUS
  <2> PICK i : First(i)
    BY DEF First
  <2> PICK g : g = heap'
    OBVIOUS
  <2> PICK own1 : own1 = With(own, p, t)
    OBVIOUS
  <2> PICK own2 : own2 = Like(own1, neu, c)
    OBVIOUS
  <2> PICK rank1 : rank1 = RaisedRank(rank, t, p)
    OBVIOUS
  <2>1. IsRootSplit(rank, own, t, k, v, p, i, neu, h, r2, c)
    BY <1>1, <1>3, RootSplitFacts
  <2>2. Core(heap', root', Like(rank1, neu, c), own2, call')
    BY <1>1, <1>3, InsertSplitCore
  <2> PICK zone2 : Mapped(heap', root', own2, zone2) /\ KeyAt(zone2, call')
    BY <1>1, <2>1, InsertSplitMapped
  <2>3. Good(heap', root', call', Like(rank1, neu, c), own2, zone2)
    BY <2>2 DEF Good
  <2>4. /\ Linked(h, rank1, own1) /\ p \in DOMAIN h /\ neu \in (1..MaxNodes) \ DOMAIN h
        /\ c \in DOMAIN h \ {p} /\ ~h[p].leaf /\ IsFullSplit(h, g, p, i, c, neu)
        /\ p \notin DOMAIN heap /\ p \in (1..MaxNodes) \ DOMAIN heap
    <3>1. DOMAIN h \subseteq 1..MaxNodes /\ DOMAIN h = DOMAIN heap \union {p} /\ p \notin DOMAIN heap
      BY <2>1 DEF IsRootSplit, Forest, Linked, HeapType
    <3> QED BY <2>1, <3>1 DEF IsRootSplit, Forest
  <2>5. Zoned(h, With(zone, p, Int))
    BY <1>1, <2>4, RaisedMapped DEF Mapped
  <2>6. \A u, e : Holds(h, own1, u, e) <=> Holds(heap, own, u, e)
    <3> PICK node : node = Inner(<<>>, <<c>>)
      OBVIOUS
    <3> PICK h0 : h0 = heap
      OBVIOUS
    <3>1. DOMAIN own = DOMAIN h0 /\ p \notin DOMAIN h0
      BY <1>1, <2>4 DEF Core, Forest, Linked
    <3>2. \A u, e : Holds(With(h0, p, node), With(own, p, t), u, e) <=>
            Holds(h0, own, u, e) \/ (u = t /\ e \in Entries(node))
      BY <3>1, NewRootHolds
    <3>3. \A e : e \notin Entries(node)
      <4>1. node.values = <<>> /\ DOMAIN <<>> = {}
        BY DEF Inner
      <4> QED BY <4>1 DEF Entries
    <3>4. h = With(h0, p, node)
      BY DEF Raised
    <3> QED BY <3>2, <3>3, <3>4
  <2>7. Linked(g, Like(rank1, neu, c), own2) /\ Zoned(g, zone2)
    BY <2>2 DEF Core, Forest, Mapped
  <2>8. \A u, e : Holds(g, own2, u, e) <=> Holds(h, own1, u, e)
    <3>1. neu \notin DOMAIN h
      BY <2>4
    <3> QED BY <2>4, <2>5, <2>7, <3>1, SplitHolds
  <2>9. \A u, e : Holds(heap', own2, u, e) <=> Holds(heap, own, u, e)
    BY <2>6, <2>8
  <2>10. size' = size /\ \A u \in Trees : root'[u] # Nil => root[u] # Nil
    <3>1. root \in [Trees -> DOMAIN heap \union {Nil}]
      BY <1>1 DEF Core, Forest, Rooted
    <3>2. size' = size /\ root' = [root EXCEPT ![t] = FreeNodes(heap, 2)[1]]
      BY <1>3 DEF Insert
    <3>3. \A u \in Trees : u = t \/ root'[u] = root[u]
      BY <3>1, <3>2
    <3> QED BY <1>1, <3>2, <3>3
  <2> QED BY <2>3, <2>9, <2>10, SameShown
<1> QED BY <1>2, <1>3

\* Descend changes no entry.
LEMMA DescendStep ==
    ASSUME NEW rank, NEW own, NEW zone, Good(heap, root, call, rank, own, zone), Descend
    PROVE  MapStep
<1> PICK p : p = call.node
  OBVIOUS
<1> PICK i : i = UpperBound(heap[p].keys, call.key) + 1
  OBVIOUS
<1> PICK c : c = heap[p].children[i]
  OBVIOUS
<1> PICK neu : neu = FreeNodes(heap, 1)[1]
  OBVIOUS
<1> PICK own2 : own2 = Like(own, neu, c)
  OBVIOUS
<1>1. Core(heap, root, rank, own, call) /\ Mapped(heap, root, own, zone) /\ KeyAt(zone, call)
  BY ZenonT(40) DEF Good
<1>2. CASE Full(heap[c])
  <2>1. IsDescent(rank, own, p, i, c, neu)
    BY <1>1, <1>2, DescendSplitFacts
  <2>2. Core(heap', root', Like(rank, neu, c), own2, call')
    BY <1>1, <2>1, DescendSplitCore
  <2> PICK zone2 : Mapped(heap', root', own2, zone2) /\ KeyAt(zone2, call')
    BY <1>1, <2>1, DescendSplitMapped, ZenonT(40)
  <2>3. Good(heap', root', call', Like(rank, neu, c), own2, zone2)
    BY <2>2 DEF Good
  <2> PICK h : h = heap
    OBVIOUS
  <2> PICK g : g = heap'
    OBVIOUS
  <2>4. /\ Linked(h, rank, own) /\ Zoned(h, zone) /\ p \in DOMAIN h /\ neu \notin DOMAIN h
        /\ c \in DOMAIN h \ {p} /\ ~h[p].leaf /\ IsFullSplit(h, g, p, i, c, neu)
        /\ Linked(g, Like(rank, neu, c), own2) /\ Zoned(g, zone2)
    BY <1>1, <2>1, <2>2, Zenon DEF IsDescent, Core, Forest, Mapped
  <2>5. \A u, e : Holds(g, own2, u, e) <=> Holds(h, own, u, e)
    BY <2>4, SplitHolds
  <2>6. size' = size /\ root' = root
    BY DEF Descend
  <2> QED BY <2>3, <2>5, <2>6, SameShown
<1>3. CASE ~Full(heap[c])
  <2>1. Core(heap, root, rank, own, call') /\ heap' = heap /\ root' = root
    BY <1>1, <1>3, DescendCore
  <2>2. call # Idle /\ ~heap[p].leaf /\ call' = [call EXCEPT !.node = c]
    BY <1>3 DEF Descend
  <2>3. call.key \in zone[c]
    BY <1>1, <2>2, DescendKeyAt
  <2>4. call'.node = c /\ call'.key = call.key
    <3>1. [call EXCEPT !.node = c] =
            [tree |-> call.tree, node |-> c, key |-> call.key, value |-> call.value]
      BY <1>1, <2>2, CallFacts
    <3> QED BY <2>2, <3>1
  <2>5. Good(heap', root', call', rank, own, zone)
    BY <1>1, <2>1, <2>3, <2>4 DEF Good, KeyAt
  <2>6. \A u, e : Holds(heap', own, u, e) <=> Holds(heap, own, u, e)
    BY <2>1
  <2>7. size' = size
    BY DEF Descend
  <2> QED BY <2>1, <2>5, <2>6, <2>7, SameShown
<1> QED BY <1>2, <1>3

\* The tree has the key of the pending insertion if its leaf has it at its place.
LEMMA PutPlace ==
    ASSUME NEW rank, NEW own, Core(heap, root, rank, own, call), NEW zone,
           Mapped(heap, root, own, zone), KeyAt(zone, call), NEW l, l = call.node,
           NEW a, NEW b, NEW i, NEW k, NEW v, IsPut(own, l, a, b, i, k, v), NEW t, t = call.tree
    PROVE  (\E e : Holds(heap, own, t, e) /\ e[1] = k) <=> (i <= Len(a.keys) /\ a.keys[i] = k)
<1>1. /\ l \in DOMAIN heap /\ a = heap[l] /\ own[l] = t /\ a.leaf /\ k \in zone[l]
      /\ a.keys \in Seq(Keys) /\ i = LowerBound(a.keys, k) + 1 /\ i \in 1..(Len(a.keys) + 1) /\ k \in Int
  BY KeysAssumption DEF IsPut, KeyAt, IsNode
<1>2. Linked(heap, rank, own) /\ Zoned(heap, zone) /\ Apart(heap, own, zone)
  BY DEF Core, Forest, Mapped
<1>3. \A e : Holds(heap, own, t, e) <=> \E n \in DOMAIN heap : \E j : own[n] = t /\ IsEntry(heap[n], j, e)
  BY <1>2, HoldsFacts
<1>4. ASSUME i <= Len(a.keys), a.keys[i] = k PROVE \E e : Holds(heap, own, t, e) /\ e[1] = k
  <2> PICK e : e = <<a.keys[i], a.values[i]>>
    OBVIOUS
  <2>1. i \in 1..Len(a.keys)
    BY <1>1, <1>4
  <2>2. IsEntry(a, i, e) /\ e[1] = k
    BY <1>1, <1>4, <2>1 DEF IsEntry
  <2> QED BY <1>1, <1>3, <2>2
<1>5. ASSUME NEW e, Holds(heap, own, t, e), e[1] = k PROVE i <= Len(a.keys) /\ a.keys[i] = k
  <2> PICK n, j : n \in DOMAIN heap /\ own[n] = t /\ IsEntry(heap[n], j, e)
    BY <1>3, <1>5
  <2>1. heap[n].leaf /\ j \in 1..Len(heap[n].keys) /\ heap[n].keys[j] = k
    BY <1>5 DEF IsEntry
  <2>2. k \in zone[n]
    BY <1>2, <2>1 DEF Zoned
  <2>3. n = l
    BY <1>1, <1>2, <2>1, <2>2 DEF Apart
  <2>4. IsRising(a.keys)
    BY <1>1, <1>2 DEF Zoned
  <2>5. \/ LowerBound(a.keys, k) + 1 <= Len(a.keys) /\ a.keys[LowerBound(a.keys, k) + 1] = k
        \/ \A m \in 1..Len(a.keys) : a.keys[m] # k
    BY <1>1, <2>4, BoundsPlace
  <2> QED BY <1>1, <2>1, <2>3, <2>5
<1> QED BY <1>4, <1>5

\* PutInLeaf is the insertion.
LEMMA PutStep ==
    ASSUME NEW rank, NEW own, NEW zone, Good(heap, root, call, rank, own, zone), PutInLeaf,
           size \in [Trees -> Nat]
    PROVE  MapStep
<1> PICK l : l = call.node
  OBVIOUS
<1> PICK n : n = heap[l]
  OBVIOUS
<1> PICK b : b = heap'[l]
  OBVIOUS
<1> PICK k : k = call.key
  OBVIOUS
<1> PICK v : v = call.value
  OBVIOUS
<1> PICK i : i = LowerBound(n.keys, k) + 1
  OBVIOUS
<1> PICK t : t = call.tree
  OBVIOUS
<1>1. Core(heap, root, rank, own, call) /\ Mapped(heap, root, own, zone) /\ KeyAt(zone, call)
  BY DEF Good
<1>2. IsPut(own, l, n, b, i, k, v)
  BY <1>1, PutFacts
<1>3. Core(heap', root', rank, own, call') /\ Mapped(heap', root', own, zone)
  BY <1>1, <1>2, PutCore, PutMapped
<1>4. t \in Trees /\ k \in Keys /\ v \in Values /\ call' = Idle
  BY <1>2 DEF IsPut
<1>5. Good(heap', root', call', rank, own, zone)
  BY <1>3, <1>4 DEF Good, KeyAt
<1>6. Forest(heap', root', rank, own)
  BY <1>3 DEF Core
<1>7. \A u, e : Holds(heap', own, u, e) <=>
        IF u = t THEN Put(e, k, v, Holds(heap, own, u, e)) ELSE Holds(heap, own, u, e)
  BY <1>1, <1>2, <1>3, <1>6, PutChanges
<1>8. /\ MapInv'
      /\ \A u \in Trees : \A e : e \in Contents(u) <=> Holds(heap, own, u, e)
      /\ \A u \in Trees : \A e : e \in Contents(u)' <=> Holds(heap', own, u, e)
  BY <1>5, StepContents
<1>9. \A u \in Trees : Contents(u)' =
        IF u = t THEN {e \in Contents(u) : e[1] # k} \union {<<k, v>>} ELSE Contents(u)
  <2>1. Contents(t)' = {e \in Contents(t) : e[1] # k} \union {<<k, v>>}
    <3>1. ASSUME NEW e
          PROVE  e \in Contents(t)' <=> (e \in Contents(t) /\ e[1] # k) \/ e = <<k, v>>
      <4>1. Holds(heap', own, t, e) <=> Put(e, k, v, Holds(heap, own, t, e))
        BY <1>7
      <4>2. /\ e \in Contents(t) <=> Holds(heap, own, t, e)
            /\ e \in Contents(t)' <=> Holds(heap', own, t, e)
        BY <1>4, <1>8
      <4> QED BY Zenon, <4>1, <4>2 DEF Put
    <3> QED BY <3>1
  <2>2. \A u \in Trees \ {t} : Contents(u)' = Contents(u)
    BY <1>7, <1>8
  <2> QED BY <2>1, <2>2
<1>10. Maps!Insert(t, k, v)
  BY <1>9 DEF Maps!Insert
<1>11. k \in KeysIn(Contents(t)) <=> i <= Len(n.keys) /\ n.keys[i] = k
  <2>1. (\E e : Holds(heap, own, t, e) /\ e[1] = k) <=> (i <= Len(n.keys) /\ n.keys[i] = k)
    BY <1>1, <1>2, PutPlace
  <2>2. k \in KeysIn(Contents(t)) <=> \E e : Holds(heap, own, t, e) /\ e[1] = k
    BY <1>4, <1>8 DEF KeysIn
  <2> QED BY <2>1, <2>2
<1>12. /\ size'[t] = IF k \in KeysIn(Contents(t)) THEN size[t] ELSE size[t] + 1
       /\ \A u \in Trees \ {t} : size'[u] = size[u]
  <2>1. \/ (i <= Len(n.keys) /\ n.keys[i] = k) /\ size' = size
        \/ ~(i <= Len(n.keys) /\ n.keys[i] = k) /\ size' = [size EXCEPT ![t] = @ + 1]
    <3>1. IF i <= Len(n.keys) /\ n.keys[i] = k THEN Overwrite(n, i) ELSE AddEntry(n, i)
      BY DEF PutInLeaf
    <3>2. Overwrite(n, i) => size' = size
      BY DEF Overwrite
    <3>3. AddEntry(n, i) => size' = [size EXCEPT ![t] = @ + 1]
      BY DEF AddEntry
    <3> QED BY <3>1, <3>2, <3>3
  <2>2. t \in DOMAIN size
    BY <1>4
  <2>3. size'[t] = IF i <= Len(n.keys) /\ n.keys[i] = k THEN size[t] ELSE size[t] + 1
    BY <2>1, <2>2
  <2>4. \A u \in Trees \ {t} : size'[u] = size[u]
    BY <2>1
  <2> QED BY <1>11, <2>3, <2>4
<1>13. ASSUME Sized, NEW u \in Trees, root'[u] # Nil
       PROVE  Inherits(u) \/ Counts(Contents(u)', size'[u])
  <2>1. root' = root
    BY DEF PutInLeaf
  <2>2. CASE u = t
    <3>1. Counts(Contents(t), size[t])
      BY <1>4, <1>13, <2>1, <2>2 DEF Sized
    <3>2. Counts({e \in Contents(t) : e[1] # k} \union {<<k, v>>}, size'[t])
      <4>1. PICK C, x, y : C = Contents(t) /\ x = size[t] /\ y = size'[t]
        OBVIOUS
      <4>2. y = IF k \in KeysIn(C) THEN x ELSE x + 1
        BY <1>12, <4>1
      <4>3. Counts(C, x)
        BY <3>1, <4>1
      <4>4. Counts({e \in C : e[1] # k} \union {<<k, v>>}, y)
        BY <4>2, <4>3, PutCount
      <4> QED BY <4>1, <4>4
    <3> QED BY <1>4, <1>9, <2>2, <3>2
  <2>3. CASE u # t
    BY <1>9, <1>12, <1>13, <2>1, <2>3 DEF Inherits
  <2> QED BY <2>2, <2>3
<1>14. Sized => Sized'
  BY <1>13, SizedStep
<1> QED BY <1>4, <1>8, <1>10, <1>14 DEF Maps!Next, MapStep, Shown

\* Clear is one, too.
LEMMA ClearStep ==
    ASSUME NEW rank, NEW own, NEW zone, Good(heap, root, call, rank, own, zone),
           NEW t \in Trees, Clear(t), size \in [Trees -> Nat]
    PROVE  MapStep
<1> PICK D : IsRest(own, t, D)
  BY RestFacts DEF Good, Core
<1> PICK own2 : own2 = Part(own, D)
  OBVIOUS
<1>1. Core(heap, root, rank, own, call) /\ Mapped(heap, root, own, zone)
  BY DEF Good
<1>2. heap' = Part(heap, D) /\ root' = [root EXCEPT ![t] = Nil] /\ call' = Idle
  BY DEF Clear, IsRest
<1>3. Core(heap', root', Part(rank, D), own2, call')
  BY <1>1, ClearCore
<1>4. Mapped(heap', root', own2, Part(zone, D))
  BY <1>1, <1>2, RestMapped
<1>5. Good(heap', root', call', Part(rank, D), own2, Part(zone, D))
  BY <1>2, <1>3, <1>4 DEF Good, KeyAt
<1>6. \A u, e : Holds(heap', own2, u, e) <=> u # t /\ Holds(heap, own, u, e)
  <2>1. \A u, e : Holds(Part(heap, D), Part(own, D), u, e) <=> u # t /\ Holds(heap, own, u, e)
    BY RestHolds
  <2> QED BY <1>2, <2>1
<1>7. /\ MapInv'
      /\ \A u \in Trees : \A e : e \in Contents(u) <=> Holds(heap, own, u, e)
      /\ \A u \in Trees : \A e : e \in Contents(u)' <=> Holds(heap', own2, u, e)
  BY <1>5, StepContents
<1>8. \A u \in Trees : Contents(u)' = IF u = t THEN {} ELSE Contents(u)
  <2>1. Contents(t)' = {}
    BY <1>6, <1>7
  <2>2. \A u \in Trees \ {t} : Contents(u)' = Contents(u)
    BY <1>6, <1>7
  <2> QED BY <2>1, <2>2
<1>9. Maps!Clear(t)
  BY <1>8 DEF Maps!Clear
<1>10. ASSUME NEW u \in Trees, root'[u] # Nil PROVE Inherits(u)
  <2>1. root \in [Trees -> DOMAIN heap \union {Nil}]
    BY <1>1 DEF Core, Forest, Rooted
  <2>2. u # t /\ root'[u] = root[u] /\ size'[u] = size[u]
    BY <1>10, <2>1 DEF Clear
  <2> QED BY <1>8, <1>10, <2>2 DEF Inherits
<1>11. Sized => Sized'
  BY <1>10, SizedStep
<1> QED BY <1>7, <1>9, <1>11 DEF Maps!Next, MapStep, Shown

\* Move is one.
LEMMA MoveStep ==
    ASSUME NEW rank, NEW own, NEW zone, Good(heap, root, call, rank, own, zone),
           NEW t \in Trees, NEW from \in Trees, Move(t, from), size \in [Trees -> Nat]
    PROVE  MapStep
<1> PICK D : IsRest(own, t, D)
  BY RestFacts DEF Good, Core
<1> PICK own1 : own1 = Part(own, D)
  OBVIOUS
<1> PICK own2 : own2 = Handed(own1, t, from)
  OBVIOUS
<1>1. Core(heap, root, rank, own, call) /\ Mapped(heap, root, own, zone)
  BY DEF Good
<1>2. heap' = Part(heap, D) /\ call' = Idle /\ t # from
  BY DEF Move, IsRest
<1>3. Core(heap', root', Part(rank, D), own2, call')
  BY <1>1, MoveCore
<1>4. Mapped(heap', root', own2, Part(zone, D))
  BY <1>1, MoveMapped
<1>5. Good(heap', root', call', Part(rank, D), own2, Part(zone, D))
  BY <1>2, <1>3, <1>4 DEF Good, KeyAt
<1>6. \A u, e : Holds(heap', own2, u, e) <=>
        IF u = t THEN Holds(heap, own, from, e) ELSE u # from /\ Holds(heap, own, u, e)
  <2>1. D \in SUBSET DOMAIN heap /\ \A n \in DOMAIN heap : n \in D <=> own[n] # t
    BY DEF IsRest
  <2>2. \A u, e : Holds(Part(heap, D), Part(own, D), u, e) <=> u # t /\ Holds(heap, own, u, e)
    BY RestHolds
  <2> PICK g : g = Part(heap, D)
    OBVIOUS
  <2>3. DOMAIN own1 = DOMAIN g /\ \A n \in DOMAIN g : own1[n] # t
    BY <2>1 DEF Part
  <2>4. \A u, e : Holds(g, Handed(own1, t, from), u, e) <=>
          IF u = t THEN Holds(g, own1, from, e) ELSE u # from /\ Holds(g, own1, u, e)
    BY <1>2, <2>3, HandHolds
  <2>5. \A u, e : Holds(g, own1, u, e) <=> u # t /\ Holds(heap, own, u, e)
    BY <2>2
  <2> QED BY <1>2, <2>4, <2>5
<1>7. /\ MapInv'
      /\ \A u \in Trees : \A e : e \in Contents(u) <=> Holds(heap, own, u, e)
      /\ \A u \in Trees : \A e : e \in Contents(u)' <=> Holds(heap', own2, u, e)
  BY <1>5, StepContents
<1>8. \A u \in Trees : Contents(u)' =
        IF u = t THEN Contents(from) ELSE IF u = from THEN {} ELSE Contents(u)
  <2>1. Contents(t)' = Contents(from)
    BY <1>6, <1>7
  <2>2. Contents(from)' = {}
    BY <1>2, <1>6, <1>7
  <2>3. \A u \in Trees \ {t, from} : Contents(u)' = Contents(u)
    BY <1>6, <1>7
  <2> QED BY <2>1, <2>2, <2>3
<1>9. Maps!Move(t, from)
  BY <1>2, <1>8 DEF Maps!Move
<1>10. ASSUME NEW u \in Trees, root'[u] # Nil PROVE Inherits(u)
  <2>1. root \in [Trees -> DOMAIN heap \union {Nil}]
    BY <1>1 DEF Core, Forest, Rooted
  <2>2. /\ u # from /\ root'[t] = root[from] /\ size'[t] = size[from]
        /\ u # t => root'[u] = root[u] /\ size'[u] = size[u]
    BY <1>2, <1>10, <2>1 DEF Move
  <2> QED BY <1>8, <1>10, <2>2 DEF Inherits
<1>11. Sized => Sized'
  BY <1>10, SizedStep
<1> QED BY <1>2, <1>7, <1>9, <1>11 DEF Maps!Next, MapStep, Shown

\* Copy is one.
LEMMA CopyStep ==
    ASSUME NEW rank, NEW own, NEW zone, Good(heap, root, call, rank, own, zone),
           NEW t \in Trees, NEW from \in Trees, Copy(t, from), size \in [Trees -> Nat]
    PROVE  MapStep
<1> PICK D : IsRest(own, t, D)
  BY RestFacts DEF Good, Core
<1>1. Core(heap, root, rank, own, call) /\ Mapped(heap, root, own, zone) /\ Held(heap, root, rank, own)
  BY DEF Good, Core, Held
<1> PICK S, F, f, s : IsCopy(own, t, from, D, S, F, f, s)
  BY <1>1, CopyFacts
<1> PICK h : h = Part(heap, D)
  OBVIOUS
<1> PICK r1 : r1 = [root EXCEPT ![t] = Nil]
  OBVIOUS
<1> PICK own1 : own1 = Part(own, D)
  OBVIOUS
<1> PICK rank1 : rank1 = Part(rank, D)
  OBVIOUS
<1> PICK zone1 : zone1 = Part(zone, D)
  OBVIOUS
<1> PICK own2 : Given(own1, own2, F, t)
  BY DEF Given
<1> PICK rank2 : rank2 = CopyRank(rank1, F, s)
  OBVIOUS
<1> PICK zone2 : zone2 = CopyRank(zone1, F, s)
  OBVIOUS
<1>2. /\ t # from /\ IsClone(h, heap', S, F, f, s) /\ call' = Idle
      /\ \A n \in D : n \in S <=> own[n] = from
  BY DEF IsCopy
<1>3. Core(heap', root', rank2, own2, call')
  BY <1>1, CopyCore DEF Given
<1>4. Mapped(heap', root', own2, zone2)
  BY <1>1, CopyMapped DEF Given
<1>5. Good(heap', root', call', rank2, own2, zone2)
  BY <1>2, <1>3, <1>4 DEF Good, KeyAt
<1>6. D \in SUBSET DOMAIN heap /\ \A n \in DOMAIN heap : n \in D <=> own[n] # t
  BY DEF IsRest
<1>7. \A u, e : Holds(h, own1, u, e) <=> u # t /\ Holds(heap, own, u, e)
  <2>1. \A u, e : Holds(Part(heap, D), Part(own, D), u, e) <=> u # t /\ Holds(heap, own, u, e)
    BY RestHolds
  <2> QED BY <2>1
<1>8. \A u, e : Holds(heap', own2, u, e) <=>
        IF u = t THEN Holds(h, own1, from, e) ELSE Holds(h, own1, u, e)
  <2> PICK g : g = heap'
    OBVIOUS
  <2>1. Linked(h, rank1, own1) /\ Zoned(h, zone1)
    BY <1>1, RestMapped DEF Forest, Mapped
  <2>2. Linked(g, rank2, own2) /\ Zoned(g, zone2)
    BY <1>3, <1>4 DEF Core, Forest, Mapped
  <2>3. Sources(h, own1, S, from, t)
    BY <1>2, <1>6 DEF Part, Sources
  <2>4. t # from /\ IsClone(h, g, S, F, f, s)
    BY <1>2
  <2>5. Copied(h, own1, g, own2, t, from)
    BY <2>1, <2>2, <2>3, <2>4, CloneHolds
  <2> QED BY <2>5 DEF Copied
<1>9. /\ MapInv'
      /\ \A u \in Trees : \A e : e \in Contents(u) <=> Holds(heap, own, u, e)
      /\ \A u \in Trees : \A e : e \in Contents(u)' <=> Holds(heap', own2, u, e)
  BY <1>5, StepContents
<1>10. \A u \in Trees : Contents(u)' = IF u = t THEN Contents(from) ELSE Contents(u)
  <2>1. Contents(t)' = Contents(from)
    BY <1>2, <1>7, <1>8, <1>9
  <2>2. \A u \in Trees \ {t} : Contents(u)' = Contents(u)
    BY <1>7, <1>8, <1>9
  <2> QED BY <2>1, <2>2
<1>11. Maps!Copy(t, from)
  BY <1>10 DEF Maps!Copy
<1>12. ASSUME NEW u \in Trees, root'[u] # Nil PROVE Inherits(u)
  <2>1. root \in [Trees -> DOMAIN heap \union {Nil}]
    BY <1>1 DEF Core, Forest, Rooted
  <2>2. /\ root'[t] # Nil => root[from] # Nil
        /\ size'[t] = size[from]
        /\ u # t => root'[u] = root[u] /\ size'[u] = size[u]
    BY <2>1 DEF Copy
  <2> QED BY <1>10, <1>12, <2>2 DEF Inherits
<1>13. Sized => Sized'
  BY <1>12, SizedStep
<1> QED BY <1>2, <1>9, <1>11, <1>13 DEF Maps!Next, MapStep, Shown

\* So is every step, and the zones stay.
LEMMA NextMapped ==
    ASSUME IInv, MapInv, [Next]_vars
    PROVE  MapStep
<1> PICK rank, own, zone : Good(heap, root, call, rank, own, zone)
  BY DEF MapInv, Good
<1>1. size \in [Trees -> Nat]
  BY DEF IInv
<1>2. ASSUME NEW t \in Trees, NEW k \in Keys, NEW v \in Values,
             InsertFirst(t, k, v) \/ Insert(t, k, v)
      PROVE  MapStep
  BY <1>1, <1>2, InsertFirstStep, InsertStep
<1>3. CASE Descend
  BY <1>3, DescendStep
<1>4. CASE PutInLeaf
  BY <1>1, <1>4, PutStep
<1>5. ASSUME NEW t \in Trees, Clear(t) PROVE MapStep
  BY <1>1, <1>5, ClearStep
<1>6. ASSUME NEW t \in Trees, NEW from \in Trees, Copy(t, from) \/ Move(t, from) PROVE MapStep
  BY <1>1, <1>6, CopyStep, MoveStep
<1>7. CASE UNCHANGED vars
  <2>1. heap' = heap /\ root' = root /\ call' = call /\ size' = size
    BY <1>7 DEF vars
  <2>2. Good(heap', root', call', rank, own, zone)
    BY <2>1
  <2>3. \A u, e : Holds(heap', own, u, e) <=> Holds(heap, own, u, e)
    BY <2>1
  <2> QED BY <2>1, <2>2, <2>3, SameShown
<1> QED BY <1>2, <1>3, <1>4, <1>5, <1>6, <1>7 DEF Next, Insertion, WholeTree

\* At first every map is empty.
LEMMA InitMaps ==
    ASSUME Init
    PROVE  Maps!Init
<1>1. MapInv /\ \A t \in Trees : root[t] = Nil
  BY InitMapped DEF Init
<1> PICK rank, own, zone : Good(heap, root, call, rank, own, zone)
  BY <1>1 DEF MapInv, Good
<1>2. DOMAIN heap = {} /\ Forest(heap, root, rank, own)
  BY DEF Init, NoNodes, Good, Core
<1>3. \A t \in Trees : Contents(t) = {}
  BY <1>2, ContentsOwned DEF Holds
<1> QED BY <1>3 DEF Maps!Init

\* Every behaviour of the trees, seen through the entries of their leaves, is a behaviour
\* of independent maps: a node that splits on the way down shows nothing, the entry lands
\* where a search finds it, a copy shares nothing and a move empties its source.
THEOREM ImplementsMapsHolds == Spec => ImplementsMaps
<1>1. Init => Maps!Init
  BY InitMaps
<1>2. Init => MapInv
  BY InitMapped
<1>3. IInv /\ MapInv /\ [Next]_vars => MapInv' /\ [Maps!Next]_Shown
  BY NextMapped DEF MapStep
<1> QED BY <1>1, <1>2, <1>3, Invariance, PTL DEF Spec, ImplementsMaps, Maps!Spec, Shown

-----------------------------------------------------------------------------
(* Iteration                                                               *)

\* The places of tree t are those of its keys.
IsPlace(own, t, it) ==
    /\ it.leaf \in DOMAIN heap /\ heap[it.leaf].leaf /\ own[it.leaf] = t
    /\ it.index \in 1..Len(heap[it.leaf].keys)
Places(own, t) == {it \in [leaf : DOMAIN heap, index : Nat] : IsPlace(own, t, it)}
KeyOf(it) == heap[it.leaf].keys[it.index]
KeysOf(own, t) == {KeyOf(it) : it \in Places(own, t)}

\* A leaf of tree t with its keys and its zone.
IsLeafOf(own, zone, t, l, s) ==
    /\ l \in DOMAIN heap /\ heap[l].leaf /\ own[l] = t /\ s = heap[l].keys /\ s \in Seq(Keys)
    /\ IsRising(s) /\ Len(s) \in Nat /\ Len(s) >= 1
    /\ \A i \in 1..Len(s) : s[i] \in zone[l] /\ s[i] \in Int /\ s[i] \in Keys
    /\ \A i, j \in 1..Len(s) : i < j => s[i] < s[j]

\* Every leaf of the tree is such a leaf.
LEMMA LeafOfFacts ==
    ASSUME NEW rank, NEW own, NEW zone, Good(heap, root, call, rank, own, zone),
           NEW l \in DOMAIN heap, heap[l].leaf
    PROVE  IsLeafOf(own, zone, own[l], l, heap[l].keys)
<1> PICK s : s = heap[l].keys
  OBVIOUS
<1>1. Linked(heap, rank, own) /\ Occupied(heap, root, own) /\ Zoned(heap, zone)
  BY DEF Good, Core, Forest, Mapped
<1>2. s \in Seq(Keys) /\ Len(s) \in Nat
  BY <1>1, ChildFacts
<1>3. Len(s) >= 1
  BY <1>1 DEF Occupied, Fits
<1>4. IsRising(s) /\ \A i \in 1..Len(s) : s[i] \in zone[l]
  BY <1>1 DEF Zoned
<1>5. ASSUME NEW i \in 1..Len(s) PROVE s[i] \in Keys /\ s[i] \in Int
  <2>1. s[i] \in Keys
    BY <1>2
  <2> QED BY <2>1, KeysAssumption
<1>6. \A i, j \in 1..Len(s) : i < j => s[i] < s[j]
  BY <1>4 DEF IsRising, Rising
<1> QED BY <1>2, <1>3, <1>4, <1>5, <1>6 DEF IsLeafOf

\* A place is in a leaf.
LEMMA PlaceFacts ==
    ASSUME NEW rank, NEW own, NEW zone, Good(heap, root, call, rank, own, zone), NEW t,
           NEW it \in Places(own, t)
    PROVE  /\ IsLeafOf(own, zone, t, it.leaf, heap[it.leaf].keys)
           /\ it = [leaf |-> it.leaf, index |-> it.index] /\ it.leaf # Nil
           /\ it.index \in 1..Len(heap[it.leaf].keys)
           /\ KeyOf(it) \in Int /\ KeyOf(it) \in Keys /\ KeyOf(it) \in zone[it.leaf]
<1>1. it \in [leaf : DOMAIN heap, index : Nat] /\ IsPlace(own, t, it)
  BY DEF Places
<1>2. IsLeafOf(own, zone, t, it.leaf, heap[it.leaf].keys)
  BY <1>1, LeafOfFacts DEF IsPlace
<1>3. it = [leaf |-> it.leaf, index |-> it.index]
  BY <1>1
<1>4. Nil \notin DOMAIN heap
  BY HeapFinite DEF Good, Core, Forest, Linked
<1>5. KeyOf(it) \in Int /\ KeyOf(it) \in Keys /\ KeyOf(it) \in zone[it.leaf]
  BY <1>1, <1>2 DEF IsPlace, IsLeafOf, KeyOf
<1> QED BY <1>1, <1>2, <1>3, <1>4, <1>5 DEF IsPlace

\* A leaf and an index make a place.
LEMMA PlaceIn ==
    ASSUME NEW own, NEW zone, NEW t, NEW l, NEW s, IsLeafOf(own, zone, t, l, s), NEW i \in 1..Len(s)
    PROVE  [leaf |-> l, index |-> i] \in Places(own, t) /\ KeyOf([leaf |-> l, index |-> i]) = s[i]
<1>1. l \in DOMAIN heap /\ heap[l].leaf /\ own[l] = t /\ s = heap[l].keys /\ i \in Nat
  BY DEF IsLeafOf
<1>2. [leaf |-> l, index |-> i].leaf = l /\ [leaf |-> l, index |-> i].index = i
  OBVIOUS
<1>3. [leaf |-> l, index |-> i] \in [leaf : DOMAIN heap, index : Nat]
  BY <1>1
<1> QED BY <1>1, <1>2, <1>3 DEF Places, IsPlace, KeyOf

\* The contents of a tree are at its places.
LEMMA TreeKeys ==
    ASSUME NEW rank, NEW own, NEW zone, Good(heap, root, call, rank, own, zone), NEW t \in Trees
    PROVE  KeysIn(Contents(t)) = KeysOf(own, t)
<1>1. Forest(heap, root, rank, own) /\ Linked(heap, rank, own) /\ Zoned(heap, zone)
  BY DEF Good, Core, Forest, Mapped
<1>2. \A e : e \in Contents(t) <=> Holds(heap, own, t, e)
  BY <1>1, ContentsOwned
<1>3. \A e : Holds(heap, own, t, e) <=> \E n \in DOMAIN heap : \E i : own[n] = t /\ IsEntry(heap[n], i, e)
  BY <1>1, HoldsFacts
<1>4. ASSUME NEW k \in KeysIn(Contents(t)) PROVE k \in KeysOf(own, t)
  <2>1. PICK e : e \in Contents(t) /\ e[1] = k
    BY <1>4 DEF KeysIn
  <2>2. PICK n, i : n \in DOMAIN heap /\ own[n] = t /\ IsEntry(heap[n], i, e)
    BY <1>2, <1>3, <2>1
  <2>3. heap[n].leaf /\ i \in 1..Len(heap[n].keys) /\ heap[n].keys[i] = k
    BY <2>1, <2>2 DEF IsEntry
  <2>4. IsLeafOf(own, zone, t, n, heap[n].keys)
    BY <2>2, <2>3, LeafOfFacts
  <2>5. [leaf |-> n, index |-> i] \in Places(own, t)
        /\ KeyOf([leaf |-> n, index |-> i]) = heap[n].keys[i]
    BY <2>3, <2>4, PlaceIn
  <2> QED BY <2>3, <2>5 DEF KeysOf
<1>5. ASSUME NEW k \in KeysOf(own, t) PROVE k \in KeysIn(Contents(t))
  <2>1. PICK it \in Places(own, t) : KeyOf(it) = k
    BY <1>5 DEF KeysOf
  <2>2. it.leaf \in DOMAIN heap /\ heap[it.leaf].leaf /\ own[it.leaf] = t
        /\ it.index \in 1..Len(heap[it.leaf].keys)
    BY DEF Places, IsPlace
  <2>3. PICK e : e = <<heap[it.leaf].keys[it.index], heap[it.leaf].values[it.index]>>
    OBVIOUS
  <2>4. IsEntry(heap[it.leaf], it.index, e) /\ e[1] = k
    BY <2>1, <2>2, <2>3 DEF IsEntry, KeyOf
  <2>5. e \in Contents(t)
    BY <1>2, <1>3, <2>2, <2>4
  <2> QED BY <2>4, <2>5 DEF KeysIn
<1> QED BY <1>4, <1>5

\* What find() answers: the value at the place of the key, or nothing.
Finds(own, t, k) ==
    /\ \A it \in Places(own, t) : KeyOf(it) = k => Find(t, k) = {heap[it.leaf].values[it.index]}
    /\ k \notin KeysOf(own, t) => Find(t, k) = {}

\* find() finds a key wherever the tree has it.
LEMMA FindFacts ==
    ASSUME NEW rank, NEW own, NEW zone, Good(heap, root, call, rank, own, zone),
           NEW t \in Trees, root[t] # Nil, NEW k \in Int
    PROVE  Finds(own, t, k)
<1> PICK l : l = FindLeaf(heap, root[t], k)
  OBVIOUS
<1> PICK s : s = heap[l].keys
  OBVIOUS
<1> PICK i : i = LowerBound(s, k) + 1
  OBVIOUS
<1>1. /\ Linked(heap, rank, own) /\ Zoned(heap, zone) /\ Apart(heap, own, zone)
      /\ root[t] \in DOMAIN heap /\ own[root[t]] = t /\ zone[root[t]] = Int
  BY DEF Good, Core, Forest, Rooted, Mapped, RootZones
<1>2. IsFound(heap, own, zone, root[t], k, l)
  BY <1>1, FindLeafFacts
<1>3. l \in DOMAIN heap /\ heap[l].leaf /\ own[l] = t /\ k \in zone[l]
  BY <1>1, <1>2 DEF IsFound
<1>4. IsLeafOf(own, zone, t, l, s)
  BY <1>3, LeafOfFacts
<1>5. Find(t, k) = IF i <= Len(s) /\ s[i] = k THEN {heap[l].values[i]} ELSE {}
  BY DEF Find
<1>6. i \in 1..(Len(s) + 1) /\ ((i <= Len(s) /\ s[i] = k) \/ \A j \in 1..Len(s) : s[j] # k)
  <2>1. s \in Seq(Keys) /\ IsRising(s)
    BY <1>4 DEF IsLeafOf
  <2> QED BY <2>1, BoundsPlace
<1>7. ASSUME NEW it \in Places(own, t), KeyOf(it) = k
      PROVE  Find(t, k) = {heap[it.leaf].values[it.index]}
  <2>1. /\ it.leaf \in DOMAIN heap /\ heap[it.leaf].leaf /\ own[it.leaf] = t
        /\ it.index \in 1..Len(heap[it.leaf].keys) /\ k \in zone[it.leaf]
    <3>1. k \in zone[it.leaf]
      BY <1>7, PlaceFacts
    <3> QED BY <3>1 DEF Places, IsPlace
  <2>2. it.leaf = l
    BY <1>1, <1>3, <2>1 DEF Apart
  <2>3. PICK j \in 1..Len(s) : j = it.index /\ s[j] = k
    BY <1>7, <2>1, <2>2 DEF KeyOf
  <2>4. i \in 1..Len(s) /\ s[i] = k
    BY <1>4, <1>6, <2>3 DEF IsLeafOf
  <2>5. i = j
    <3>1. s[i] \in Int /\ (i < j => s[i] < s[j]) /\ (j < i => s[j] < s[i])
      BY <1>4, <2>4 DEF IsLeafOf
    <3>2. ~(i < j) /\ ~(j < i)
      BY <2>3, <2>4, <3>1
    <3> QED BY <1>4, <2>4, <3>2 DEF IsLeafOf
  <2>6. Find(t, k) = {heap[l].values[i]}
    BY <1>5, <1>6, <2>3
  <2> QED BY <2>2, <2>3, <2>5, <2>6
<1>8. ASSUME k \notin KeysOf(own, t) PROVE Find(t, k) = {}
  <2>1. ASSUME i <= Len(s), s[i] = k PROVE FALSE
    <3>1. i \in 1..Len(s)
      BY <1>4, <1>6, <2>1 DEF IsLeafOf
    <3>2. [leaf |-> l, index |-> i] \in Places(own, t) /\ KeyOf([leaf |-> l, index |-> i]) = s[i]
      BY <1>4, <3>1, PlaceIn
    <3> QED BY <1>8, <2>1, <3>2 DEF KeysOf
  <2> QED BY <1>5, <2>1
<1> QED BY <1>7, <1>8 DEF Finds

\* In a leaf the keys are in the order of their places.
LEMMA InLeaf ==
    ASSUME NEW rank, NEW own, NEW zone, Good(heap, root, call, rank, own, zone), NEW t,
           NEW it \in Places(own, t), NEW jt \in Places(own, t), it.leaf = jt.leaf
    PROVE  it.index <= jt.index => KeyOf(it) <= KeyOf(jt)
<1> PICK s : s = heap[it.leaf].keys
  OBVIOUS
<1> PICK i : i = it.index
  OBVIOUS
<1> PICK j : j = jt.index
  OBVIOUS
<1>1. IsLeafOf(own, zone, t, it.leaf, s) /\ i \in 1..Len(s) /\ j \in 1..Len(s)
  BY PlaceFacts
<1>2. KeyOf(it) = s[i] /\ KeyOf(jt) = s[j]
  BY DEF KeyOf
<1>3. Len(s) \in Nat /\ s[i] \in Int /\ s[j] \in Int /\ (i < j => s[i] < s[j])
  BY <1>1 DEF IsLeafOf
<1>4. i <= j => i < j \/ i = j
  BY <1>1, <1>3
<1>5. i <= j => s[i] <= s[j]
  BY <1>3, <1>4
<1> QED BY <1>2, <1>5

\* Keys in different leaves are in the order of the leaves.
LEMMA AcrossLeaves ==
    ASSUME NEW rank, NEW own, NEW zone, Good(heap, root, call, rank, own, zone), NEW t,
           NEW it \in Places(own, t), NEW jt \in Places(own, t), Before(zone, it.leaf, jt.leaf)
    PROVE  KeyOf(it) < KeyOf(jt)
<1>1. KeyOf(it) \in zone[it.leaf] /\ KeyOf(jt) \in zone[jt.leaf]
  BY PlaceFacts
<1> QED BY <1>1 DEF Before

\* The leaf of a place, seen from another one: it is the same, or before, or behind.
LEMMA LeafFollows ==
    ASSUME NEW rank, NEW own, NEW zone, Good(heap, root, call, rank, own, zone), NEW t,
           NEW it \in Places(own, t)
    PROVE  Follows(heap, own, zone, it.leaf, heap[it.leaf].next) /\ own[it.leaf] = t
<1>1. it.leaf \in DOMAIN heap /\ heap[it.leaf].leaf /\ own[it.leaf] = t
  BY DEF Places, IsPlace
<1> QED BY <1>1 DEF Good, Mapped, Chained

\* operator++ goes from a key to the next one, or from the last one to the end.
LEMMA AdvancedFacts ==
    ASSUME NEW rank, NEW own, NEW zone, Good(heap, root, call, rank, own, zone), NEW t,
           NEW it \in Places(own, t), NEW V, V = Places(own, t),
           NEW key, key = [jt \in V |-> KeyOf(jt)], NEW K, K = KeysOf(own, t)
    PROVE  IsWalkStep(V, key, K, End, it, Advanced(it))
<1> PICK l : l = it.leaf
  OBVIOUS
<1> PICK s : s = heap[l].keys
  OBVIOUS
<1> PICK i : i = it.index
  OBVIOUS
<1> PICK n : n = heap[l].next
  OBVIOUS
<1>1. /\ IsLeafOf(own, zone, t, l, s) /\ i \in 1..Len(s) /\ it = [leaf |-> l, index |-> i] /\ l # Nil
      /\ KeyOf(it) \in Int /\ Len(s) \in Nat
  BY PlaceFacts DEF IsLeafOf
<1>2. Follows(heap, own, zone, l, n) /\ own[l] = t
  BY LeafFollows
<1>3. ASSUME NEW jt \in V, jt.leaf # l
      PROVE  \/ Before(zone, jt.leaf, l)
             \/ Before(zone, l, jt.leaf) /\ n # Nil /\ (jt.leaf = n \/ Before(zone, n, jt.leaf))
  <2>1. jt.leaf \in DOMAIN heap /\ heap[jt.leaf].leaf /\ own[jt.leaf] = t
    BY DEF Places, IsPlace
  <2> QED BY <1>2, <1>3, <2>1 DEF Follows
<1>4. \A jt \in V : KeyOf(jt) \in Int /\ jt.index \in Int
  <2>1. ASSUME NEW jt \in V PROVE KeyOf(jt) \in Int /\ jt.index \in Int
    BY PlaceFacts DEF IsLeafOf
  <2> QED BY <2>1
<1>5. \A k \in K : \E jt \in V : k = KeyOf(jt)
  BY DEF KeysOf
<1>6. CASE i < Len(s)
  <2> PICK y : y = [leaf |-> l, index |-> i + 1]
    OBVIOUS
  <2>1. Advanced(it) = y
    BY <1>1, <1>6 DEF Advanced
  <2>2. i + 1 \in 1..Len(s)
    BY <1>1, <1>6
  <2>3. y \in V /\ KeyOf(y) = s[i + 1] /\ y.leaf = l /\ y.index = i + 1
    BY <1>1, <2>2, PlaceIn
  <2>4. KeyOf(it) < KeyOf(y)
    <3>1. KeyOf(it) = s[i] /\ i < i + 1
      BY <1>1 DEF KeyOf
    <3> QED BY <1>1, <2>2, <2>3, <3>1 DEF IsLeafOf
  <2>5. ASSUME NEW jt \in V PROVE KeyOf(jt) <= KeyOf(it) \/ KeyOf(y) <= KeyOf(jt)
    <3>1. CASE jt.leaf = l
      <4>1. jt.index <= i \/ i + 1 <= jt.index
        BY <1>1, <1>4
      <4>2. jt.index <= i => KeyOf(jt) <= KeyOf(it)
        BY <3>1, InLeaf
      <4>3. i + 1 <= jt.index => KeyOf(y) <= KeyOf(jt)
        BY <2>3, <3>1, InLeaf
      <4> QED BY <4>1, <4>2, <4>3
    <3>2. CASE jt.leaf # l
      <4>1. Before(zone, jt.leaf, l) \/ Before(zone, l, jt.leaf)
        BY <1>3, <3>2
      <4>2. Before(zone, jt.leaf, l) => KeyOf(jt) < KeyOf(it)
        BY AcrossLeaves
      <4>3. Before(zone, l, jt.leaf) => KeyOf(y) < KeyOf(jt)
        BY <2>3, AcrossLeaves
      <4>4. KeyOf(jt) \in Int /\ KeyOf(it) \in Int /\ KeyOf(y) \in Int
        BY <1>1, <1>4, <2>3
      <4> QED BY <4>1, <4>2, <4>3, <4>4
    <3> QED BY <3>1, <3>2
  <2>6. \A k \in K : k <= key[it] \/ key[y] <= k
    BY <1>5, <2>3, <2>5
  <2> QED BY <2>1, <2>3, <2>4, <2>6 DEF IsWalkStep
<1>7. CASE ~(i < Len(s)) /\ n = Nil
  <2>1. Advanced(it) = End
    BY <1>1, <1>7 DEF Advanced, End
  <2>2. ASSUME NEW jt \in V PROVE KeyOf(jt) <= KeyOf(it)
    <3>1. CASE jt.leaf = l
      <4>1. jt.index \in 1..Len(s)
        BY <3>1, PlaceFacts
      <4>2. jt.index <= i
        BY <1>1, <1>7, <4>1
      <4> QED BY <3>1, <4>2, InLeaf
    <3>2. CASE jt.leaf # l
      <4>1. KeyOf(jt) < KeyOf(it)
        BY <1>3, <1>7, <3>2, AcrossLeaves
      <4> QED BY <1>1, <1>4, <4>1
    <3> QED BY <3>1, <3>2
  <2>3. \A k \in K : k <= key[it]
    BY <1>5, <2>2
  <2> QED BY <2>1, <2>3 DEF IsWalkStep
<1>8. CASE ~(i < Len(s)) /\ n # Nil
  <2> PICK y : y = [leaf |-> n, index |-> 1]
    OBVIOUS
  <2>1. Advanced(it) = y
    BY <1>1, <1>8 DEF Advanced
  <2>2. n \in DOMAIN heap /\ heap[n].leaf /\ own[n] = t /\ Before(zone, l, n)
    BY <1>2, <1>8 DEF Follows
  <2>3. IsLeafOf(own, zone, t, n, heap[n].keys)
    BY <2>2, LeafOfFacts
  <2>4. 1 \in 1..Len(heap[n].keys)
    BY <2>3 DEF IsLeafOf
  <2>5. y \in V /\ y.leaf = n /\ y.index = 1
    BY <2>3, <2>4, PlaceIn
  <2>6. KeyOf(it) < KeyOf(y)
    BY <2>2, <2>5, AcrossLeaves
  <2>7. ASSUME NEW jt \in V PROVE KeyOf(jt) <= KeyOf(it) \/ KeyOf(y) <= KeyOf(jt)
    <3>0. KeyOf(jt) \in Int /\ KeyOf(it) \in Int /\ KeyOf(y) \in Int
      BY <1>1, <1>4, <2>5
    <3>1. CASE jt.leaf = l
      <4>1. jt.index \in 1..Len(s)
        BY <3>1, PlaceFacts
      <4>2. jt.index <= i
        BY <1>1, <1>8, <4>1
      <4>3. KeyOf(jt) <= KeyOf(it)
        BY <3>1, <4>2, InLeaf
      <4> QED BY <4>3
    <3>2. CASE jt.leaf = n
      <4>1. 1 <= jt.index
        BY PlaceFacts
      <4>2. KeyOf(y) <= KeyOf(jt)
        BY <2>5, <3>2, <4>1, InLeaf
      <4> QED BY <4>2
    <3>3. CASE jt.leaf # l /\ jt.leaf # n
      <4>1. Before(zone, jt.leaf, l) \/ Before(zone, n, jt.leaf)
        BY <1>3, <3>3
      <4>2. Before(zone, jt.leaf, l) => KeyOf(jt) < KeyOf(it)
        BY AcrossLeaves
      <4>3. Before(zone, n, jt.leaf) => KeyOf(y) < KeyOf(jt)
        BY <2>5, AcrossLeaves
      <4> QED BY <3>0, <4>1, <4>2, <4>3
    <3> QED BY <3>1, <3>2, <3>3
  <2>8. \A k \in K : k <= key[it] \/ key[y] <= k
    BY <1>5, <2>5, <2>7
  <2> QED BY <2>1, <2>5, <2>6, <2>8 DEF IsWalkStep
<1> QED BY <1>6, <1>7, <1>8

\* begin() is at the least key.
LEMMA BeginFacts ==
    ASSUME NEW rank, NEW own, NEW zone, Good(heap, root, call, rank, own, zone),
           NEW t \in Trees, root[t] # Nil
    PROVE  Begin(t) \in Places(own, t) /\ \A k \in KeysOf(own, t) : KeyOf(Begin(t)) <= k
<1> PICK l : l = LeftmostLeaf(heap, root[t])
  OBVIOUS
<1> PICK y : y = [leaf |-> l, index |-> 1]
  OBVIOUS
<1>1. /\ Linked(heap, rank, own) /\ Zoned(heap, zone) /\ Apart(heap, own, zone)
      /\ root[t] \in DOMAIN heap /\ own[root[t]] = t /\ zone[root[t]] = Int
  BY DEF Good, Core, Forest, Rooted, Mapped, RootZones
<1>2. Leads(heap, own, zone, root[t], l)
  BY <1>1, LeftmostFacts
<1>3. /\ l \in DOMAIN heap /\ heap[l].leaf /\ own[l] = t
      /\ \A a \in zone[l], b \in Int \ zone[l] : a < b
  BY <1>1, <1>2 DEF Leads
<1>4. IsLeafOf(own, zone, t, l, heap[l].keys)
  BY <1>3, LeafOfFacts
<1>5. 1 \in 1..Len(heap[l].keys)
  BY <1>4 DEF IsLeafOf
<1>6. y \in Places(own, t) /\ y.leaf = l /\ y.index = 1
  BY <1>4, <1>5, PlaceIn
<1>7. ASSUME NEW jt \in Places(own, t) PROVE KeyOf(y) <= KeyOf(jt)
  <2>1. CASE jt.leaf = l
    <3>1. 1 <= jt.index
      BY PlaceFacts
    <3> QED BY <1>6, <2>1, <3>1, InLeaf
  <2>2. CASE jt.leaf # l
    <3>1. jt.leaf \in DOMAIN heap /\ heap[jt.leaf].leaf /\ own[jt.leaf] = t
      BY DEF Places, IsPlace
    <3>2. KeyOf(jt) \in zone[jt.leaf] /\ KeyOf(jt) \in Int
      BY PlaceFacts
    <3>3. KeyOf(y) \in zone[l] /\ KeyOf(y) \in Int
      BY <1>6, PlaceFacts
    <3>4. KeyOf(jt) \notin zone[l]
      BY <1>1, <1>3, <2>2, <3>1, <3>2 DEF Apart
    <3>5. KeyOf(y) < KeyOf(jt)
      BY <1>3, <3>2, <3>3, <3>4
    <3> QED BY <3>2, <3>3, <3>5
  <2> QED BY <2>1, <2>2
<1>8. Begin(t) = y
  BY DEF Begin
<1> QED BY <1>6, <1>7, <1>8 DEF KeysOf

\* The iterators that IterationComplete is about, and what it says of them.
AreIterators(at, t) ==
    at = [i \in 0..size[t] |-> IF i = 0 THEN Begin(t) ELSE Advanced(at[i - 1])]
TreeComplete(t, at) ==
    /\ size[t] = Cardinality({k \in Keys : Find(t, k) # {}})
    /\ \A i \in 0..(size[t] - 1) :
         /\ at[i].leaf \in DOMAIN heap
         /\ Find(t, KeyOf(at[i])) = {heap[at[i].leaf].values[at[i].index]}
         /\ i > 0 => KeyOf(at[i - 1]) < KeyOf(at[i])
    /\ at[size[t]] = End

\* There are such iterators.
LEMMA IteratorsExist ==
    ASSUME NEW rank, NEW own, NEW zone, Good(heap, root, call, rank, own, zone),
           NEW t \in Trees, root[t] # Nil, size[t] \in Nat
    PROVE  \E at : AreIterators(at, t)
<1> PICK V : V = Places(own, t)
  OBVIOUS
<1> DEFINE step == [it \in V \union {End} |-> Advanced(it)]
<1>1. Begin(t) \in V
  BY BeginFacts
<1>2. ASSUME NEW it \in V \union {End} PROVE Advanced(it) \in V \union {End}
  <2>1. CASE it \in V
    <3>1. PICK key, K : key = [jt \in V |-> KeyOf(jt)] /\ K = KeysOf(own, t)
      OBVIOUS
    <3>2. IsWalkStep(V, key, K, End, it, Advanced(it))
      BY <2>1, <3>1, AdvancedFacts
    <3> QED BY <3>2 DEF IsWalkStep
  <2>2. CASE it = End
    BY <2>2 DEF Advanced, End
  <2> QED BY <2>1, <2>2
<1>3. step \in [V \union {End} -> V \union {End}]
  BY <1>2
<1>4. \A it \in V \union {End} : step[it] = Advanced(it)
  OBVIOUS
<1> HIDE DEF step
<1>5. PICK n \in Nat : n = size[t]
  OBVIOUS
<1> PICK W : W = V \union {End}
  OBVIOUS
<1>6. \E f : IsIteration(f, W, Begin(t), step, n)
  BY <1>1, <1>3, IterationExists
<1> PICK f : IsIteration(f, W, Begin(t), step, n)
  BY <1>6
<1>7. f \in [0..n -> W] /\ f[0] = Begin(t) /\ \A i \in 1..n : f[i] = step[f[i - 1]]
  BY DEF IsIteration
<1>8. ASSUME NEW i \in 0..n PROVE f[i] = IF i = 0 THEN Begin(t) ELSE Advanced(f[i - 1])
  <2>1. i # 0 => i \in 1..n /\ i - 1 \in 0..n
    BY <1>5
  <2>2. i # 0 => f[i - 1] \in V \union {End}
    BY <1>7, <2>1
  <2> QED BY <1>4, <1>7, <2>1, <2>2
<1>9. f = [i \in 0..n |-> IF i = 0 THEN Begin(t) ELSE Advanced(f[i - 1])]
  BY <1>7, <1>8
<1> QED BY <1>5, <1>9 DEF AreIterators

\* They come to every entry of the tree.
LEMMA IteratorsComplete ==
    ASSUME NEW rank, NEW own, NEW zone, Good(heap, root, call, rank, own, zone),
           NEW t \in Trees, root[t] # Nil, Counts(Contents(t), size[t]),
           NEW at, AreIterators(at, t)
    PROVE  TreeComplete(t, at)
<1> PICK V : V = Places(own, t)
  OBVIOUS
<1> PICK K : K = KeysOf(own, t)
  OBVIOUS
<1> PICK key : key = [it \in V |-> KeyOf(it)]
  OBVIOUS
<1>1. PICK n : n = size[t]
  OBVIOUS
<1>2. \A it \in V : KeyOf(it) \in Int /\ KeyOf(it) \in Keys /\ KeyOf(it) \in K /\ it.leaf \in DOMAIN heap
  <2>1. ASSUME NEW it \in V
        PROVE  KeyOf(it) \in Int /\ KeyOf(it) \in Keys /\ KeyOf(it) \in K /\ it.leaf \in DOMAIN heap
    BY PlaceFacts DEF KeysOf, IsLeafOf
  <2> QED BY <2>1
<1>3. K \in SUBSET Int /\ K \subseteq Keys
  BY <1>2 DEF KeysOf
<1>4. IsFiniteSet(K) /\ n = Cardinality(K)
  <2>1. KeysIn(Contents(t)) = K
    BY TreeKeys
  <2> QED BY <1>1, <2>1 DEF Counts
<1>5. n \in Nat
  BY <1>4, FS_CardinalityType
<1>6. at[0] = Begin(t) /\ \A i \in 0..(n - 1) : at[i + 1] = Advanced(at[i])
  <2>1. at = [i \in 0..n |-> IF i = 0 THEN Begin(t) ELSE Advanced(at[i - 1])]
    BY <1>1 DEF AreIterators
  <2>2. 0 \in 0..n /\ \A i \in 0..(n - 1) : i + 1 \in 0..n /\ i + 1 # 0 /\ (i + 1) - 1 = i
    BY <1>5
  <2>3. \A j \in 0..n : at[j] = IF j = 0 THEN Begin(t) ELSE Advanced(at[j - 1])
    BY <2>1
  <2>4. at[0] = Begin(t)
    BY <2>2, <2>3
  <2>5. ASSUME NEW i \in 0..(n - 1) PROVE at[i + 1] = Advanced(at[i])
    BY <2>2, <2>3
  <2> QED BY <2>4, <2>5
<1>7. at[0] \in V /\ \A k \in K : key[at[0]] <= k
  BY <1>6, BeginFacts
<1>8. ASSUME NEW i \in 0..(n - 1), at[i] \in V PROVE IsWalkStep(V, key, K, End, at[i], at[i + 1])
  <2>1. IsWalkStep(V, key, K, End, at[i], Advanced(at[i]))
    BY <1>8, AdvancedFacts
  <2> QED BY <1>6, <2>1
<1>9. End \notin V
  <2>1. \A it \in V : it.leaf # Nil
    BY PlaceFacts
  <2> QED BY <2>1 DEF End
<1>10. key \in [V -> K]
  BY <1>2
<1>11. IsWalk(at, V, key, K, n, End)
  BY <1>3, <1>4, <1>7, <1>8, <1>9, <1>10 DEF IsWalk
<1>12. IsWhole(at, V, key, n, End)
  BY <1>11, WalkWhole
<1>13. \A k \in Int : Finds(own, t, k)
  BY FindFacts
<1>14. {k \in Keys : Find(t, k) # {}} = K
  <2>1. ASSUME NEW k \in K PROVE Find(t, k) # {}
    <3>1. PICK it \in V : k = KeyOf(it)
      BY <2>1 DEF KeysOf
    <3>2. Find(t, k) = {heap[it.leaf].values[it.index]}
      BY <1>2, <1>13, <3>1 DEF Finds
    <3> QED BY <3>2
  <2>2. ASSUME NEW k \in Keys, Find(t, k) # {} PROVE k \in K
    <3>1. k \in Int
      BY KeysAssumption
    <3> QED BY <1>13, <2>2, <3>1 DEF Finds
  <2> QED BY <1>3, <2>1, <2>2
<1>15. ASSUME NEW i \in 0..(n - 1)
       PROVE  /\ at[i].leaf \in DOMAIN heap
              /\ Find(t, KeyOf(at[i])) = {heap[at[i].leaf].values[at[i].index]}
              /\ i > 0 => KeyOf(at[i - 1]) < KeyOf(at[i])
  <2>1. at[i] \in V
    BY <1>12 DEF IsWhole
  <2>2. Find(t, KeyOf(at[i])) = {heap[at[i].leaf].values[at[i].index]}
    BY <1>2, <1>13, <2>1 DEF Finds
  <2>3. ASSUME i > 0 PROVE KeyOf(at[i - 1]) < KeyOf(at[i])
    <3>1. i \in 1..(n - 1) /\ i - 1 \in 0..(n - 1)
      BY <1>5, <2>3
    <3>2. at[i - 1] \in V /\ key[at[i - 1]] < key[at[i]]
      BY <1>12, <3>1 DEF IsWhole
    <3> QED BY <2>1, <3>2
  <2> QED BY <1>2, <2>1, <2>2, <2>3
<1>16. at[n] = End
  BY <1>12 DEF IsWhole
<1> QED BY <1>1, <1>4, <1>14, <1>15, <1>16 DEF TreeComplete

\* Iterating visits every entry of a tree that find() has, once, in the order of the keys,
\* and as many as size() says: a split links its halves where the old leaf was, a copy
\* is linked like its source, and the chain skips no leaf, in the middle of an
\* insertion, too.
THEOREM IterationHolds == Spec => []IterationComplete
<1>1. Init => MapInv /\ Sized
  BY InitMapped DEF Init, Sized
<1>2. IInv /\ MapInv /\ Sized /\ [Next]_vars => MapInv' /\ Sized'
  BY NextMapped, SMTT(30) DEF MapStep
<1>3. IInv /\ MapInv /\ Sized => IterationComplete
  <2> SUFFICES ASSUME IInv, MapInv, Sized PROVE IterationComplete
    OBVIOUS
  <2> PICK rank, own, zone : Good(heap, root, call, rank, own, zone)
    BY DEF MapInv, Good
  <2>1. ASSUME NEW t \in Trees, root[t] # Nil
        PROVE  TreeComplete(t, CHOOSE at : AreIterators(at, t))
    <3>1. size[t] \in Nat /\ Counts(Contents(t), size[t])
      BY <2>1 DEF IInv, Sized
    <3>2. AreIterators(CHOOSE at : AreIterators(at, t), t)
      BY <2>1, <3>1, IteratorsExist
    <3> QED BY <2>1, <3>1, <3>2, IteratorsComplete
  <2> QED BY <2>1, Zenon DEF IterationComplete, TreeComplete, AreIterators, KeyOf
<1> QED BY <1>1, <1>2, <1>3, Invariance, PTL DEF Spec
=============================================================================
