------------------------- MODULE ConvergecastProofs -------------------------
(***************************************************************************)
(* Proofs about SpanningTree and Convergecast, for every graph, number of  *)
(* runs and order of the scans: the tree that is built, and the sums that  *)
(* go up it, in messages and in calls.                                     *)
(***************************************************************************)
EXTENDS Convergecast, FiniteFolds, SequenceTheorems, TLAPS

-----------------------------------------------------------------------------
(* Sequences                                                               *)

\* What appending an element does.
LEMMA AppendFacts ==
    ASSUME NEW S, NEW s \in Seq(S), NEW e \in S
    PROVE  /\ Append(s, e) \in Seq(S)
           /\ ToSet(Append(s, e)) = ToSet(s) \union {e}
           /\ IsInjective(s) /\ e \notin ToSet(s) => IsInjective(Append(s, e))
<1>1. /\ Append(s, e) \in Seq(S)
      /\ Len(Append(s, e)) = Len(s) + 1
      /\ \A i \in 1..Len(s) : Append(s, e)[i] = s[i]
      /\ Append(s, e)[Len(s) + 1] = e
  OBVIOUS
<1>2. DOMAIN s = 1..Len(s) /\ DOMAIN Append(s, e) = 1..(Len(s) + 1) /\ Len(s) \in Nat
  BY <1>1, LenProperties
<1>3. ToSet(Append(s, e)) \subseteq ToSet(s) \union {e}
  BY <1>1, <1>2 DEF ToSet
<1>4. e \in ToSet(Append(s, e))
  <2>1. Len(s) + 1 \in DOMAIN Append(s, e)
    BY <1>2
  <2> QED BY <1>1, <2>1 DEF ToSet
<1>5. ToSet(s) \subseteq ToSet(Append(s, e))
  BY <1>1, <1>2 DEF ToSet
<1>6. ASSUME IsInjective(s), e \notin ToSet(s) PROVE IsInjective(Append(s, e))
  BY <1>1, <1>2, <1>6 DEF IsInjective, ToSet
<1> QED BY <1>1, <1>3, <1>4, <1>5, <1>6

\* What putting one sequence behind another does.
LEMMA ConcatFacts ==
    ASSUME NEW S, NEW s \in Seq(S), NEW t \in Seq(S)
    PROVE  /\ s \o t \in Seq(S)
           /\ ToSet(s \o t) = ToSet(s) \union ToSet(t)
           /\ IsInjective(s) /\ IsInjective(t) /\ ToSet(s) \intersect ToSet(t) = {}
                => IsInjective(s \o t)
<1> DEFINE m == Len(s)
           n == Len(t)
           c == s \o t
<1>1. /\ m \in Nat /\ n \in Nat
      /\ DOMAIN s = 1..m /\ DOMAIN t = 1..n /\ DOMAIN c = 1..(m + n)
      /\ \A i \in 1..(m + n) : c[i] = IF i <= m THEN s[i] ELSE t[i - m]
      /\ c \in Seq(S)
  BY ConcatProperties, LenProperties
<1> HIDE DEF m, n, c
<1>2. ToSet(c) \subseteq ToSet(s) \union ToSet(t)
  <2>1. ASSUME NEW i \in 1..(m + n) PROVE c[i] \in ToSet(s) \union ToSet(t)
    <3>1. CASE i <= m
      <4>1. i \in 1..m
        BY <1>1, <3>1
      <4> QED BY <1>1, <3>1, <4>1 DEF ToSet
    <3>2. CASE ~(i <= m)
      <4>1. i - m \in 1..n
        BY <1>1, <3>2
      <4> QED BY <1>1, <3>2, <4>1 DEF ToSet
    <3> QED BY <3>1, <3>2
  <2> QED BY <1>1, <2>1 DEF ToSet
<1>3. ToSet(s) \union ToSet(t) \subseteq ToSet(c)
  <2>1. ASSUME NEW i \in 1..m PROVE s[i] \in ToSet(c)
    <3>1. i \in 1..(m + n) /\ i <= m
      BY <1>1
    <3> QED BY <1>1, <3>1 DEF ToSet
  <2>2. ASSUME NEW i \in 1..n PROVE t[i] \in ToSet(c)
    <3>1. i + m \in 1..(m + n) /\ ~(i + m <= m) /\ (i + m) - m = i
      BY <1>1
    <3>2. c[i + m] = t[i]
      BY <1>1, <3>1
    <3> QED BY <1>1, <3>1, <3>2 DEF ToSet
  <2> QED BY <1>1, <2>1, <2>2 DEF ToSet
<1>4. ASSUME IsInjective(s), IsInjective(t), ToSet(s) \intersect ToSet(t) = {}
      PROVE  IsInjective(c)
  <2> SUFFICES ASSUME NEW i \in 1..(m + n), NEW j \in 1..(m + n), c[i] = c[j] PROVE i = j
    BY <1>1 DEF IsInjective
  <2>1. \A k \in 1..m : s[k] \in ToSet(s)
    BY <1>1 DEF ToSet
  <2>2. \A k \in 1..n : t[k] \in ToSet(t)
    BY <1>1 DEF ToSet
  <2>3. (i <= m => i \in 1..m) /\ (~(i <= m) => i - m \in 1..n)
    BY <1>1
  <2>4. (j <= m => j \in 1..m) /\ (~(j <= m) => j - m \in 1..n)
    BY <1>1
  <2>5. CASE i <= m /\ j <= m
    BY <1>1, <1>4, <2>3, <2>4, <2>5 DEF IsInjective
  <2>6. CASE ~(i <= m) /\ ~(j <= m)
    <3>1. i - m = j - m
      BY <1>1, <1>4, <2>3, <2>4, <2>6 DEF IsInjective
    <3> QED BY <1>1, <3>1
  <2>7. CASE i <= m /\ ~(j <= m)
    BY <1>1, <1>4, <2>1, <2>2, <2>3, <2>4, <2>7
  <2>8. CASE ~(i <= m) /\ j <= m
    BY <1>1, <1>4, <2>1, <2>2, <2>3, <2>4, <2>8
  <2> QED BY <2>5, <2>6, <2>7, <2>8
<1> QED BY <1>1, <1>2, <1>3, <1>4 DEF c

\* What taking the first element does.
LEMMA TailFacts ==
    ASSUME NEW S, NEW s \in Seq(S), s # <<>>
    PROVE  /\ Head(s) \in ToSet(s) /\ Head(s) = s[1]
           /\ Tail(s) \in Seq(S)
           /\ ToSet(s) = ToSet(Tail(s)) \union {Head(s)}
           /\ IsInjective(s) => IsInjective(Tail(s)) /\ ToSet(Tail(s)) = ToSet(s) \ {Head(s)}
<1> DEFINE n == Len(s)
           r == Tail(s)
<1>1. /\ n \in Nat /\ n > 0 /\ DOMAIN s = 1..n /\ DOMAIN r = 1..(n - 1)
      /\ \A i \in 1..(n - 1) : r[i] = s[i + 1]
      /\ r \in Seq(S) /\ Head(s) = s[1]
  BY HeadTailProperties, LenProperties, EmptySeq
<1> HIDE DEF n, r
<1>2. Head(s) \in ToSet(s)
  BY <1>1 DEF ToSet
<1>3. ToSet(r) \subseteq ToSet(s)
  <2>1. \A i \in 1..(n - 1) : i + 1 \in 1..n
    BY <1>1
  <2> QED BY <1>1, <2>1 DEF ToSet
<1>4. ToSet(s) \subseteq ToSet(r) \union {Head(s)}
  <2>1. ASSUME NEW i \in 1..n, i # 1 PROVE s[i] \in ToSet(r)
    <3>1. i - 1 \in 1..(n - 1) /\ (i - 1) + 1 = i
      BY <1>1, <2>1
    <3>2. r[i - 1] = s[i]
      BY <1>1, <3>1
    <3> QED BY <1>1, <3>1, <3>2 DEF ToSet
  <2> QED BY <1>1, <2>1 DEF ToSet
<1>5. ASSUME IsInjective(s) PROVE IsInjective(r) /\ Head(s) \notin ToSet(r)
  <2>1. \A i, j \in 1..n : s[i] = s[j] => i = j
    BY <1>1, <1>5 DEF IsInjective
  <2>2. 1 \in 1..n
    BY <1>1
  <2>3. IsInjective(r)
    <3>1. ASSUME NEW i \in 1..(n - 1), NEW j \in 1..(n - 1), r[i] = r[j] PROVE i = j
      <4>1. i + 1 \in 1..n /\ j + 1 \in 1..n
        BY <1>1
      <4>2. s[i + 1] = s[j + 1]
        BY <1>1, <3>1
      <4>3. i + 1 = j + 1
        BY <2>1, <4>1, <4>2
      <4> QED BY <1>1, <4>3
    <3> QED BY <1>1, <3>1 DEF IsInjective
  <2>4. Head(s) \notin ToSet(r)
    <3>1. ASSUME NEW i \in 1..(n - 1), r[i] = s[1] PROVE FALSE
      <4>1. i + 1 \in 1..n /\ i + 1 # 1
        BY <1>1
      <4>2. s[i + 1] = s[1]
        BY <1>1, <3>1
      <4> QED BY <2>1, <2>2, <4>1, <4>2
    <3> QED BY <1>1, <3>1 DEF ToSet
  <2> QED BY <2>3, <2>4
<1> QED BY <1>1, <1>2, <1>3, <1>4, <1>5 DEF r

-----------------------------------------------------------------------------
(* The children a node gets                                                *)

\* The greatest element of 1..k.
LEMMA MaxOfInterval == \A k \in Nat \ {0} : Max(1..k) = k
BY DEF Max

\* The greatest element of a set of positions is one of them.
LEMMA MaxIn ==
    ASSUME NEW n \in Nat, NEW s \in SUBSET (1..n), s # {}
    PROVE  Max(s) \in s
<1>1. PICK m \in s : \A k \in s : k <= m
  <2>1. s \in SUBSET (0..n)
    OBVIOUS
  <2> QED BY <2>1, GreatestNatural
<1>2. m >= m /\ \A k \in s : m >= k
  BY <1>1
<1> QED BY <1>1, <1>2 DEF Max

\* The neighbours of u that are not in the tree, each once.
LEMMA UnvisitedIs ==
    ASSUME NEW u, adj[u] \in Seq(Vertices)
    PROVE  /\ Unvisited(u) \in Seq(Vertices)
           /\ IsInjective(Unvisited(u))
           /\ ToSet(Unvisited(u)) = ToSet(adj[u]) \ Nodes
<1> DEFINE row == adj[u]
           n == Len(row)
           Step(v, new) == IF v \in Nodes \union ToSet(new) THEN new ELSE Append(new, v)
           Rec(g) == g = [s \in SUBSET DOMAIN row |->
                            IF s = {} THEN <<>> ELSE Step(row[Max(s)], g[s \ {Max(s)}])]
           iter == CHOOSE g : Rec(g)
<1>1. Unvisited(u) = iter[DOMAIN row]
  BY DEF Unvisited, FoldLeft, MapThenFoldSet
<1>2. n \in Nat /\ DOMAIN row = 1..n /\ \A i \in 1..n : row[i] \in Vertices
  BY LenProperties, ElementOfSeq
<1>3. \E g : Rec(g)
  <2> DEFINE B == Seq(Vertices)
             step == [p \in Vertices \X B |-> Step(p[1], p[2])]
             pick == [s \in SUBSET DOMAIN row |-> Max(s)]
  <2>1. IsFiniteSet(DOMAIN row)
    BY <1>2, FS_Interval
  <2>2. Picks(pick, DOMAIN row)
    BY <1>2, MaxIn DEF Picks
  <2>3. PICK g : IsFold(g, <<>>, step, row, pick, DOMAIN row)
    <3> HIDE DEF step, pick
    <3> QED BY <2>1, <2>2, FoldExists
  <2>4. <<>> \in B /\ step \in [Vertices \X B -> B]
    <3>1. ASSUME NEW v \in Vertices, NEW new \in B PROVE Step(v, new) \in B
      BY AppendFacts
    <3> HIDE DEF Step
    <3> QED BY <3>1
  <2>5. g \in [SUBSET DOMAIN row -> B]
    <3> HIDE DEF step, pick, B
    <3> QED BY <1>2, <2>1, <2>2, <2>3, <2>4, FoldType
  <2>6. ASSUME NEW s \in SUBSET DOMAIN row, s # {}
        PROVE  g[s] = Step(row[Max(s)], g[s \ {Max(s)}])
    <3>1. g[s] = step[<<row[Max(s)], g[s \ {Max(s)}]>>]
      <4> HIDE DEF step, Step
      <4> QED BY <2>3, <2>6 DEF IsFold
    <3>2. row[Max(s)] \in Vertices /\ g[s \ {Max(s)}] \in B
      BY <1>2, <2>5, <2>6, MaxIn
    <3> HIDE DEF Step
    <3> QED BY <3>1, <3>2
  <2>7. g[{}] = <<>>
    <3> HIDE DEF step
    <3> QED BY <2>3 DEF IsFold
  <2>8. Rec(g)
    <3>1. g = [s \in SUBSET DOMAIN row |-> g[s]]
      BY <2>5
    <3> HIDE DEF Step
    <3> QED BY <2>6, <2>7, <3>1
  <2> QED BY <2>8
<1>4. Rec(iter)
  <2> HIDE DEF Rec
  <2> QED BY <1>3
<1> DEFINE Upto(k) == {row[i] : i \in 1..k}
           Good == {k \in Nat : k <= n =>
                      /\ iter[1..k] \in Seq(Vertices)
                      /\ IsInjective(iter[1..k])
                      /\ ToSet(iter[1..k]) = Upto(k) \ Nodes}
<1>5. 0 \in Good
  <2>1. iter[{}] = <<>> /\ 1..0 = {}
    <3> HIDE DEF iter
    <3> QED BY <1>4
  <2>2. <<>> \in Seq(Vertices) /\ ToSet(<<>>) = {} /\ IsInjective(<<>>)
    BY DEF ToSet, IsInjective
  <2>3. Upto(0) = {}
    OBVIOUS
  <2> HIDE DEF iter, Upto, n
  <2> QED BY <2>1, <2>2, <2>3
<1>6. ASSUME NEW k \in Nat, k \in Good PROVE k + 1 \in Good
  <2> SUFFICES ASSUME k + 1 <= n
               PROVE  /\ iter[1..(k + 1)] \in Seq(Vertices)
                      /\ IsInjective(iter[1..(k + 1)])
                      /\ ToSet(iter[1..(k + 1)]) = Upto(k + 1) \ Nodes
    <3> HIDE DEF iter, Upto, n
    <3> QED OBVIOUS
  <2> DEFINE v == row[k + 1]
             new == iter[1..k]
  <2>1. iter[1..(k + 1)] = Step(v, new)
    <3>1. Max(1..(k + 1)) = k + 1 /\ (1..(k + 1)) \ {k + 1} = 1..k
      BY MaxOfInterval
    <3>2. 1..(k + 1) \in SUBSET DOMAIN row /\ 1..(k + 1) # {}
      <4> HIDE DEF n
      <4>1. 1 \in 1..(k + 1) /\ 1..(k + 1) \subseteq 1..n
        BY <1>2
      <4> QED BY <1>2, <4>1
    <3> HIDE DEF iter, Step
    <3> QED BY <1>4, <3>1, <3>2
  <2>2. new \in Seq(Vertices) /\ IsInjective(new) /\ ToSet(new) = Upto(k) \ Nodes
    <3>1. k <= n
      BY <1>2
    <3> HIDE DEF iter, Upto, n
    <3> QED BY <1>6, <3>1
  <2>3. Upto(k + 1) = Upto(k) \union {v}
    OBVIOUS
  <2>4. v \in Vertices
    BY <1>2
  <2> HIDE DEF iter, v, new, Upto
  <2> QED BY <2>1, <2>2, <2>3, <2>4, AppendFacts
<1>7. n \in Good
  <2> HIDE DEF Good
  <2> QED BY <1>2, <1>5, <1>6, NaturalInduction
<1>8. Upto(n) = ToSet(row)
  BY <1>2 DEF ToSet
<1> HIDE DEF iter
<1> QED BY <1>1, <1>2, <1>7, <1>8

-----------------------------------------------------------------------------
(* The tree                                                                *)

\* TreeOK, with what makes it inductive: nodes that wait in the queue have no
\* children yet, without a root there are no nodes, and the graph does not grow
\* under the construction.
TreeInv ==
    /\ adj \in [Vertices -> Seq(Vertices)]
    /\ Nodes \subseteq Vertices /\ root \in Nodes \union {Nil}
    /\ root = Nil => Nodes = {}
    /\ queue \in Seq(Vertices) /\ IsInjective(queue) /\ ToSet(queue) \subseteq Nodes
    /\ stale => queue = <<>>
    /\ DOMAIN children = Nodes
    /\ \A n \in Nodes :
         /\ children[n] \in Seq(Vertices) /\ IsInjective(children[n])
         /\ ToSet(children[n]) = {c \in Nodes : parent[c] = n}
         /\ parent[n] \in Nodes \union {Nil} /\ (parent[n] = Nil <=> n = root)
         /\ n \in ToSet(queue) => children[n] = <<>>

\* There are no nodes at the start.
LEMMA TreeInit == BuildInit => TreeInv
<1> SUFFICES ASSUME BuildInit PROVE TreeInv
  OBVIOUS
<1>1. Nodes = {} /\ DOMAIN children = {}
  BY DEF BuildInit, NoNodes, Nodes
<1>2. queue = <<>> /\ <<>> \in Seq(Vertices) /\ ToSet(<<>>) = {} /\ IsInjective(<<>>)
  BY DEF BuildInit, ToSet, IsInjective
<1> QED BY <1>1, <1>2 DEF BuildInit, TreeInv

\* Null is no vertex.
LEMMA NilIsNoVertex == Nil \notin Vertices
BY NilAssumption, SizeAssumption DEF Vertices

\* What one round of the loop does.
LEMMA ExpandFacts ==
    ASSUME TreeInv, Expand
    PROVE  LET u   == Head(queue)
               new == Unvisited(u)
           IN  /\ u \in Nodes /\ u \in ToSet(queue) /\ u = queue[1]
               /\ new \in Seq(Vertices) /\ IsInjective(new)
               /\ ToSet(new) = ToSet(adj[u]) \ Nodes
               /\ Nodes' = Nodes \union ToSet(new)
               /\ DOMAIN children' = Nodes'
               /\ \A n \in Nodes : parent'[n] = parent[n]
               /\ \A n \in Nodes \ {u} : children'[n] = children[n]
               /\ \A n \in ToSet(new) : parent'[n] = u /\ children'[n] = <<>>
               /\ children'[u] = new
               /\ queue' = Tail(queue) \o new
               /\ queue' \in Seq(Vertices) /\ IsInjective(queue')
               /\ ToSet(queue') = (ToSet(queue) \ {u}) \union ToSet(new)
               /\ UNCHANGED <<adj, root>> /\ ~stale /\ ~stale'
<1> DEFINE u == Head(queue)
           new == Unvisited(u)
<1>1. queue # <<>> /\ queue \in Seq(Vertices) /\ ~stale
  BY DEF Expand, Building, TreeInv
<1>2. /\ u \in ToSet(queue) /\ u = queue[1] /\ Tail(queue) \in Seq(Vertices)
      /\ IsInjective(Tail(queue)) /\ ToSet(Tail(queue)) = ToSet(queue) \ {u}
  BY <1>1, TailFacts DEF TreeInv
<1>3. u \in Nodes /\ adj[u] \in Seq(Vertices)
  BY <1>2 DEF TreeInv
<1>4. /\ new \in Seq(Vertices) /\ IsInjective(new)
      /\ ToSet(new) = ToSet(adj[u]) \ Nodes
  <2> HIDE DEF u
  <2> QED BY <1>3, UnvisitedIs
<1>5. /\ parent' = [n \in Nodes \union ToSet(new) |-> IF n \in Nodes THEN parent[n] ELSE u]
      /\ children' = [n \in Nodes \union ToSet(new) |->
                        IF n = u THEN new ELSE IF n \in Nodes THEN children[n] ELSE <<>>]
      /\ queue' = Tail(queue) \o new
      /\ UNCHANGED <<adj, root>> /\ ~stale'
  BY <1>1 DEF Expand, graph
<1> HIDE DEF u, new
<1>6. /\ queue' \in Seq(Vertices) /\ IsInjective(queue')
      /\ ToSet(queue') = (ToSet(queue) \ {u}) \union ToSet(new)
  <2>1. ToSet(Tail(queue)) \intersect ToSet(new) = {}
    BY <1>2, <1>4 DEF TreeInv
  <2> DEFINE rest == Tail(queue)
  <2>2. /\ rest \in Seq(Vertices) /\ new \in Seq(Vertices)
        /\ IsInjective(rest) /\ IsInjective(new) /\ ToSet(rest) \intersect ToSet(new) = {}
    BY <1>2, <1>4, <2>1
  <2>3. /\ rest \o new \in Seq(Vertices)
        /\ ToSet(rest \o new) = ToSet(rest) \union ToSet(new)
        /\ IsInjective(rest \o new)
    <3> HIDE DEF rest
    <3> QED BY <2>2, ConcatFacts
  <2> QED BY <1>2, <1>5, <2>3
<1>7. Nodes' = Nodes \union ToSet(new)
  BY <1>5 DEF Nodes
<1>8. /\ DOMAIN children' = Nodes'
      /\ \A n \in Nodes : parent'[n] = parent[n]
      /\ \A n \in Nodes \ {u} : children'[n] = children[n]
      /\ \A n \in ToSet(new) : parent'[n] = u /\ children'[n] = <<>>
      /\ children'[u] = new
  BY <1>3, <1>4, <1>5, <1>7
<1> QED BY <1>1, <1>2, <1>3, <1>4, <1>5, <1>6, <1>7, <1>8 DEF u, new

\* A graph that grows leaves the tree alone.
LEMMA GrowFacts ==
    ASSUME Grow
    PROVE  /\ ~Building /\ stale' = (root # Nil)
           /\ UNCHANGED <<root, parent, children, queue>>
BY DEF Grow, AddEdge, tree

LEMMA TreeGrows ==
    ASSUME TreeInv, Grow
    PROVE  TreeInv'
<1>1. /\ ~Building /\ stale' = (root # Nil)
      /\ UNCHANGED <<root, parent, children, queue>>
  BY GrowFacts
<1>2. PICK u \in Vertices, v \in Vertices : AddEdge(u, v)
  BY DEF Grow
<1>3. adj' \in [Vertices -> Seq(Vertices)]
  <2> DEFINE one == [adj EXCEPT ![u] = Append(@, v)]
  <2>1. one \in [Vertices -> Seq(Vertices)]
    BY AppendProperties DEF TreeInv
  <2>2. adj' = [one EXCEPT ![v] = Append(@, u)]
    BY <1>2 DEF AddEdge
  <2> HIDE DEF one
  <2> QED BY <2>1, <2>2, AppendProperties
<1>4. Nodes' = Nodes
  BY <1>1 DEF Nodes
<1> QED BY <1>1, <1>3, <1>4 DEF TreeInv, Building

\* Every step of the construction keeps the tree a tree.
LEMMA TreeStep ==
    ASSUME TreeInv, BuildNext
    PROVE  TreeInv'
<1>1. ASSUME NEW r \in Vertices, Build(r) PROVE TreeInv'
  <2>1. /\ root' = r /\ Nodes' = {r} /\ DOMAIN children' = {r} /\ parent'[r] = Nil
        /\ children'[r] = <<>> /\ queue' = <<r>> /\ adj' = adj /\ stale' = FALSE
    BY <1>1 DEF Build, Nodes, graph
  <2>2. /\ <<r>> \in Seq(Vertices) /\ IsInjective(<<r>>) /\ ToSet(<<r>>) = {r}
        /\ <<>> \in Seq(Vertices) /\ IsInjective(<<>>) /\ ToSet(<<>>) = {}
    BY DEF IsInjective, ToSet
  <2>3. r # Nil
    BY NilIsNoVertex
  <2> QED BY <2>1, <2>2, <2>3 DEF TreeInv
<1>2. ASSUME Expand PROVE TreeInv'
  <2> DEFINE u == Head(queue)
             new == Unvisited(u)
  <2>1. /\ u \in Nodes /\ u \in ToSet(queue)
        /\ new \in Seq(Vertices) /\ IsInjective(new)
        /\ ToSet(new) = ToSet(adj[u]) \ Nodes
        /\ Nodes' = Nodes \union ToSet(new)
        /\ DOMAIN children' = Nodes'
        /\ \A n \in Nodes : parent'[n] = parent[n]
        /\ \A n \in Nodes \ {u} : children'[n] = children[n]
        /\ \A n \in ToSet(new) : parent'[n] = u /\ children'[n] = <<>>
        /\ children'[u] = new
        /\ queue' \in Seq(Vertices) /\ IsInjective(queue')
        /\ ToSet(queue') = (ToSet(queue) \ {u}) \union ToSet(new)
        /\ UNCHANGED <<adj, root>> /\ ~stale'
    BY <1>2, ExpandFacts
  <2>2. ToSet(new) \subseteq Vertices
    BY <2>1, LenProperties DEF ToSet
  <2> HIDE DEF u, new
  <2>3. u # Nil /\ root \in Nodes
    BY <2>1, NilIsNoVertex DEF TreeInv
  <2>4. <<>> \in Seq(Vertices) /\ IsInjective(<<>>) /\ ToSet(<<>>) = {}
    BY DEF IsInjective, ToSet
  <2>5. {c \in Nodes : parent[c] = u} = {}
    BY <2>1, <2>4 DEF TreeInv
  <2>7. \A n \in Nodes : parent[n] \in Nodes \union {Nil} /\ (parent[n] = Nil <=> n = root)
    BY DEF TreeInv
  <2>8. \A n \in Nodes :
          parent'[n] \in Nodes' \union {Nil} /\ (parent'[n] = Nil <=> n = root')
    <3>1. \A n \in Nodes : parent'[n] = parent[n]
      BY <2>1
    <3>2. Nodes \subseteq Nodes' /\ root' = root
      BY <2>1
    <3> QED BY <2>7, <3>1, <3>2
  <2>9. ASSUME NEW n \in Nodes'
        PROVE  /\ children'[n] \in Seq(Vertices) /\ IsInjective(children'[n])
               /\ ToSet(children'[n]) = {c \in Nodes' : parent'[c] = n}
               /\ parent'[n] \in Nodes' \union {Nil} /\ (parent'[n] = Nil <=> n = root')
               /\ n \in ToSet(queue') => children'[n] = <<>>
    <3>1. CASE n = u
      <4>1. {c \in Nodes' : parent'[c] = u} = ToSet(new)
        BY <2>1, <2>5
      <4>2. u \notin ToSet(queue')
        BY <2>1
      <4>3. parent'[u] \in Nodes' \union {Nil} /\ (parent'[u] = Nil <=> u = root')
        BY <2>1, <2>8
      <4> QED BY <2>1, <3>1, <4>1, <4>2, <4>3
    <3>2. CASE n \in Nodes \ {u}
      <4>1. {c \in Nodes' : parent'[c] = n} = {c \in Nodes : parent[c] = n}
        BY <2>1, <3>2
      <4>2. n \in ToSet(queue') => n \in ToSet(queue)
        BY <2>1, <3>2
      <4>3. parent'[n] \in Nodes' \union {Nil} /\ (parent'[n] = Nil <=> n = root')
        BY <2>8, <3>2
      <4>4. children'[n] = children[n]
        BY <2>1, <3>2
      <4> QED BY <3>2, <4>1, <4>2, <4>3, <4>4 DEF TreeInv
    <3>3. CASE n \in ToSet(new)
      <4>1. n \notin Nodes /\ n # u /\ n # Nil
        BY <2>1, <2>2, <3>3, NilIsNoVertex
      <4>2. \A c \in Nodes : parent[c] # n
        BY <4>1 DEF TreeInv
      <4>3. {c \in Nodes' : parent'[c] = n} = {}
        <5>1. ASSUME NEW c \in Nodes', parent'[c] = n PROVE FALSE
          <6>1. CASE c \in Nodes
            BY <2>1, <4>2, <5>1, <6>1
          <6>2. CASE c \in ToSet(new)
            BY <2>1, <4>1, <5>1, <6>2
          <6> QED BY <2>1, <6>1, <6>2
        <5> QED BY <5>1
      <4>4. parent'[n] = u /\ children'[n] = <<>> /\ u \in Nodes' /\ n # root'
        BY <2>1, <2>3, <3>3, <4>1
      <4> QED BY <2>3, <2>4, <4>3, <4>4
    <3> QED BY <2>1, <3>1, <3>2, <3>3
  <2> QED BY <2>1, <2>2, <2>3, <2>9 DEF TreeInv
<1> QED BY <1>1, <1>2 DEF BuildNext

-----------------------------------------------------------------------------
(* The depth of the nodes                                                  *)

\* The depths and the graph the tree is built from: a child is a neighbour of its
\* parent, and the neighbours of a node that is done are nodes, at most one deeper.
ByEdges(dep) ==
    /\ \A n \in Nodes : parent[n] # Nil => n \in ToSet(adj[parent[n]])
    /\ \A e \in Nodes \ ToSet(queue) :
         \A v \in ToSet(adj[e]) : v \in Nodes /\ dep[v] <= dep[e] + 1

\* What the breadth first order keeps of the nodes' depths: a child is one deeper
\* than its parent; those that wait are in the order of their depth, and at most one
\* apart; those that are done are no deeper than those that wait.
Grown(dep) ==
    /\ dep \in [Nodes -> Nat]
    /\ root # Nil => dep[root] = 0
    /\ \A n \in Nodes : parent[n] # Nil => dep[n] = dep[parent[n]] + 1
    /\ \A i, j \in DOMAIN queue : i <= j =>
         dep[queue[i]] <= dep[queue[j]] /\ dep[queue[j]] <= dep[queue[i]] + 1
    /\ \A e \in Nodes \ ToSet(queue) : \A n \in ToSet(queue) : dep[e] <= dep[n]
    /\ ~stale => ByEdges(dep)
DepthInv == \E dep : Grown(dep)

\* There are no nodes at the start.
LEMMA DepthInit == BuildInit => DepthInv
<1> SUFFICES ASSUME BuildInit PROVE \E dep : Grown(dep)
  BY DEF DepthInv
<1>1. Nodes = {} /\ root = Nil /\ queue = <<>>
  BY DEF BuildInit, NoNodes, Nodes
<1>2. Grown([n \in {} |-> 0])
  BY <1>1 DEF Grown, ByEdges
<1> QED BY <1>2

\* A round of the loop makes the children of the first node one deeper than it.
LEMMA ExpandDepth ==
    ASSUME TreeInv, Expand, NEW dep, Grown(dep)
    PROVE  \E deeper : Grown(deeper)'
<1> DEFINE u == Head(queue)
           new == Unvisited(u)
           rest == Tail(queue)
           after == [n \in Nodes' |-> IF n \in Nodes THEN dep[n] ELSE dep[u] + 1]
<1> PICK deeper : deeper = after
  OBVIOUS
<1>1. /\ u \in Nodes /\ u \in ToSet(queue) /\ u = queue[1]
      /\ new \in Seq(Vertices)
      /\ ToSet(new) = ToSet(adj[u]) \ Nodes
      /\ Nodes' = Nodes \union ToSet(new)
      /\ \A n \in Nodes : parent'[n] = parent[n]
      /\ \A n \in ToSet(new) : parent'[n] = u
      /\ queue' = rest \o new
      /\ queue' \in Seq(Vertices)
      /\ ToSet(queue') = (ToSet(queue) \ {u}) \union ToSet(new)
      /\ UNCHANGED <<adj, root>> /\ ~stale /\ ~stale'
  BY ExpandFacts
<1>2. queue # <<>> /\ queue \in Seq(Vertices) /\ ToSet(queue) \subseteq Nodes
  BY DEF Expand, Building, TreeInv
<1>3. /\ Len(queue) \in Nat /\ Len(queue) > 0 /\ DOMAIN queue = 1..Len(queue)
      /\ rest \in Seq(Vertices) /\ Len(rest) = Len(queue) - 1
      /\ \A i \in 1..Len(rest) : rest[i] = queue[i + 1]
  BY <1>2, HeadTailProperties, LenProperties, EmptySeq
<1>4. /\ Len(new) \in Nat /\ DOMAIN new = 1..Len(new)
      /\ DOMAIN queue' = 1..(Len(rest) + Len(new))
      /\ \A i \in 1..(Len(rest) + Len(new)) :
           queue'[i] = IF i <= Len(rest) THEN rest[i] ELSE new[i - Len(rest)]
  <2> HIDE DEF rest, new
  <2>1. /\ Len(rest \o new) = Len(rest) + Len(new)
        /\ \A i \in 1..(Len(rest) + Len(new)) :
             (rest \o new)[i] = IF i <= Len(rest) THEN rest[i] ELSE new[i - Len(rest)]
    BY <1>1, <1>3, ConcatProperties
  <2>2. /\ Len(new) \in Nat /\ DOMAIN new = 1..Len(new)
        /\ DOMAIN queue' = 1..Len(queue')
    BY <1>1, LenProperties
  <2> QED BY <1>1, <2>1, <2>2
<1>5. dep \in [Nodes -> Nat] /\ dep[u] \in Nat
  BY <1>1 DEF Grown
<1>6. /\ \A n \in Nodes : deeper[n] = dep[n]
      /\ \A n \in ToSet(new) : deeper[n] = dep[u] + 1 /\ n \notin Nodes
      /\ deeper \in [Nodes' -> Nat]
  <2> HIDE DEF u, new
  <2> QED BY <1>1, <1>5
<1> HIDE DEF u, new, rest, after
<1>7. \A n \in ToSet(queue) : dep[u] <= dep[n] /\ dep[n] <= dep[u] + 1
  <2>1. 1 \in DOMAIN queue /\ \A i \in DOMAIN queue : 1 <= i
    BY <1>3
  <2>2. \A n \in ToSet(queue) : \E i \in DOMAIN queue : n = queue[i]
    BY DEF ToSet
  <2> QED BY <1>1, <2>1, <2>2 DEF Grown
<1>8. root' # Nil => deeper[root'] = 0
  <2>1. root \in Nodes \union {Nil}
    BY DEF TreeInv
  <2> QED BY <1>1, <1>6, <2>1 DEF Grown
<1>9. ASSUME NEW n \in Nodes', parent'[n] # Nil
      PROVE  deeper[n] = deeper[parent'[n]] + 1 /\ n \in ToSet(adj'[parent'[n]])
  <2>1. CASE n \in Nodes
    <3>1. parent'[n] = parent[n] /\ parent[n] \in Nodes
      BY <1>1, <1>9, <2>1 DEF TreeInv
    <3>2. dep[n] = dep[parent[n]] + 1 /\ n \in ToSet(adj[parent[n]])
      BY <1>1, <1>9, <2>1, <3>1 DEF Grown, ByEdges
    <3> QED BY <1>1, <1>6, <2>1, <3>1, <3>2
  <2>2. CASE n \in ToSet(new)
    <3>1. parent'[n] = u /\ n \in ToSet(adj[u])
      BY <1>1, <2>2
    <3> QED BY <1>1, <1>6, <2>2, <3>1
  <2> QED BY <1>1, <2>1, <2>2
<1>10. ASSUME NEW i \in DOMAIN queue', NEW j \in DOMAIN queue', i <= j
       PROVE  /\ deeper[queue'[i]] <= deeper[queue'[j]]
              /\ deeper[queue'[j]] <= deeper[queue'[i]] + 1
  <2> DEFINE m == Len(rest)
  <2>1. m \in Nat /\ i \in 1..(m + Len(new)) /\ j \in 1..(m + Len(new))
    BY <1>3, <1>4
  <2>2. ASSUME NEW k \in 1..(m + Len(new)), k <= m
        PROVE  /\ k + 1 \in DOMAIN queue /\ queue'[k] = queue[k + 1]
               /\ queue[k + 1] \in ToSet(queue) /\ deeper[queue'[k]] = dep[queue[k + 1]]
    <3>1. k + 1 \in DOMAIN queue /\ k \in 1..m
      BY <1>3, <2>1, <2>2
    <3>2. queue'[k] = queue[k + 1]
      BY <1>3, <1>4, <2>2, <3>1
    <3>3. queue[k + 1] \in ToSet(queue)
      BY <3>1 DEF ToSet
    <3> QED BY <1>2, <1>6, <3>1, <3>2, <3>3
  <2>3. ASSUME NEW k \in 1..(m + Len(new)), ~(k <= m)
        PROVE  deeper[queue'[k]] = dep[u] + 1
    <3>1. k - m \in DOMAIN new
      BY <1>4, <2>1, <2>3
    <3>2. queue'[k] = new[k - m]
      BY <1>4, <2>3
    <3>3. queue'[k] \in ToSet(new)
      BY <3>1, <3>2 DEF ToSet
    <3> QED BY <1>6, <3>3
  <2> HIDE DEF m
  <2>4. CASE j <= m
    <3>1. i <= m /\ i + 1 <= j + 1
      BY <1>10, <2>1, <2>4
    <3>2. /\ i + 1 \in DOMAIN queue /\ j + 1 \in DOMAIN queue
          /\ deeper[queue'[i]] = dep[queue[i + 1]] /\ deeper[queue'[j]] = dep[queue[j + 1]]
      BY <2>1, <2>2, <2>4, <3>1
    <3> QED BY <3>1, <3>2 DEF Grown
  <2>5. CASE i <= m /\ ~(j <= m)
    <3>1. /\ deeper[queue'[i]] = dep[queue[i + 1]] /\ queue[i + 1] \in ToSet(queue)
          /\ deeper[queue'[j]] = dep[u] + 1
      BY <2>1, <2>2, <2>3, <2>5
    <3>2. dep[queue[i + 1]] \in Nat
      BY <1>2, <1>5, <3>1
    <3> QED BY <1>5, <1>7, <3>1, <3>2
  <2>6. CASE ~(i <= m)
    <3>1. ~(j <= m)
      BY <1>10, <2>1, <2>6
    <3>2. deeper[queue'[i]] = dep[u] + 1 /\ deeper[queue'[j]] = dep[u] + 1
      BY <2>1, <2>3, <2>6, <3>1
    <3> QED BY <1>5, <3>2
  <2> QED BY <2>4, <2>5, <2>6
<1>11. ASSUME NEW e \in Nodes' \ ToSet(queue')
       PROVE  /\ \A n \in ToSet(queue') : deeper[e] <= deeper[n]
              /\ \A v \in ToSet(adj'[e]) : v \in Nodes' /\ deeper[v] <= deeper[e] + 1
  <2>1. e \in Nodes /\ (e = u \/ e \notin ToSet(queue))
    BY <1>1
  <2>2. dep[e] \in Nat /\ deeper[e] = dep[e] /\ dep[e] <= dep[u]
    <3>1. e # u => dep[e] <= dep[u]
      BY <1>1, <2>1 DEF Grown
    <3> QED BY <1>5, <1>6, <2>1, <3>1
  <2>3. ASSUME NEW n \in ToSet(queue') PROVE deeper[e] <= deeper[n]
    <3>1. CASE n \in ToSet(queue)
      <4>1. dep[n] \in Nat /\ deeper[n] = dep[n] /\ dep[u] <= dep[n]
        BY <1>2, <1>5, <1>6, <1>7, <3>1
      <4> QED BY <1>5, <2>2, <4>1
    <3>2. CASE n \in ToSet(new)
      BY <1>5, <1>6, <2>2, <3>2
    <3> QED BY <1>1, <2>3, <3>1, <3>2
  <2>4. ASSUME NEW v \in ToSet(adj'[e]) PROVE v \in Nodes' /\ deeper[v] <= deeper[e] + 1
    <3>1. v \in ToSet(adj[e])
      BY <1>1, <2>4
    <3>2. CASE e # u
      <4>1. v \in Nodes /\ dep[v] <= dep[e] + 1
        BY <1>1, <2>1, <3>1, <3>2 DEF Grown, ByEdges
      <4> QED BY <1>1, <1>6, <2>2, <4>1
    <3>3. CASE e = u /\ v \in Nodes
      <4>1. dep[v] <= dep[u] + 1
        <5>1. CASE v \in ToSet(queue)
          BY <1>7, <5>1
        <5>2. CASE v \notin ToSet(queue)
          <6>1. dep[v] <= dep[u] /\ dep[v] \in Nat
            BY <1>1, <1>5, <3>3, <5>2 DEF Grown, ByEdges
          <6> QED BY <1>5, <6>1
        <5> QED BY <5>1, <5>2
      <4> QED BY <1>1, <1>6, <2>2, <3>3, <4>1
    <3>4. CASE e = u /\ v \notin Nodes
      <4>1. v \in ToSet(new)
        BY <1>1, <3>1, <3>4
      <4> QED BY <1>1, <1>5, <1>6, <2>2, <3>4, <4>1
    <3> QED BY <3>2, <3>3, <3>4
  <2> QED BY <2>3, <2>4
<1>12. Grown(deeper)'
  BY <1>6, <1>8, <1>9, <1>10, <1>11 DEF Grown, ByEdges
<1> QED BY <1>12

\* Edges that are added later leave the depths of the finished tree.
LEMMA DepthGrows ==
    ASSUME TreeInv, DepthInv, Grow
    PROVE  DepthInv'
<1>1. /\ ~Building /\ stale' = (root # Nil)
      /\ UNCHANGED <<root, parent, children, queue>> /\ Nodes' = Nodes
  BY GrowFacts DEF Nodes
<1>2. PICK dep : Grown(dep)
  BY DEF DepthInv
<1>3. ~stale' => Nodes = {}
  BY <1>1 DEF TreeInv
<1>4. Grown(dep)'
  BY <1>1, <1>2, <1>3 DEF Grown, ByEdges
<1> QED BY <1>4 DEF DepthInv

\* Every step of the construction keeps the depths.
LEMMA DepthStep ==
    ASSUME TreeInv, DepthInv, BuildNext
    PROVE  DepthInv'
<1>1. ASSUME NEW r \in Vertices, Build(r) PROVE DepthInv'
  <2>1. root' = r /\ Nodes' = {r} /\ parent'[r] = Nil /\ queue' = <<r>>
    BY <1>1 DEF Build, Nodes
  <2>2. DOMAIN <<r>> = {1} /\ ToSet(<<r>>) = {r}
    BY DEF ToSet
  <2>3. Grown([n \in {r} |-> 0])'
    BY <2>1, <2>2 DEF Grown, ByEdges
  <2> QED BY <2>3 DEF DepthInv
<1>2. ASSUME Expand PROVE DepthInv'
  <2>1. PICK dep : Grown(dep)
    BY DEF DepthInv
  <2> QED BY <1>2, <2>1, ExpandDepth DEF DepthInv
<1> QED BY <1>1, <1>2 DEF BuildNext

\* When no node waits, the vertices at most d edges away are the nodes at most d deep.
LEMMA BallIs ==
    ASSUME TreeInv, NEW dep, Grown(dep), root # Nil, queue = <<>>, ~stale, NEW d \in Nat
    PROVE  Ball(d) = {n \in Nodes : dep[n] <= d}
<1> DEFINE Within(i) == {n \in Nodes : dep[n] <= i}
           Step(b) == b \union UNION {ToSet(adj[v]) : v \in b}
           Rec(f) == f = [i \in 0..d |-> IF i = 0 THEN {root} ELSE Step(f[i - 1])]
           ball == CHOOSE f : Rec(f)
<1>1. Ball(d) = ball[d]
  BY DEF Ball
<1>2. /\ dep \in [Nodes -> Nat] /\ root \in Nodes /\ dep[root] = 0
      /\ \A n \in Nodes \ {root} :
           parent[n] \in Nodes /\ dep[n] = dep[parent[n]] + 1 /\ n \in ToSet(adj[parent[n]])
      /\ \A e \in Nodes : \A v \in ToSet(adj[e]) : v \in Nodes /\ dep[v] <= dep[e] + 1
  <2>1. ToSet(queue) = {}
    BY DEF ToSet
  <2> QED BY <2>1 DEF Grown, ByEdges, TreeInv
<1>3. Within(0) = {root}
  <2>1. ASSUME NEW n \in Nodes, dep[n] <= 0 PROVE n = root
    <3>1. n # root => dep[n] = dep[parent[n]] + 1 /\ dep[parent[n]] \in Nat
      BY <1>2
    <3> QED BY <2>1, <3>1
  <2> QED BY <1>2, <2>1
<1>4. ASSUME NEW i \in Nat \ {0} PROVE Within(i) = Step(Within(i - 1))
  <2>1. ASSUME NEW n \in Within(i) PROVE n \in Step(Within(i - 1))
    <3>1. CASE n = root
      <4>1. root \in Within(i - 1)
        BY <1>2
      <4> QED BY <3>1, <4>1
    <3>2. CASE n # root
      <4>1. /\ parent[n] \in Nodes /\ dep[n] = dep[parent[n]] + 1
            /\ n \in ToSet(adj[parent[n]]) /\ dep[parent[n]] \in Nat
        BY <1>2, <2>1, <3>2
      <4>2. parent[n] \in Within(i - 1)
        BY <2>1, <4>1
      <4> HIDE DEF Within
      <4> QED BY <4>1, <4>2
    <3> QED BY <3>1, <3>2
  <2>2. ASSUME NEW n \in Step(Within(i - 1)) PROVE n \in Within(i)
    <3>1. CASE n \in Within(i - 1)
      BY <1>2, <3>1
    <3>2. CASE n \notin Within(i - 1)
      <4>1. PICK v \in Within(i - 1) : n \in ToSet(adj[v])
        <5> HIDE DEF Within
        <5> QED BY <2>2, <3>2
      <4>2. v \in Nodes /\ dep[v] \in Nat /\ dep[v] <= i - 1
        BY <1>2
      <4>3. n \in Nodes /\ dep[n] <= dep[v] + 1 /\ dep[n] \in Nat
        BY <1>2, <4>1, <4>2
      <4> QED BY <4>2, <4>3
    <3> QED BY <3>1, <3>2
  <2> HIDE DEF Within, Step
  <2> QED BY <2>1, <2>2
<1>5. \E f : Rec(f)
  <2> DEFINE w == [i \in 0..d |-> Within(i)]
  <2>1. ASSUME NEW i \in 0..d
        PROVE  w[i] = IF i = 0 THEN {root} ELSE Step(w[i - 1])
    <3>1. CASE i = 0
      <4> HIDE DEF Within, Step
      <4> QED BY <1>3, <3>1
    <3>2. CASE i # 0
      <4>1. i \in Nat \ {0} /\ i - 1 \in 0..d
        BY <3>2
      <4> HIDE DEF Within, Step
      <4> QED BY <1>4, <3>2, <4>1
    <3> QED BY <3>1, <3>2
  <2>2. w = [i \in 0..d |-> w[i]]
    OBVIOUS
  <2> HIDE DEF w, Step
  <2> QED BY <2>1, <2>2
<1>6. Rec(ball)
  <2> HIDE DEF Rec
  <2> QED BY <1>5
<1> DEFINE Good == {i \in Nat : i <= d => ball[i] = Within(i)}
<1>7. 0 \in Good
  <2> HIDE DEF ball, Within, Step
  <2> QED BY <1>3, <1>6
<1>8. ASSUME NEW i \in Nat, i \in Good PROVE i + 1 \in Good
  <2> SUFFICES ASSUME i + 1 <= d PROVE ball[i + 1] = Within(i + 1)
    <3> HIDE DEF ball, Within
    <3> QED OBVIOUS
  <2> HIDE DEF ball, Within, Step
  <2>1. i + 1 \in 0..d /\ i + 1 # 0 /\ (i + 1) - 1 = i /\ i + 1 \in Nat \ {0}
    OBVIOUS
  <2>2. ball[i + 1] = Step(ball[i])
    BY <1>6, <2>1
  <2>3. ball[i] = Within(i)
    BY <1>8
  <2> QED BY <1>4, <2>1, <2>2, <2>3
<1>9. d \in Good
  <2> HIDE DEF Good
  <2> QED BY <1>7, <1>8, NaturalInduction
<1> HIDE DEF ball, Within
<1> QED BY <1>1, <1>9 DEF Within

\* The way up from a node: it is as long as the node is deep, and no longer than
\* there are other vertices.
LEMMA DepthIs ==
    ASSUME TreeInv, NEW dep, Grown(dep), root # Nil, NEW n \in Nodes
    PROVE  IsDepth(n, dep[n]) /\ dep[n] \in 0..Size
<1> DEFINE d == dep[n]
           Rec(f) == f = [i \in 0..d |-> IF i = 0 THEN n
                                         ELSE IF f[i - 1] = Nil THEN Nil ELSE parent[f[i - 1]]]
           up == CHOOSE f : Rec(f)
<1>1. IsDepth(n, d) <=> up[d] = root
  BY DEF IsDepth
<1>2. /\ dep \in [Nodes -> Nat] /\ root \in Nodes
      /\ \A m \in Nodes : m # Nil /\ (dep[m] # 0 => parent[m] \in Nodes)
      /\ \A m \in Nodes : parent[m] \in Nodes => dep[m] = dep[parent[m]] + 1
      /\ \A m \in Nodes : dep[m] = 0 => m = root
  <2>1. \A m \in Nodes : m # Nil
    BY NilIsNoVertex DEF TreeInv
  <2>2. dep \in [Nodes -> Nat] /\ root \in Nodes /\ dep[root] = 0
    BY DEF Grown, TreeInv
  <2>3. \A m \in Nodes : parent[m] \in Nodes \union {Nil} /\ (parent[m] = Nil <=> m = root)
    BY DEF TreeInv
  <2>4. \A m \in Nodes : parent[m] \in Nodes => dep[m] = dep[parent[m]] + 1
    BY <2>1 DEF Grown
  <2>5. ASSUME NEW m \in Nodes, dep[m] = 0 PROVE m = root
    <3>1. parent[m] \in Nodes => dep[parent[m]] \in Nat
      BY <2>2
    <3> QED BY <2>3, <2>4, <2>5, <3>1
  <2> QED BY <2>1, <2>2, <2>3, <2>4, <2>5
<1>3. d \in Nat
  BY <1>2
<1> HIDE DEF d
<1>4. \E f : Rec(f)
  <2>1. PICK B : B = Nodes \union {Nil}
    OBVIOUS
  <2>2. PICK step : step = [x \in B |-> IF x = Nil THEN Nil ELSE parent[x]]
    OBVIOUS
  <2>3. n \in B /\ step \in [B -> B]
    <3>1. \A x \in B : step[x] \in B
      BY <2>1, <2>2 DEF TreeInv
    <3> QED BY <2>1, <2>2, <3>1
  <2>4. PICK f : f \in [0..d -> B] /\ f[0] = n /\ \A i \in 1..d : f[i] = step[f[i - 1]]
    <3> HIDE DEF Rec
    <3>1. \E f : IsIteration(f, B, n, step, d)
      BY <1>3, <2>3, IterationExists
    <3> QED BY <3>1 DEF IsIteration
  <2>5. ASSUME NEW i \in 0..d
        PROVE  f[i] = IF i = 0 THEN n ELSE IF f[i - 1] = Nil THEN Nil ELSE parent[f[i - 1]]
    <3>1. CASE i = 0
      BY <2>4, <3>1
    <3>2. CASE i # 0
      <4>1. i \in 1..d /\ i - 1 \in 0..d
        BY <1>3, <3>2
      <4>2. f[i - 1] \in B /\ f[i] = step[f[i - 1]]
        BY <2>4, <4>1
      <4> QED BY <2>2, <3>2, <4>2
    <3> QED BY <3>1, <3>2
  <2>6. f = [i \in 0..d |-> f[i]]
    BY <2>4
  <2>7. Rec(f)
    BY <2>5, <2>6
  <2> HIDE DEF Rec
  <2> QED BY <2>7
<1>5. Rec(up)
  <2> HIDE DEF Rec
  <2> QED BY <1>4
<1> DEFINE Good == {i \in Nat : i <= d => up[i] \in Nodes /\ dep[up[i]] = d - i}
<1>6. 0 \in Good
  <2> HIDE DEF up
  <2> QED BY <1>3, <1>5 DEF d
<1>7. ASSUME NEW i \in Nat, i \in Good PROVE i + 1 \in Good
  <2> SUFFICES ASSUME i + 1 <= d PROVE up[i + 1] \in Nodes /\ dep[up[i + 1]] = d - (i + 1)
    <3> HIDE DEF up
    <3> QED OBVIOUS
  <2> HIDE DEF up
  <2>1. i + 1 \in 0..d /\ i + 1 # 0 /\ (i + 1) - 1 = i
    BY <1>3
  <2>2. up[i] \in Nodes /\ dep[up[i]] = d - i /\ d - i # 0
    BY <1>3, <1>7
  <2>3. up[i + 1] = IF up[i] = Nil THEN Nil ELSE parent[up[i]]
    BY <1>5, <2>1
  <2>4. up[i + 1] = parent[up[i]] /\ parent[up[i]] \in Nodes
    BY <1>2, <2>2, <2>3
  <2>5. dep[up[i]] = dep[parent[up[i]]] + 1 /\ dep[parent[up[i]]] \in Nat
    BY <1>2, <2>2, <2>4
  <2> QED BY <1>3, <2>2, <2>4, <2>5
<1>8. Nat \subseteq Good
  <2> HIDE DEF Good
  <2> QED BY <1>6, <1>7, NaturalInduction
<1>9. \A i \in 0..d : up[i] \in Nodes /\ dep[up[i]] = d - i
  <2> HIDE DEF up
  <2> QED BY <1>3, <1>8
<1> HIDE DEF up, Good
<1>10. up[d] = root
  <2>1. d \in 0..d /\ d - d = 0
    BY <1>3
  <2> QED BY <1>2, <1>9, <2>1
<1>11. d <= Size
  <2> SUFFICES ASSUME d > Size PROVE FALSE
    BY <1>3, SizeAssumption
  <2>1. /\ IsFiniteSet(0..d) /\ Cardinality(0..d) = d + 1
        /\ IsFiniteSet(Vertices) /\ Cardinality(Vertices) = Size
    <3>1. 0 <= d /\ 0 <= Size - 1 /\ d - 0 + 1 = d + 1 /\ (Size - 1) - 0 + 1 = Size
      BY <1>3, SizeAssumption
    <3>2. 0 \in Int /\ d \in Int /\ Size - 1 \in Int
      BY <1>3, SizeAssumption
    <3> QED BY <3>1, <3>2, FS_Interval DEF Vertices
  <2> DEFINE way == [i \in 0..d |-> up[i]]
  <2>2. way \in [0..d -> Vertices]
    BY <1>9 DEF TreeInv
  <2>3. Cardinality(Vertices) < Cardinality(0..d)
    BY <1>3, <2>1, SizeAssumption
  <2>4. PICK i \in 0..d, j \in 0..d : i # j /\ up[i] = up[j]
    <3>1. \E i, j \in 0..d : i # j /\ way[i] = way[j]
      <4> HIDE DEF way
      <4> QED BY <2>1, <2>2, <2>3, FS_PigeonHole, Zenon
    <3> QED BY <3>1
  <2>5. d - i = d - j
    BY <1>9, <2>4
  <2> QED BY <1>3, <2>4, <2>5
<1> QED BY <1>1, <1>3, <1>10, <1>11, SizeAssumption DEF d

\* The finished tree is a shortest path tree.
LEMMA PathsAreShort ==
    ASSUME TreeInv, DepthInv
    PROVE  ShortestPaths
<1>1. TreeOK
  BY DEF TreeInv, TreeOK
<1>2. ASSUME root # Nil, ~Building, ~stale
      PROVE  /\ Nodes = Ball(Size)
             /\ \A n \in Nodes : \E d \in 0..Size :
                  IsDepth(n, d) /\ n \in Ball(d) /\ (d > 0 => n \notin Ball(d - 1))
  <2> PICK dep : Grown(dep)
    BY DEF DepthInv
  <2>1. queue = <<>> /\ ~stale /\ dep \in [Nodes -> Nat]
    BY <1>2 DEF Building, Grown
  <2>2. \A d \in Nat : Ball(d) = {n \in Nodes : dep[n] <= d}
    BY <1>2, <2>1, BallIs
  <2>3. \A n \in Nodes : IsDepth(n, dep[n]) /\ dep[n] \in 0..Size
    BY <1>2, DepthIs
  <2>4. Nodes = Ball(Size)
    <3>1. Ball(Size) = {n \in Nodes : dep[n] <= Size}
      BY <2>2, SizeAssumption
    <3>2. \A n \in Nodes : dep[n] <= Size
      BY <2>3, SizeAssumption
    <3> QED BY <3>1, <3>2
  <2>5. ASSUME NEW n \in Nodes
        PROVE  n \in Ball(dep[n]) /\ (dep[n] > 0 => n \notin Ball(dep[n] - 1))
    <3>1. dep[n] \in Nat /\ (dep[n] > 0 => dep[n] - 1 \in Nat)
      BY <2>1
    <3> QED BY <2>1, <2>2, <3>1
  <2> QED BY <2>3, <2>4, <2>5
<1> QED BY <1>1, <1>2 DEF ShortestPaths

\* Every step keeps the tree and the depths of its nodes.
LEMMA TreeNext == TreeInv /\ DepthInv /\ [Next]_vars => TreeInv' /\ DepthInv'
<1> SUFFICES ASSUME TreeInv, DepthInv, [Next]_vars PROVE TreeInv' /\ DepthInv'
  OBVIOUS
<1>1. CASE BuildNext
  BY <1>1, TreeStep, DepthStep
<1>2. CASE Grow
  BY <1>2, TreeGrows, DepthGrows
<1>3. CASE UNCHANGED <<adj, stale, root, parent, children, queue>>
  BY <1>3 DEF TreeInv, DepthInv, Grown, ByEdges, Nodes
<1>4. BuildNext \/ Grow \/ UNCHANGED <<adj, stale, root, parent, children, queue>>
  BY DEF Next, vars, asyncVars, graph, tree, Async, AsyncNext, GrowGraph, BuildTree,
         StartAsync, StartSync, Called, Scheduler, ScanEnds, ScanNode
<1> QED BY <1>1, <1>2, <1>3, <1>4

\* The breadth first tree spans the component of its root by shortest paths, for
\* every graph, however the edges were added, before it was built or after, and
\* whatever was built before.
THEOREM ShortestPathsHold == Spec => []ShortestPaths
<1>1. CastInit => TreeInv /\ DepthInv
  BY TreeInit, DepthInit DEF CastInit, Init
<1> QED BY <1>1, TreeNext, PathsAreShort, PTL DEF Spec

-----------------------------------------------------------------------------
(* The sums                                                                *)

Msgs   == [type : {"GO", "BACK"}, value : Int]
Frames == [of : {"start", "back"}, node : Vertices, next : Nat, value : Int]

\* The children of n whose sum is still out, and the sums on their way to n.
Waiting(n) == {c \in Nodes : parent[c] = n /\ c \in Unreported}
CallsBack(n) == calls # <<>> /\ Top.of = "back" /\ Top.node = n
Answers(n) == Len(inbox[n]) + IF CallsBack(n) THEN 1 ELSE 0

CastType ==
    /\ pending \in [Nodes -> Nat] /\ accumulated \in [Nodes -> Int]
    /\ inbox \in [Nodes -> Seq(Msgs)] /\ calls \in Seq(Frames)
    /\ received \in Seq(Nodes) /\ IsInjective(received)
    /\ sync \in BOOLEAN /\ running \in BOOLEAN /\ progress \in BOOLEAN
    /\ unscanned \subseteq Nodes
    /\ running => root # Nil
    /\ \A n \in Nodes : pending[n] <= Len(children[n])

\* A node that is reached has reached parent, before it.
ParentsFirst ==
    \A i \in DOMAIN received : ~IsRoot(received[i]) =>
      \E j \in 1..(i - 1) : received[j] = parent[received[i]]

\* A node that is reached waits for the children whose sum is out and for the sums
\* on their way to it; a node that has not handed on its sum keeps its parent waiting.
WaitsForAnswers == \A n \in Reached : pending[n] = Cardinality(Waiting(n)) + Answers(n)
ParentsWait == \A n \in Unreported \ {root} : parent[n] \in Unreported
PrintedTotal == printed = <<>> \/ (printed = <<TreeTotal>> /\ Unreported = {})

SumsInv == ParentsFirst /\ WaitsForAnswers /\ ParentsWait /\ PrintedTotal /\ ValueConserved

\* Messages: a node that is not reached has nothing or one GO, sent by its parent,
\* and fresh counters; one that is reached has answers only.  In a scan that has
\* taken nothing the nodes it has come to have nothing.
InboxInv ==
    /\ sync \/ ~running => unscanned = {} /\ \A n \in Nodes : inbox[n] = <<>>
    /\ ~sync => calls = <<>>
    /\ \A n \in Nodes \ Reached :
         /\ inbox[n] = <<>> \/ inbox[n] = <<GO>>
         /\ inbox[n] # <<>> /\ n # root => parent[n] \in Reached
         /\ running /\ ~sync => pending[n] = Len(children[n]) /\ accumulated[n] = 0
    /\ \A n \in Reached : \A m \in ToSet(inbox[n]) : m.type = "BACK"
    /\ ~sync /\ running /\ ~progress => \A n \in Nodes \ unscanned : inbox[n] = <<>>

\* Calls: below the top of the stack there are start() calls in their loops, one for a
\* node; their nodes have been reached, and the children still to be called have not.
\* On top there is another one, a back() of a node that has been reached, or a start()
\* of one that has not, of the root or a child of one that has.
Settled(s, R, E) ==
    \A i \in DOMAIN s :
      /\ s[i].of = "start" /\ s[i].next > 0 /\ s[i].value = 0 /\ s[i].node \in R
      /\ \A j \in DOMAIN children[s[i].node] : j >= s[i].next => children[s[i].node][j] \notin E
      /\ \A k \in DOMAIN s : s[k].node = s[i].node => k = i
Answering == Top.of = "back" /\ Top.node \in Reached /\ Settled(Below, Reached, Reached)
Entering ==
    /\ Top.of = "start" /\ Top.next = 0 /\ Top.value = 0
    /\ Top.node \in Nodes \ Reached /\ (Top.node = root \/ parent[Top.node] \in Reached)
    /\ Settled(Below, Reached, Reached \union {Top.node})
CallsInv ==
    /\ running /\ sync <=> calls # <<>>
    /\ calls # <<>> => Answering \/ Entering \/ Settled(calls, Reached, Reached)

CastInv == CastType /\ SumsInv /\ InboxInv /\ CallsInv

-----------------------------------------------------------------------------
(* Values under way                                                        *)

\* The sum of the values of a sequence of records.
LEMMA ValuesFacts ==
    ASSUME NEW M, \A m \in M : m.value \in Int
    PROVE  /\ Values(<<>>) = 0
           /\ \A s \in Seq(M) : Values(s) \in Int
           /\ \A s \in Seq(M), m \in M : Values(Append(s, m)) = Values(s) + m.value
           /\ \A s \in Seq(M) : s # <<>> =>
                Values(s) = Head(s).value + Values(Tail(s))
           /\ \A s \in Seq(M) : (\A i \in DOMAIN s : s[i].value = 0) => Values(s) = 0
<1> DEFINE val(s) == [i \in DOMAIN s |-> s[i].value]
<1>1. \A s : Values(s) = SumFunctionOnSet(val(s), DOMAIN s)
  BY DEF Values, SumFunction
<1>2. ASSUME NEW s \in Seq(M)
      PROVE  /\ Len(s) \in Nat /\ DOMAIN s = 1..Len(s) /\ IsFiniteSet(1..Len(s))
             /\ \A i \in 1..Len(s) : s[i] \in M /\ val(s)[i] = s[i].value /\ val(s)[i] \in Int
  <2>1. Len(s) \in Nat /\ DOMAIN s = 1..Len(s) /\ \A i \in 1..Len(s) : s[i] \in M
    BY LenProperties, ElementOfSeq
  <2>2. IsFiniteSet(1..Len(s))
    <3>1. 1 \in Int /\ Len(s) \in Int
      BY <2>1
    <3> QED BY <3>1, FS_Interval
  <2> QED BY <2>1, <2>2
<1>3. Values(<<>>) = 0
  <2>1. DOMAIN <<>> = {}
    OBVIOUS
  <2> HIDE DEF val
  <2> QED BY <1>1, <2>1, SumEmpty
<1>4. ASSUME NEW s \in Seq(M) PROVE Values(s) \in Int
  <2> HIDE DEF val
  <2> QED BY <1>1, <1>2, SumType
<1>5. ASSUME NEW s \in Seq(M), NEW m \in M PROVE Values(Append(s, m)) = Values(s) + m.value
  <2> DEFINE n == Len(s)
             t == Append(s, m)
  <2>1. /\ n \in Nat /\ t \in Seq(M) /\ Len(t) = n + 1
        /\ \A i \in 1..n : t[i] = s[i]
        /\ t[n + 1] = m /\ DOMAIN t = 1..(n + 1)
    BY <1>2, AppendProperties
  <2>2. IsFiniteSet(1..n) /\ n + 1 \notin 1..n /\ 1..(n + 1) = (1..n) \union {n + 1}
    BY <1>2
  <2>3. \A i \in (1..n) \union {n + 1} : val(t)[i] \in Int
    <3> HIDE DEF val, t, n
    <3> QED BY <1>2, <2>1, <2>2
  <2>4. SumFunctionOnSet(val(t), (1..n) \union {n + 1})
          = SumFunctionOnSet(val(t), 1..n) + val(t)[n + 1]
    <3> HIDE DEF val, t, n
    <3> QED BY <2>2, <2>3, SumAdd
  <2>5. SumFunctionOnSet(val(t), 1..n) = SumFunctionOnSet(val(s), 1..n)
    <3>1. \A i \in 1..n : val(t)[i] = val(s)[i] /\ val(s)[i] \in Int
      <4>1. \A i \in 1..n : i \in DOMAIN s /\ i \in DOMAIN t
        BY <1>2, <2>1
      <4> QED BY <1>2, <2>1, <4>1
    <3> HIDE DEF val, t, n
    <3> QED BY <2>2, <3>1, SumAgree
  <2>6. val(t)[n + 1] = m.value
    <3>1. n + 1 \in DOMAIN t
      BY <2>1
    <3> QED BY <2>1, <3>1
  <2>7. DOMAIN s = 1..n
    BY <1>2
  <2> HIDE DEF val, t, n
  <2> QED BY <1>1, <2>1, <2>2, <2>4, <2>5, <2>6, <2>7 DEF t
<1>6. ASSUME NEW s \in Seq(M), s # <<>> PROVE Values(s) = Head(s).value + Values(Tail(s))
  <2> DEFINE t == Tail(s)
             n == Len(t)
  <2>1. /\ t \in Seq(M) /\ n \in Nat /\ Len(s) = n + 1 /\ Head(s) = s[1]
        /\ \A i \in 1..n : t[i] = s[i + 1]
    <3>1. Len(s) \in Nat /\ Len(s) # 0
      BY <1>6, EmptySeq
    <3> QED BY <1>6, <3>1, HeadTailProperties
  <2>2. DOMAIN s = 1..(n + 1) /\ DOMAIN t = 1..n
    <3> HIDE DEF t, val
    <3> QED BY <1>2, <2>1
  <2>3. \A i \in 1..(n + 1) : val(s)[i] \in Int /\ val(s)[i] = s[i].value
    <3> HIDE DEF t, val
    <3> QED BY <1>2, <2>1
  <2>4. \A i \in 1..n : val(t)[i] = val(s)[i + 1]
    <3>1. \A i \in 1..n : i + 1 \in 1..(n + 1)
      BY <2>1
    <3>2. \A i \in 1..n : val(t)[i] = t[i].value
      <4> HIDE DEF t, val
      <4> QED BY <1>2, <2>1
    <3> HIDE DEF t, val, n
    <3> QED BY <2>1, <2>3, <3>1, <3>2
  <2>5. SumFunctionOnSet(val(s), 1..(n + 1)) = val(s)[1] + SumFunctionOnSet(val(t), 1..n)
    <3> HIDE DEF t, val, n
    <3> QED BY <2>1, <2>3, <2>4, SumShift
  <2>6. val(s)[1] = Head(s).value
    <3>1. 1 \in 1..(n + 1)
      BY <2>1
    <3> HIDE DEF val, t, n
    <3> QED BY <2>1, <2>3, <3>1
  <2> HIDE DEF val, t, n
  <2> QED BY <1>1, <2>2, <2>5, <2>6 DEF t
<1>7. ASSUME NEW s \in Seq(M), \A i \in DOMAIN s : s[i].value = 0 PROVE Values(s) = 0
  <2>1. \A i \in DOMAIN s : val(s)[i] = 0
    BY <1>7
  <2> HIDE DEF val
  <2> QED BY <1>1, <1>2, <2>1, SumZero
<1> QED BY <1>3, <1>4, <1>5, <1>6, <1>7

\* There are finitely many nodes, and none is its own parent.
LEMMA NodesFacts ==
    ASSUME TreeInv, DepthInv
    PROVE  /\ IsFiniteSet(Nodes)
           /\ \A n \in Nodes : parent[n] # n /\ n # Nil
<1>1. IsFiniteSet(Nodes)
  <2>1. 0 \in Int /\ Size - 1 \in Int
    BY SizeAssumption
  <2>2. IsFiniteSet(Vertices)
    BY <2>1, FS_Interval DEF Vertices
  <2> QED BY <2>2, FS_Subset DEF TreeInv
<1>2. ASSUME NEW n \in Nodes PROVE parent[n] # n /\ n # Nil
  <2> PICK dep : Grown(dep)
    BY DEF DepthInv
  <2>1. n # Nil
    BY NilIsNoVertex DEF TreeInv
  <2>2. dep[n] \in Nat /\ (parent[n] # Nil => dep[n] = dep[parent[n]] + 1)
    BY DEF Grown
  <2> QED BY <2>1, <2>2
<1> QED BY <1>1, <1>2

\* A node has as many children as its list is long.
LEMMA ChildrenFacts ==
    ASSUME TreeInv, NEW n \in Nodes
    PROVE  /\ Len(children[n]) \in Nat
           /\ IsFiniteSet({c \in Nodes : parent[c] = n})
           /\ Cardinality({c \in Nodes : parent[c] = n}) = Len(children[n])
           /\ IsLeaf(n) <=> Len(children[n]) = 0
           /\ IsLeaf(n) => \A c \in Nodes : parent[c] # n
           /\ \A c \in Nodes : parent[c] = n <=> c \in ToSet(children[n])
<1> DEFINE row == children[n]
           k == Len(row)
           S == ToSet(row)
<1>1. row \in Seq(Vertices) /\ IsInjective(row) /\ S = {c \in Nodes : parent[c] = n}
  BY DEF TreeInv
<1>2. k \in Nat /\ DOMAIN row = 1..k /\ (k = 0 <=> row = <<>>) /\ row \in [1..k -> Vertices]
  BY <1>1, LenProperties, EmptySeq
<1>3. row \in Bijection(1..k, S)
  <2>1. row \in [1..k -> S]
    <3>1. \A i \in 1..k : row[i] \in S
      BY <1>2 DEF ToSet
    <3> HIDE DEF row, k, S
    <3> QED BY <1>2, <3>1
  <2>2. \A c \in S : \E i \in 1..k : row[i] = c
    BY <1>2 DEF ToSet
  <2> HIDE DEF row, k, S
  <2> QED BY <1>1, <2>1, <2>2 DEF Bijection, Injection, Surjection
<1>4. ExistsBijection(1..k, S)
  BY <1>3 DEF ExistsBijection
<1>5. IsFiniteSet(S) /\ Cardinality(S) = k
  <2> HIDE DEF k, S
  <2> QED BY <1>2, <1>4, FS_CountingElements, FS_NatBijection
<1>6. k = 0 => S = {}
  <2> HIDE DEF k, S
  <2> QED BY <1>5, FS_EmptySet
<1> QED BY <1>1, <1>2, <1>5, <1>6 DEF IsLeaf

-----------------------------------------------------------------------------
(* Inboxes                                                                 *)

\* The values in the inboxes.
BoxSum(b) == SumFunctionOnSet([n \in Nodes |-> Values(b[n])], Nodes)

\* The values of an inbox are numbers.
LEMMA BoxValues ==
    ASSUME NEW b \in [Nodes -> Seq(Msgs)]
    PROVE  \A m \in Nodes : Values(b[m]) \in Int
<1>1. \A m \in Msgs : m.value \in Int
  BY DEF Msgs
<1>2. \A s \in Seq(Msgs) : Values(s) \in Int
  BY <1>1, ValuesFacts
<1> QED BY <1>2

\* One inbox changes.
LEMMA BoxChange ==
    ASSUME IsFiniteSet(Nodes), NEW b, NEW c, NEW n,
           \A m \in Nodes : Values(b[m]) \in Int /\ Values(c[m]) \in Int,
           n \in Nodes, \A m \in Nodes \ {n} : Values(c[m]) = Values(b[m])
    PROVE  /\ BoxSum(b) \in Int
           /\ BoxSum(c) = BoxSum(b) + Values(c[n]) - Values(b[n])
<1> DEFINE f == [m \in Nodes |-> Values(b[m])]
           g == [m \in Nodes |-> Values(c[m])]
<1>1. \A m \in Nodes : f[m] = Values(b[m]) /\ g[m] = Values(c[m])
  OBVIOUS
<1>2. \A m \in Nodes : f[m] \in Int /\ g[m] \in Int
  BY <1>1
<1>3. \A m \in Nodes \ {n} : g[m] = f[m]
  BY <1>1
<1> HIDE DEF f, g
<1>4. SumFunctionOnSet(g, Nodes) = SumFunctionOnSet(f, Nodes) + g[n] - f[n]
  BY <1>2, <1>3, SumChange
<1>5. SumFunctionOnSet(f, Nodes) \in Int
  BY <1>2, SumType
<1> QED BY <1>1, <1>4, <1>5 DEF BoxSum, f, g

\* The inboxes before and after node n takes a message and sends m to others.
Delivered(box, n, to, m) ==
    /\ box \in [Nodes -> Seq(Msgs)]
    /\ box[n] = Tail(inbox[n]) /\ Len(box[n]) = Len(inbox[n]) - 1
    /\ Len(inbox[n]) \in Nat \ {0} /\ Head(inbox[n]).value \in Int
    /\ \A x \in Nodes \ (to \union {n}) : box[x] = inbox[x]
    /\ \A x \in to : box[x] = Append(inbox[x], m) /\ Len(box[x]) = Len(inbox[x]) + 1
    /\ BoxSum(inbox) \in Int
    /\ to = {} \/ m.value = 0 => BoxSum(box) = BoxSum(inbox) - Head(inbox[n]).value
    /\ \A p \in Nodes : to = {p} =>
         BoxSum(box) = BoxSum(inbox) - Head(inbox[n]).value + m.value

\* What taking a message and sending others does to the inboxes.
LEMMA SentFacts ==
    ASSUME IsFiniteSet(Nodes), inbox \in [Nodes -> Seq(Msgs)],
           NEW n, n \in Nodes, inbox[n] # <<>>, NEW to, to \subseteq Nodes, n \notin to,
           NEW m, m \in Msgs, NEW box, box = Sent(n, to, m)
    PROVE  Delivered(box, n, to, m)
<1>1. \A x \in Nodes : inbox[x] \in Seq(Msgs)
  OBVIOUS
<1>2. /\ Head(inbox[n]) \in Msgs /\ Tail(inbox[n]) \in Seq(Msgs)
      /\ Len(Tail(inbox[n])) = Len(inbox[n]) - 1 /\ Len(inbox[n]) \in Nat \ {0}
  BY <1>1, HeadTailProperties, EmptySeq
<1>3. /\ box[n] = Tail(inbox[n])
      /\ \A x \in Nodes \ (to \union {n}) : box[x] = inbox[x]
      /\ \A x \in to : box[x] = Append(inbox[x], m)
      /\ box = [x \in Nodes |-> box[x]]
  BY DEF Sent
<1>4. \A x \in to : box[x] \in Seq(Msgs) /\ Len(box[x]) = Len(inbox[x]) + 1
  <2>1. ASSUME NEW x \in to PROVE box[x] \in Seq(Msgs) /\ Len(box[x]) = Len(inbox[x]) + 1
    <3>1. inbox[x] \in Seq(Msgs) /\ box[x] = Append(inbox[x], m)
      BY <1>1, <1>3
    <3> QED BY <3>1, AppendProperties
  <2> QED BY <2>1
<1>5. box \in [Nodes -> Seq(Msgs)]
  <2>1. \A x \in Nodes : box[x] \in Seq(Msgs)
    BY <1>1, <1>2, <1>3, <1>4
  <2> QED BY <1>3, <2>1
<1> DEFINE taken == [inbox EXCEPT ![n] = Tail(inbox[n])]
<1>6. /\ taken \in [Nodes -> Seq(Msgs)]
      /\ taken[n] = Tail(inbox[n]) /\ \A x \in Nodes \ {n} : taken[x] = inbox[x]
  BY <1>1, <1>2
<1> HIDE DEF taken
<1>7. \A k \in Msgs : k.value \in Int
  BY DEF Msgs
<1>8. /\ Values(inbox[n]) = Head(inbox[n]).value + Values(Tail(inbox[n]))
      /\ \A x \in Nodes : Values(inbox[x]) \in Int
      /\ \A x \in to : Values(box[x]) = Values(inbox[x]) + m.value
      /\ Values(Tail(inbox[n])) \in Int
  <2>1. /\ \A s \in Seq(Msgs) : Values(s) \in Int
        /\ \A s \in Seq(Msgs), k \in Msgs : Values(Append(s, k)) = Values(s) + k.value
        /\ \A s \in Seq(Msgs) : s # <<>> => Values(s) = Head(s).value + Values(Tail(s))
    BY <1>7, ValuesFacts
  <2>2. \A x \in to : Values(box[x]) = Values(inbox[x]) + m.value
    <3>1. ASSUME NEW x \in to PROVE Values(box[x]) = Values(inbox[x]) + m.value
      <4>1. inbox[x] \in Seq(Msgs) /\ box[x] = Append(inbox[x], m)
        BY <1>1, <1>3
      <4> QED BY <2>1, <4>1
    <3> QED BY <3>1
  <2>3. Values(inbox[n]) = Head(inbox[n]).value + Values(Tail(inbox[n]))
    BY <1>1, <2>1
  <2>4. Values(Tail(inbox[n])) \in Int
    BY <1>2, <2>1
  <2>5. \A x \in Nodes : Values(inbox[x]) \in Int
    BY <1>1, <2>1
  <2> QED BY <2>2, <2>3, <2>4, <2>5
<1>9. /\ BoxSum(inbox) \in Int /\ BoxSum(taken) \in Int
      /\ BoxSum(taken) = BoxSum(inbox) - Head(inbox[n]).value
  <2>1. \A x \in Nodes \ {n} : Values(taken[x]) = Values(inbox[x])
    BY <1>6
  <2>2. BoxSum(inbox) \in Int /\ BoxSum(taken) = BoxSum(inbox) + Values(taken[n]) - Values(inbox[n])
    BY <1>6, <2>1, BoxValues, BoxChange
  <2>3. Head(inbox[n]).value \in Int
    BY <1>2, <1>7
  <2> QED BY <1>6, <1>8, <2>2, <2>3
<1>10. ASSUME to = {} \/ m.value = 0 PROVE BoxSum(box) = BoxSum(taken)
  <2>1. \A x \in Nodes : Values(box[x]) = Values(taken[x])
    <3>1. \A x \in Nodes \ (to \union {n}) : Values(box[x]) = Values(taken[x])
      BY <1>3, <1>6
    <3>2. \A x \in to : Values(box[x]) = Values(taken[x])
      <4>1. ASSUME NEW x \in to PROVE Values(box[x]) = Values(taken[x])
        <5>1. m.value = 0 /\ x \in Nodes /\ x # n
          BY <1>10
        <5>2. Values(box[x]) = Values(inbox[x]) + 0 /\ Values(inbox[x]) \in Int
          BY <1>8, <5>1
        <5>3. taken[x] = inbox[x]
          BY <1>6, <5>1
        <5> QED BY <5>2, <5>3
      <4> QED BY <4>1
    <3>3. Values(box[n]) = Values(taken[n])
      BY <1>3, <1>6
    <3> QED BY <3>1, <3>2, <3>3
  <2>2. [x \in Nodes |-> Values(box[x])] = [x \in Nodes |-> Values(taken[x])]
    BY <2>1
  <2> QED BY <2>2 DEF BoxSum
<1>11. ASSUME NEW p \in Nodes, to = {p} PROVE BoxSum(box) = BoxSum(taken) + m.value
  <2>1. \A x \in Nodes \ {p} : Values(box[x]) = Values(taken[x])
    BY <1>3, <1>6, <1>11
  <2>2. BoxSum(box) = BoxSum(taken) + Values(box[p]) - Values(taken[p])
    BY <1>5, <1>6, <2>1, BoxValues, BoxChange
  <2>3. Values(box[p]) = Values(taken[p]) + m.value /\ Values(taken[p]) \in Int
    BY <1>6, <1>8, <1>11
  <2>4. m.value \in Int
    BY <1>7
  <2> QED BY <1>9, <2>2, <2>3, <2>4
<1> QED BY <1>2, <1>3, <1>4, <1>5, <1>7, <1>9, <1>10, <1>11 DEF Delivered

-----------------------------------------------------------------------------
(* A node's sum stays out, or goes out                                     *)

\* What the nodes hold that have not handed on their sum.
HeldSum == SumFunction([n \in Unreported |-> Held(n)])

\* Nothing under way for any node, and nothing under way.
Still == (\A n \in Nodes : Answers(n) = 0) => InFlight = 0

\* The sums of what is held are numbers.
LEMMA HeldTypes ==
    ASSUME TreeInv, CastType
    PROVE  /\ \A n \in Nodes : LocalValue(n) \in Int /\ Held(n) \in Int
           /\ \A n \in Nodes : Answers(n) \in Nat /\ Len(inbox[n]) \in Nat
<1>1. ASSUME NEW n \in Nodes PROVE LocalValue(n) \in Int /\ Held(n) \in Int
  <2>1. n \in Int
    BY SizeAssumption DEF TreeInv, Vertices
  <2>2. accumulated[n] \in Int
    BY DEF CastType
  <2>3. LocalValue(n) \in Int
    BY <2>1 DEF LocalValue
  <2> QED BY <2>2, <2>3 DEF Held
<1>2. ASSUME NEW n \in Nodes PROVE Answers(n) \in Nat /\ Len(inbox[n]) \in Nat
  <2>1. inbox[n] \in Seq(Msgs)
    BY DEF CastType
  <2>2. Len(inbox[n]) \in Nat
    BY <2>1, LenProperties
  <2>3. Answers(n) = Len(inbox[n]) + 1 \/ Answers(n) = Len(inbox[n]) + 0
    BY Zenon DEF Answers
  <2> QED BY <2>2, <2>3
<1> QED BY <1>1, <1>2

\* One node holds more.
LEMMA HeldStays ==
    ASSUME IsFiniteSet(Unreported), NEW n, n \in Unreported, NEW x, x \in Int,
           \A m \in Unreported : Held(m) \in Int, Unreported' = Unreported,
           Held(n)' = Held(n) + x, \A m \in Unreported \ {n} : Held(m)' = Held(m)
    PROVE  HeldSum \in Int /\ HeldSum' = HeldSum + x
<1> DEFINE f == [m \in Unreported |-> Held(m)]
           g == [m \in Unreported |-> Held(m)']
<1>1. /\ HeldSum = SumFunctionOnSet(f, Unreported)
      /\ HeldSum' = SumFunctionOnSet(g, Unreported)
  <2>1. DOMAIN f = Unreported
    OBVIOUS
  <2>2. HeldSum = SumFunctionOnSet(f, Unreported)
    BY <2>1 DEF HeldSum, SumFunction
  <2>3. HeldSum' = SumFunctionOnSet(g, DOMAIN g)
    BY DEF HeldSum, SumFunction
  <2> QED BY <2>2, <2>3
<1>2. \A m \in Unreported : f[m] = Held(m) /\ g[m] = Held(m)'
  OBVIOUS
<1>3. \A m \in Unreported : f[m] \in Int /\ g[m] \in Int
  BY <1>2
<1>4. \A m \in Unreported \ {n} : g[m] = f[m]
  BY <1>2
<1> HIDE DEF f, g
<1>5. SumFunctionOnSet(g, Unreported) = SumFunctionOnSet(f, Unreported) + g[n] - f[n]
  BY <1>3, <1>4, SumChange
<1>6. SumFunctionOnSet(f, Unreported) \in Int
  BY <1>3, SumType
<1> QED BY <1>1, <1>2, <1>3, <1>5, <1>6

\* One node hands on what it holds.
LEMMA HeldGoes ==
    ASSUME IsFiniteSet(Unreported), NEW n, n \in Unreported,
           \A m \in Unreported : Held(m) \in Int, Unreported' = Unreported \ {n},
           \A m \in Unreported \ {n} : Held(m)' = Held(m)
    PROVE  HeldSum \in Int /\ HeldSum' = HeldSum - Held(n)
<1> DEFINE f == [m \in Unreported |-> Held(m)]
           R == Unreported \ {n}
           g == [m \in R |-> Held(m)']
<1>1. HeldSum = SumFunctionOnSet(f, Unreported) /\ HeldSum' = SumFunctionOnSet(g, R)
  <2>1. DOMAIN f = Unreported
    OBVIOUS
  <2>2. HeldSum = SumFunctionOnSet(f, Unreported)
    BY <2>1 DEF HeldSum, SumFunction
  <2>3. HeldSum' = SumFunctionOnSet(g, DOMAIN g)
    BY DEF HeldSum, SumFunction
  <2> QED BY <2>2, <2>3
<1>2. \A m \in Unreported : f[m] = Held(m) /\ f[m] \in Int
  OBVIOUS
<1>3. \A m \in R : f[m] \in Int /\ g[m] = f[m]
  BY <1>2
<1>4. IsFiniteSet(R)
  BY FS_Subset
<1> HIDE DEF f, g
<1>5. SumFunctionOnSet(f, Unreported) = f[n] + SumFunctionOnSet(f, R)
  BY <1>2, SumRemove
<1> HIDE DEF R
<1>6. SumFunctionOnSet(g, R) = SumFunctionOnSet(f, R)
  BY <1>3, <1>4, SumAgree
<1>7. SumFunctionOnSet(f, R) \in Int
  BY <1>3, <1>4, SumType
<1> QED BY <1>1, <1>2, <1>5, <1>6, <1>7

\* When no child of the root is out, no other node is.
LEMMA RootLast ==
    ASSUME TreeInv, DepthInv, ParentsWait, Waiting(root) = {}
    PROVE  Unreported \subseteq {root}
<1> PICK dep : Grown(dep)
  BY DEF DepthInv
<1> DEFINE Out == Unreported \ {root}
           Deep == {dep[m] : m \in Out}
<1> SUFFICES ASSUME Out # {} PROVE FALSE
  OBVIOUS
<1>1. Out \subseteq Nodes /\ dep \in [Nodes -> Nat]
  BY DEF Unreported, Grown
<1>2. PICK d \in Deep : \A k \in Deep : d <= k
  <2>1. Deep \in SUBSET Nat /\ Deep # {}
    BY <1>1
  <2> HIDE DEF Deep
  <2> QED BY <2>1, LeastNatural
<1>3. PICK n \in Out : dep[n] = d
  BY <1>2
<1>4. parent[n] \in Nodes /\ parent[n] # Nil /\ dep[n] = dep[parent[n]] + 1
  BY <1>1, <1>3, NodesFacts DEF TreeInv, Grown
<1>5. parent[n] \in Unreported
  BY <1>3 DEF ParentsWait
<1>6. parent[n] # root
  BY <1>1, <1>3 DEF Waiting
<1>7. dep[parent[n]] \in Deep /\ dep[parent[n]] \in Nat
  BY <1>1, <1>4, <1>5, <1>6
<1>8. d <= dep[parent[n]]
  BY <1>2, <1>7
<1> QED BY <1>3, <1>4, <1>7, <1>8

\* A step that leaves a node's sum with it keeps the invariant of the sums.
LEMMA StaysOut ==
    ASSUME TreeInv, DepthInv, CastType, SumsInv, running, ParentsFirst',
           UNCHANGED <<root, parent, children>>,
           NEW n \in Unreported, NEW x \in Int,
           Unreported' = Unreported, Reached' = Reached \union {n},
           Held(n)' = Held(n) + x, \A m \in Unreported \ {n} : Held(m)' = Held(m),
           \A m \in Reached \ {n} : pending'[m] = pending[m] /\ Answers(m)' = Answers(m),
           pending'[n] = Cardinality(Waiting(n)) + Answers(n)',
           InFlight \in Int, InFlight' = InFlight - x, printed' = printed
    PROVE  SumsInv'
<1>1. Nodes' = Nodes /\ \A m : Waiting(m)' = Waiting(m)
  BY DEF Nodes, Waiting
<1>2. WaitsForAnswers'
  BY <1>1 DEF SumsInv, WaitsForAnswers
<1>3. ParentsWait'
  BY DEF SumsInv, ParentsWait
<1>4. TreeTotal' = TreeTotal
  BY <1>1 DEF TreeTotal, LocalValue
<1>5. printed = <<>> /\ PrintedTotal'
  BY DEF SumsInv, PrintedTotal
<1>6. HeldSum \in Int /\ HeldSum' = HeldSum + x
  <2>1. Unreported \subseteq Nodes
    BY DEF Unreported
  <2>2. IsFiniteSet(Unreported)
    BY <2>1, NodesFacts, FS_Subset
  <2>3. \A m \in Unreported : Held(m) \in Int
    BY <2>1, HeldTypes
  <2> QED BY <2>2, <2>3, HeldStays
<1>7. InFlight + HeldSum = TreeTotal
  BY <1>5 DEF SumsInv, ValueConserved, HeldSum
<1>8. InFlight' + HeldSum' = TreeTotal'
  BY <1>4, <1>6, <1>7
<1>9. ValueConserved'
  BY <1>8 DEF ValueConserved, HeldSum
<1> QED BY <1>2, <1>3, <1>5, <1>9 DEF SumsInv

\* A step with which a node's sum goes to its parent, or to the output, keeps it too.
LEMMA GoesOut ==
    ASSUME TreeInv, DepthInv, CastType, CastType', SumsInv, running, ParentsFirst', Still',
           UNCHANGED <<adj, root, parent, children>>, TreeInv',
           NEW n \in Unreported, NEW x \in Int, NEW H, H = Held(n) + x,
           Unreported' = Unreported \ {n}, Reached' = Reached \union {n},
           \A m \in Unreported \ {n} : Held(m)' = Held(m),
           \A m \in Reached \ {n} :
             /\ pending'[m] = pending[m]
             /\ Answers(m)' = Answers(m) + IF n # root /\ m = parent[n] THEN 1 ELSE 0,
           Waiting(n) = {}, pending'[n] = 0, Answers(n)' = 0, InFlight \in Int,
           n = root => printed' = Append(printed, H) /\ InFlight' = InFlight - x,
           n # root => printed' = printed /\ InFlight' = InFlight - x + H
    PROVE  SumsInv'
<1>1. Nodes' = Nodes /\ \A m : Waiting(m)' = Waiting(m) \ {n}
  BY DEF Nodes, Waiting
<1>2. n \in Nodes /\ Unreported \subseteq Nodes /\ Held(n) \in Int
  BY HeldTypes DEF Unreported
<1>3. WaitsForAnswers'
  <2>1. ASSUME NEW m \in Reached, m # n, m \in Nodes
        PROVE  pending'[m] = Cardinality(Waiting(m)') + Answers(m)'
    <3>1. IsFiniteSet(Waiting(m)) /\ Cardinality(Waiting(m)) \in Nat
      <4>1. Waiting(m) \subseteq Nodes
        BY DEF Waiting
      <4> QED BY <4>1, NodesFacts, FS_Subset, FS_CardinalityType
    <3>2. pending[m] = Cardinality(Waiting(m)) + Answers(m) /\ Answers(m) \in Nat
      BY <2>1, HeldTypes DEF SumsInv, WaitsForAnswers
    <3>3. CASE n # root /\ m = parent[n]
      <4>1. n \in Waiting(m)
        BY <1>2, <3>3 DEF Waiting
      <4>2. Cardinality(Waiting(m) \ {n}) = Cardinality(Waiting(m)) - 1
        BY <3>1, <4>1, FS_RemoveElement
      <4>3. pending'[m] = pending[m] /\ Answers(m)' = Answers(m) + 1
        BY <2>1, <3>3
      <4>4. Waiting(m)' = Waiting(m) \ {n}
        BY <1>1
      <4>5. Cardinality(Waiting(m)') = Cardinality(Waiting(m)) - 1
        BY <4>2, <4>4
      <4> QED BY <3>1, <3>2, <4>3, <4>5
    <3>4. CASE ~(n # root /\ m = parent[n])
      <4>1. n = root => parent[n] = Nil
        BY <1>2 DEF TreeInv
      <4>2. m # Nil
        BY <2>1, NodesFacts
      <4>3. n \notin Waiting(m)
        BY <3>4, <4>1, <4>2 DEF Waiting
      <4>4. Waiting(m) \ {n} = Waiting(m)
        BY <4>3
      <4>5. pending'[m] = pending[m] /\ Answers(m)' = Answers(m) + 0
        BY <2>1, <3>4
      <4>6. Waiting(m)' = Waiting(m)
        BY <1>1, <4>4
      <4>7. Cardinality(Waiting(m)') = Cardinality(Waiting(m))
        BY <4>6
      <4> QED BY <3>1, <3>2, <4>5, <4>7
    <3> QED BY <3>3, <3>4
  <2>2. pending'[n] = Cardinality(Waiting(n)') + Answers(n)'
    <3>1. Waiting(n)' = {}
      BY <1>1
    <3> QED BY <3>1, FS_EmptySet
  <2>3. Reached \subseteq Nodes
    BY LenProperties DEF CastType, Reached, ToSet
  <2>4. ASSUME NEW m \in Reached' PROVE pending'[m] = Cardinality(Waiting(m)') + Answers(m)'
    BY <2>1, <2>2, <2>3
  <2> QED BY <2>4 DEF WaitsForAnswers
<1>4. ParentsWait'
  <2>1. ASSUME NEW m \in Unreported \ {n}, m # root PROVE parent[m] \in Unreported \ {n}
    <3>1. parent[m] \in Unreported
      BY <2>1 DEF SumsInv, ParentsWait
    <3>2. parent[m] # n
      BY <1>2 DEF Waiting
    <3> QED BY <3>1, <3>2
  <2> QED BY <2>1 DEF ParentsWait
<1>5. TreeTotal' = TreeTotal
  BY <1>1 DEF TreeTotal, LocalValue
<1>6. printed = <<>>
  BY DEF SumsInv, PrintedTotal
<1>7. HeldSum \in Int /\ HeldSum' = HeldSum - Held(n)
  <2>1. IsFiniteSet(Unreported)
    BY <1>2, NodesFacts, FS_Subset
  <2>2. \A m \in Unreported : Held(m) \in Int
    BY <1>2, HeldTypes
  <2> QED BY <2>1, <2>2, HeldGoes
<1>8. InFlight + HeldSum = TreeTotal
  BY <1>6 DEF SumsInv, ValueConserved, HeldSum
<1>9. CASE n # root
  <2>1. InFlight' + HeldSum' = TreeTotal'
    BY <1>2, <1>5, <1>7, <1>8, <1>9
  <2>2. ValueConserved' /\ PrintedTotal'
    BY <1>6, <1>9, <2>1 DEF ValueConserved, HeldSum, PrintedTotal
  <2> QED BY <1>3, <1>4, <2>2 DEF SumsInv
<1>10. CASE n = root
  <2>1. Unreported' = {}
    BY <1>10, RootLast DEF SumsInv
  <2>2. ASSUME NEW m \in Nodes PROVE Answers(m)' = 0
    <3>1. m \in Reached' /\ (IsLeaf(m)' \/ ~(pending'[m] > 0))
      BY <1>1, <2>1 DEF Unreported
    <3>2. pending'[m] \in Nat /\ pending'[m] <= Len(children'[m])
      BY <1>1 DEF CastType
    <3>3. IsLeaf(m)' => Len(children'[m]) = 0
      BY <1>1, ChildrenFacts DEF IsLeaf
    <3>4. pending'[m] = 0
      BY <3>1, <3>2, <3>3
    <3>5. Waiting(m)' = {} /\ Answers(m)' \in Nat
      <4>1. inbox'[m] \in Seq(Msgs)
        BY <1>1 DEF CastType
      <4>2. Len(inbox'[m]) \in Nat
        BY <4>1, LenProperties
      <4>3. Answers(m)' = Len(inbox'[m]) + 1 \/ Answers(m)' = Len(inbox'[m]) + 0
        BY Zenon DEF Answers
      <4>4. Answers(m)' \in Nat
        BY <4>2, <4>3
      <4> QED BY <1>1, <2>1, <4>4 DEF Waiting
    <3>6. pending'[m] = Cardinality(Waiting(m)') + Answers(m)'
      BY <1>3, <3>1 DEF WaitsForAnswers
    <3> QED BY <3>4, <3>5, <3>6, FS_EmptySet
  <2>3. InFlight' = 0
    BY <1>1, <2>2 DEF Still
  <2>4. HeldSum' = 0
    <3>1. HeldSum' = SumFunctionOnSet([m \in {} |-> Held(m)'], {})
      BY <2>1 DEF HeldSum, SumFunction
    <3> QED BY <3>1, SumEmpty
  <2>5. H = TreeTotal'
    BY <1>2, <1>5, <1>7, <1>8, <1>10, <2>3, <2>4
  <2>6. printed' = <<TreeTotal'>>
    BY <1>6, <1>10, <2>5
  <2>7. ValueConserved' /\ PrintedTotal'
    BY <2>1, <2>6 DEF ValueConserved, PrintedTotal
  <2> QED BY <1>3, <1>4, <2>7 DEF SumsInv
<1> QED BY <1>9, <1>10

-----------------------------------------------------------------------------
(* The message reaches a node, an answer reaches it                        *)

\* The nodes that are reached have the parents that are.
LEMMA ParentReached ==
    ASSUME TreeInv, CastType, ParentsFirst, NEW n \in Reached, n # root
    PROVE  parent[n] \in Reached
<1>1. received \in Seq(Nodes) /\ DOMAIN received = 1..Len(received) /\ Len(received) \in Nat
  BY LenProperties DEF CastType
<1>2. PICK i \in DOMAIN received : received[i] = n
  BY DEF Reached, ToSet
<1>3. n \in Nodes /\ ~IsRoot(n)
  <2>1. n \in Nodes
    BY <1>1, <1>2, ElementOfSeq
  <2> QED BY <2>1 DEF TreeInv, IsRoot
<1>4. PICK j \in 1..(i - 1) : received[j] = parent[n]
  BY <1>2, <1>3 DEF ParentsFirst
<1>5. j \in DOMAIN received
  BY <1>1, <1>4
<1> QED BY <1>4, <1>5 DEF Reached, ToSet

\* What start() or the GO message does to the counters of a node.
Entered(n) ==
    /\ n \in Nodes \ Reached /\ (n = root \/ parent[n] \in Reached)
    /\ UNCHANGED <<adj, root, parent, children>>
    /\ received' = Append(received, n)
    /\ pending' = [pending EXCEPT ![n] = Len(children[n])]
    /\ accumulated' = [accumulated EXCEPT ![n] = 0]

\* A node that is entered has not handed on its sum; it does so if it is a leaf.
LEMMA EnteredFacts ==
    ASSUME TreeInv, DepthInv, CastType, ParentsFirst, NEW n, Entered(n)
    PROVE  /\ received' \in Seq(Nodes) /\ IsInjective(received')
           /\ Reached' = Reached \union {n} /\ ParentsFirst'
           /\ pending' \in [Nodes -> Nat] /\ accumulated' \in [Nodes -> Int]
           /\ \A m \in Nodes : pending'[m] <= Len(children[m])
           /\ pending'[n] = Len(children[n]) /\ \A m \in Nodes \ {n} : pending'[m] = pending[m]
           /\ n \in Unreported /\ Held(n) = LocalValue(n) /\ Held(n)' = LocalValue(n)
           /\ \A m \in Nodes \ {n} : Held(m)' = Held(m)
           /\ Unreported' = IF IsLeaf(n) THEN Unreported \ {n} ELSE Unreported
           /\ \A c \in Nodes : parent[c] = n => c \notin Reached
           /\ Cardinality(Waiting(n)) = Len(children[n])
           /\ IsLeaf(n) => Waiting(n) = {}
<1>1. /\ n \in Nodes /\ n \notin Reached /\ (n = root \/ parent[n] \in Reached)
      /\ Nodes' = Nodes /\ received \in Seq(Nodes)
  BY DEF Entered, Nodes, CastType
<1>2. received' \in Seq(Nodes) /\ IsInjective(received') /\ Reached' = Reached \union {n}
  <2>1. received' = Append(received, n) /\ IsInjective(received)
    BY DEF Entered, CastType
  <2> QED BY <1>1, <2>1, AppendFacts DEF Reached
<1>3. ParentsFirst'
  <2> DEFINE k == Len(received)
  <2>1. /\ k \in Nat /\ DOMAIN received = 1..k /\ DOMAIN received' = 1..(k + 1)
        /\ \A i \in 1..k : received'[i] = received[i]
        /\ received'[k + 1] = n
    BY <1>1, LenProperties, AppendProperties DEF Entered
  <2>2. \A i : IsRoot(i)' = IsRoot(i) /\ parent' = parent
    BY DEF Entered, IsRoot
  <2> HIDE DEF k
  <2>3. ASSUME NEW i \in 1..(k + 1), ~IsRoot(received'[i])
        PROVE  \E j \in 1..(i - 1) : received'[j] = parent[received'[i]]
    <3>1. CASE i <= k
      <4>1. i \in 1..k
        BY <2>1, <3>1
      <4>2. PICK j \in 1..(i - 1) : received[j] = parent[received[i]]
        BY <2>1, <2>3, <4>1 DEF ParentsFirst
      <4>3. j \in 1..k
        BY <2>1, <4>1, <4>2
      <4> QED BY <2>1, <4>1, <4>2, <4>3
    <3>2. CASE ~(i <= k)
      <4>1. i = k + 1 /\ received'[i] = n
        BY <2>1, <3>2
      <4>2. n # root
        BY <1>1, <2>3, <4>1 DEF TreeInv, IsRoot
      <4>3. PICK j \in DOMAIN received : received[j] = parent[n]
        BY <1>1, <4>2 DEF Reached, ToSet
      <4>4. j \in 1..(i - 1) /\ j \in 1..k
        BY <2>1, <4>1, <4>3
      <4> QED BY <2>1, <4>1, <4>3, <4>4
    <3> QED BY <3>1, <3>2
  <2> QED BY <2>1, <2>2, <2>3 DEF ParentsFirst, IsRoot
<1>4. /\ pending' \in [Nodes -> Nat] /\ accumulated' \in [Nodes -> Int]
      /\ pending'[n] = Len(children[n]) /\ accumulated'[n] = 0
      /\ \A m \in Nodes \ {n} : pending'[m] = pending[m] /\ accumulated'[m] = accumulated[m]
  BY <1>1, ChildrenFacts DEF CastType, Entered
<1>5. \A m \in Nodes : pending'[m] <= Len(children[m])
  <2>1. \A m \in Nodes : pending[m] <= Len(children[m])
    BY DEF CastType
  <2>2. Len(children[n]) \in Nat
    BY <1>1, ChildrenFacts
  <2>3. pending'[n] <= Len(children[n])
    BY <1>4, <2>2
  <2> QED BY <1>4, <2>1, <2>3
<1>6. ASSUME NEW c \in Nodes, parent[c] = n PROVE c \notin Reached
  <2>1. c # root
    BY <1>1, <1>6, NodesFacts DEF TreeInv
  <2> QED BY <1>1, <1>6, <2>1, ParentReached
<1>7. n \in Unreported /\ Held(n) = LocalValue(n) /\ Held(n)' = LocalValue(n)
  <2>1. LocalValue(n) \in Int
    BY <1>1, HeldTypes
  <2>2. Held(n) = LocalValue(n) + 0 /\ Held(n)' = LocalValue(n) + 0
    BY <1>1, <1>2, <1>4 DEF Held, LocalValue
  <2> QED BY <1>1, <2>1, <2>2 DEF Unreported
<1>8. \A m \in Nodes \ {n} : Held(m)' = Held(m)
  BY <1>2, <1>4 DEF Held, LocalValue
<1>9. \A m : IsLeaf(m)' = IsLeaf(m)
  BY DEF Entered, IsLeaf
<1>10. ASSUME NEW m \in Nodes, m # n PROVE m \in Unreported' <=> m \in Unreported
  <2>1. m \in Reached' <=> m \in Reached
    BY <1>2, <1>10
  <2>2. pending'[m] = pending[m]
    BY <1>4, <1>10
  <2> QED BY <1>1, <1>9, <2>1, <2>2 DEF Unreported
<1>11. n \in Unreported' <=> ~IsLeaf(n)
  <2>1. Len(children[n]) \in Nat /\ (IsLeaf(n) <=> Len(children[n]) = 0)
    BY <1>1, ChildrenFacts
  <2>2. ~IsLeaf(n) => pending'[n] > 0
    BY <1>4, <2>1
  <2> QED BY <1>1, <1>2, <1>9, <2>2 DEF Unreported
<1>12. Unreported' = IF IsLeaf(n) THEN Unreported \ {n} ELSE Unreported
  <2>1. Unreported' \subseteq Nodes /\ Unreported \subseteq Nodes
    BY <1>1 DEF Unreported
  <2> QED BY <1>7, <1>10, <1>11, <2>1
<1>13. Waiting(n) = {c \in Nodes : parent[c] = n}
  BY <1>6 DEF Waiting, Unreported
<1>14. Cardinality(Waiting(n)) = Len(children[n]) /\ (IsLeaf(n) => Waiting(n) = {})
  BY <1>1, <1>13, ChildrenFacts
<1> QED BY <1>2, <1>3, <1>4, <1>5, <1>6, <1>7, <1>8, <1>12, <1>14

\* The sums when a node is entered that is not a leaf.
LEMMA EnteredInner ==
    ASSUME TreeInv, DepthInv, CastType, SumsInv, running, NEW n, Entered(n), ~IsLeaf(n),
           Answers(n)' = 0, \A m \in Reached : Answers(m)' = Answers(m),
           InFlight \in Int, InFlight' = InFlight, printed' = printed
    PROVE  SumsInv'
<1>1. ParentsFirst
  BY DEF SumsInv
<1>2. /\ Reached' = Reached \union {n} /\ ParentsFirst'
      /\ pending'[n] = Len(children[n]) /\ \A m \in Nodes \ {n} : pending'[m] = pending[m]
      /\ n \in Unreported /\ Held(n) = LocalValue(n) /\ Held(n)' = LocalValue(n)
      /\ \A m \in Nodes \ {n} : Held(m)' = Held(m)
      /\ Unreported' = Unreported
      /\ Cardinality(Waiting(n)) = Len(children[n])
  BY <1>1, EnteredFacts
<1>3. Reached \subseteq Nodes /\ Unreported \subseteq Nodes /\ n \in Nodes
  BY LenProperties DEF CastType, Reached, ToSet, Unreported, Entered
<1>4. Held(n)' = Held(n) + 0 /\ InFlight' = InFlight - 0 /\ 0 \in Int
  BY <1>2, <1>3, HeldTypes
<1>5. pending'[n] = Cardinality(Waiting(n)) + Answers(n)'
  BY <1>2, <1>3, ChildrenFacts
<1>6. \A m \in Unreported \ {n} : Held(m)' = Held(m)
  BY <1>2, <1>3
<1>7. \A m \in Reached \ {n} : pending'[m] = pending[m] /\ Answers(m)' = Answers(m)
  BY <1>2, <1>3
<1>8. UNCHANGED <<root, parent, children>>
  BY DEF Entered
<1> QED BY <1>2, <1>4, <1>5, <1>6, <1>7, <1>8, StaysOut

\* The sums when a leaf is entered.
LEMMA EnteredLeaf ==
    ASSUME TreeInv, TreeInv', DepthInv, CastType, CastType', SumsInv, Still', running,
           NEW n, Entered(n), IsLeaf(n), Answers(n)' = 0,
           \A m \in Reached : Answers(m)' = Answers(m) + IF n # root /\ m = parent[n] THEN 1 ELSE 0,
           InFlight \in Int,
           n = root => printed' = Append(printed, LocalValue(n)) /\ InFlight' = InFlight,
           n # root => printed' = printed /\ InFlight' = InFlight + LocalValue(n)
    PROVE  SumsInv'
<1>1. ParentsFirst
  BY DEF SumsInv
<1>2. /\ Reached' = Reached \union {n} /\ ParentsFirst'
      /\ pending'[n] = Len(children[n]) /\ \A m \in Nodes \ {n} : pending'[m] = pending[m]
      /\ n \in Unreported /\ Held(n) = LocalValue(n)
      /\ \A m \in Nodes \ {n} : Held(m)' = Held(m)
      /\ Unreported' = Unreported \ {n}
      /\ Waiting(n) = {}
  BY <1>1, EnteredFacts
<1>3. Reached \subseteq Nodes /\ Unreported \subseteq Nodes /\ n \in Nodes
  BY LenProperties DEF CastType, Reached, ToSet, Unreported, Entered
<1>4. pending'[n] = 0
  BY <1>2, <1>3, ChildrenFacts
<1>5. \A m \in Unreported \ {n} : Held(m)' = Held(m)
  BY <1>2, <1>3
<1>6. \A m \in Reached \ {n} :
        /\ pending'[m] = pending[m]
        /\ Answers(m)' = Answers(m) + IF n # root /\ m = parent[n] THEN 1 ELSE 0
  BY <1>2, <1>3
<1>7. UNCHANGED <<adj, root, parent, children>>
  BY DEF Entered
<1>8. PICK H : H = LocalValue(n)
  OBVIOUS
<1>9. H = Held(n) + 0 /\ 0 \in Int
  BY <1>2, <1>3, <1>8, HeldTypes
<1>10. /\ n = root => printed' = Append(printed, H) /\ InFlight' = InFlight - 0
       /\ n # root => printed' = printed /\ InFlight' = InFlight - 0 + H
  BY <1>8
<1> QED BY <1>2, <1>4, <1>5, <1>6, <1>7, <1>9, <1>10, GoesOut

\* What back() or the BACK message with value x does to the counters of a node.
Answered(n, x) ==
    /\ n \in Reached /\ x \in Int /\ Answers(n) > 0
    /\ UNCHANGED <<adj, root, parent, children, received>>
    /\ pending' = [pending EXCEPT ![n] = pending[n] - 1]
    /\ accumulated' = [accumulated EXCEPT ![n] = accumulated[n] + x]

\* A node that is answered was waiting; it hands on its sum with the last answer.
LEMMA AnsweredFacts ==
    ASSUME TreeInv, DepthInv, CastType, WaitsForAnswers, NEW n, NEW x, Answered(n, x)
    PROVE  /\ n \in Nodes /\ pending[n] > 0 /\ ~IsLeaf(n)
           /\ pending' \in [Nodes -> Nat] /\ accumulated' \in [Nodes -> Int]
           /\ \A m \in Nodes : pending'[m] <= Len(children[m])
           /\ pending'[n] = pending[n] - 1
           /\ \A m \in Nodes \ {n} : pending'[m] = pending[m]
           /\ n \in Unreported /\ Held(n) = LocalValue(n) + accumulated[n]
           /\ Held(n)' = Held(n) + x
           /\ \A m \in Nodes \ {n} : Held(m)' = Held(m)
           /\ Unreported' = IF pending[n] = 1 THEN Unreported \ {n} ELSE Unreported
           /\ Cardinality(Waiting(n)) \in Nat
           /\ pending[n] = Cardinality(Waiting(n)) + Answers(n) /\ Answers(n) \in Nat
           /\ pending[n] = 1 => Waiting(n) = {} /\ Answers(n) = 1
<1>1. n \in Nodes /\ n \in Reached /\ x \in Int /\ Nodes' = Nodes /\ Reached' = Reached
  BY LenProperties DEF Answered, CastType, Reached, ToSet, Nodes
<1>2. IsFiniteSet(Waiting(n)) /\ Cardinality(Waiting(n)) \in Nat
  <2>1. Waiting(n) \subseteq Nodes
    BY DEF Waiting
  <2> QED BY <2>1, NodesFacts, FS_Subset, FS_CardinalityType
<1>3. /\ pending[n] = Cardinality(Waiting(n)) + Answers(n) /\ Answers(n) \in Nat
      /\ Answers(n) > 0 /\ pending[n] > 0
  BY <1>1, <1>2, HeldTypes DEF WaitsForAnswers, Answered
<1>4. ~IsLeaf(n)
  <2>1. pending[n] <= Len(children[n]) /\ pending[n] \in Nat
    BY <1>1 DEF CastType
  <2>2. IsLeaf(n) => Len(children[n]) = 0
    BY <1>1, ChildrenFacts
  <2> QED BY <1>3, <2>1, <2>2
<1>5. /\ pending' \in [Nodes -> Nat] /\ accumulated' \in [Nodes -> Int]
      /\ pending'[n] = pending[n] - 1 /\ accumulated'[n] = accumulated[n] + x
      /\ \A m \in Nodes \ {n} : pending'[m] = pending[m] /\ accumulated'[m] = accumulated[m]
  <2>1. pending[n] \in Nat /\ pending[n] - 1 \in Nat /\ accumulated[n] + x \in Int
    BY <1>1, <1>3 DEF CastType
  <2> QED BY <1>1, <2>1 DEF CastType, Answered
<1>6. \A m \in Nodes : pending'[m] <= Len(children[m])
  <2>1. \A m \in Nodes : pending[m] <= Len(children[m])
    BY DEF CastType
  <2>2. Len(children[n]) \in Nat /\ pending[n] \in Nat
    BY <1>1, ChildrenFacts DEF CastType
  <2>3. pending'[n] <= Len(children[n])
    BY <1>1, <1>5, <2>1, <2>2
  <2> QED BY <1>5, <2>1, <2>3
<1>7. /\ n \in Unreported /\ Held(n) = LocalValue(n) + accumulated[n]
      /\ Held(n)' = Held(n) + x
  <2>1. LocalValue(n) \in Int /\ accumulated[n] \in Int
    BY <1>1, HeldTypes DEF CastType
  <2>2. Held(n) = LocalValue(n) + accumulated[n] /\ Held(n)' = LocalValue(n) + accumulated'[n]
    BY <1>1 DEF Held, LocalValue
  <2> QED BY <1>1, <1>3, <1>4, <1>5, <2>1, <2>2 DEF Unreported
<1>8. \A m \in Nodes \ {n} : Held(m)' = Held(m)
  BY <1>1, <1>5 DEF Held, LocalValue
<1>9. \A m : IsLeaf(m)' = IsLeaf(m)
  BY DEF Answered, IsLeaf
<1>10. \A m \in Nodes \ {n} : m \in Unreported' <=> m \in Unreported
  BY <1>1, <1>5, <1>9 DEF Unreported
<1>11. n \in Unreported' <=> pending[n] # 1
  <2>1. pending[n] # 1 <=> pending'[n] > 0
    BY <1>1, <1>3, <1>5 DEF CastType
  <2> QED BY <1>1, <1>4, <1>9, <2>1 DEF Unreported
<1>12. Unreported' = IF pending[n] = 1 THEN Unreported \ {n} ELSE Unreported
  <2>1. Unreported' \subseteq Nodes /\ Unreported \subseteq Nodes
    BY <1>1 DEF Unreported
  <2> QED BY <1>7, <1>10, <1>11, <2>1
<1>13. ASSUME pending[n] = 1 PROVE Waiting(n) = {} /\ Answers(n) = 1
  <2>1. Cardinality(Waiting(n)) = 0 /\ Answers(n) = 1
    BY <1>2, <1>3, <1>13
  <2> QED BY <1>2, <2>1, FS_EmptySet
<1> QED BY <1>1, <1>2, <1>3, <1>4, <1>5, <1>6, <1>7, <1>8, <1>12, <1>13

\* The sums with an answer that is not the last.
LEMMA AnsweredMore ==
    ASSUME TreeInv, DepthInv, CastType, SumsInv, running, NEW n, NEW x, Answered(n, x),
           pending[n] # 1,
           Answers(n)' = Answers(n) - 1, \A m \in Reached \ {n} : Answers(m)' = Answers(m),
           InFlight \in Int, InFlight' = InFlight - x, printed' = printed
    PROVE  SumsInv'
<1>1. WaitsForAnswers /\ n \in Reached /\ x \in Int
  BY DEF SumsInv, Answered
<1>2. /\ n \in Nodes /\ pending'[n] = pending[n] - 1
      /\ \A m \in Nodes \ {n} : pending'[m] = pending[m]
      /\ n \in Unreported /\ Held(n)' = Held(n) + x
      /\ \A m \in Nodes \ {n} : Held(m)' = Held(m)
      /\ Unreported' = Unreported
      /\ Cardinality(Waiting(n)) \in Nat
      /\ pending[n] = Cardinality(Waiting(n)) + Answers(n) /\ Answers(n) \in Nat
  BY <1>1, AnsweredFacts
<1>3. Reached \subseteq Nodes /\ Unreported \subseteq Nodes
  BY LenProperties DEF CastType, Reached, ToSet, Unreported
<1>4. Reached' = Reached \union {n} /\ ParentsFirst'
  BY <1>1 DEF Answered, Reached, SumsInv, ParentsFirst, IsRoot
<1>5. pending'[n] = Cardinality(Waiting(n)) + Answers(n)'
  BY <1>2
<1>6. \A m \in Unreported \ {n} : Held(m)' = Held(m)
  BY <1>2, <1>3
<1>7. \A m \in Reached \ {n} : pending'[m] = pending[m] /\ Answers(m)' = Answers(m)
  BY <1>2, <1>3
<1>8. UNCHANGED <<root, parent, children>>
  BY DEF Answered
<1> QED BY <1>1, <1>2, <1>4, <1>5, <1>6, <1>7, <1>8, StaysOut

\* The sums with the last answer.
LEMMA AnsweredLast ==
    ASSUME TreeInv, TreeInv', DepthInv, CastType, CastType', SumsInv, Still', running,
           NEW n, NEW x, Answered(n, x), pending[n] = 1, Answers(n)' = 0,
           \A m \in Reached \ {n} :
             Answers(m)' = Answers(m) + IF n # root /\ m = parent[n] THEN 1 ELSE 0,
           InFlight \in Int, NEW H, H = Total(n, accumulated[n] + x),
           n = root => printed' = Append(printed, H) /\ InFlight' = InFlight - x,
           n # root => printed' = printed /\ InFlight' = InFlight - x + H
    PROVE  SumsInv'
<1>1. WaitsForAnswers /\ n \in Reached /\ x \in Int
  BY DEF SumsInv, Answered
<1>2. /\ n \in Nodes /\ pending'[n] = pending[n] - 1
      /\ \A m \in Nodes \ {n} : pending'[m] = pending[m]
      /\ n \in Unreported /\ Held(n) = LocalValue(n) + accumulated[n]
      /\ \A m \in Nodes \ {n} : Held(m)' = Held(m)
      /\ Unreported' = Unreported \ {n} /\ Waiting(n) = {}
  BY <1>1, AnsweredFacts
<1>3. Reached \subseteq Nodes /\ Unreported \subseteq Nodes
  BY LenProperties DEF CastType, Reached, ToSet, Unreported
<1>4. Reached' = Reached \union {n} /\ ParentsFirst'
  BY <1>1 DEF Answered, Reached, SumsInv, ParentsFirst, IsRoot
<1>5. pending'[n] = 0
  BY <1>2
<1>6. \A m \in Unreported \ {n} : Held(m)' = Held(m)
  BY <1>2, <1>3
<1>7. \A m \in Reached \ {n} :
        /\ pending'[m] = pending[m]
        /\ Answers(m)' = Answers(m) + IF n # root /\ m = parent[n] THEN 1 ELSE 0
  BY <1>2, <1>3
<1>8. UNCHANGED <<adj, root, parent, children>>
  BY DEF Answered
<1>9. H = Held(n) + x
  <2>1. LocalValue(n) \in Int /\ accumulated[n] \in Int
    BY <1>2, HeldTypes DEF CastType
  <2> QED BY <1>1, <1>2, <2>1 DEF Total
<1> QED BY <1>1, <1>2, <1>4, <1>5, <1>6, <1>7, <1>8, <1>9, GoesOut

-----------------------------------------------------------------------------
(* Messages                                                                *)

\* What is under way is a number; it is nothing if no node has answers to come.
LEMMA InFlightType ==
    ASSUME TreeInv, DepthInv, CastType
    PROVE  /\ InFlight = BoxSum(inbox) + Values(calls)
           /\ InFlight \in Int /\ BoxSum(inbox) \in Int /\ Values(calls) \in Int
<1>1. InFlight = BoxSum(inbox) + Values(calls)
  BY DEF InFlight, BoxSum, SumFunction
<1>2. BoxSum(inbox) \in Int
  <2> DEFINE f == [n \in Nodes |-> Values(inbox[n])]
  <2>1. \A n \in Nodes : f[n] \in Int
    BY BoxValues DEF CastType
  <2>2. IsFiniteSet(Nodes)
    BY NodesFacts
  <2> HIDE DEF f
  <2>3. SumFunctionOnSet(f, Nodes) \in Int
    BY <2>1, <2>2, SumType
  <2> QED BY <2>3 DEF BoxSum, f
<1>3. Values(calls) \in Int
  <2>1. \A f \in Frames : f.value \in Int
    BY DEF Frames
  <2>2. calls \in Seq(Frames)
    BY DEF CastType
  <2> QED BY <2>1, <2>2, ValuesFacts
<1> QED BY <1>1, <1>2, <1>3

\* Nothing has been received, called or printed.
LEMMA NothingYet ==
    /\ \A S : <<>> \in Seq(S)
    /\ IsInjective(<<>>) /\ DOMAIN <<>> = {} /\ ToSet(<<>>) = {}
BY DEF IsInjective, ToSet

\* The stack without the call on top.
LEMMA TopFacts ==
    ASSUME NEW S, NEW s, s \in Seq(S), s # <<>>
    PROVE  /\ Len(s) \in Nat \ {0} /\ Len(Front(s)) = Len(s) - 1
           /\ Front(s) \in Seq(S) /\ Last(s) \in S /\ Last(s) = s[Len(s)]
           /\ s = Append(Front(s), Last(s))
           /\ \A i \in DOMAIN Front(s) : i \in DOMAIN s /\ i # Len(s) /\ Front(s)[i] = s[i]
           /\ DOMAIN s = DOMAIN Front(s) \union {Len(s)}
<1>1. Len(s) \in Nat \ {0} /\ DOMAIN s = 1..Len(s) /\ \A i \in 1..Len(s) : s[i] \in S
  BY EmptySeq, LenProperties, ElementOfSeq
<1>2. PICK n : n = Len(s)
  OBVIOUS
<1>3. PICK f : f = Front(s)
  OBVIOUS
<1>4. n - 1 \in Nat /\ n \in 1..n /\ n \in Nat \ {0} /\ DOMAIN s = 1..n
  BY <1>1, <1>2
<1>5. f \in Seq(S) /\ Len(f) = n - 1 /\ \A i \in 1..(n - 1) : f[i] = s[i]
  <2>1. f = SubSeq(s, 1, n - 1)
    BY <1>2, <1>3 DEF Front
  <2> QED BY <1>1, <1>2, <1>4, <2>1, SubSeqProperties
<1>6. DOMAIN f = 1..(n - 1)
  BY <1>5, LenProperties
<1>7. Last(s) = s[n] /\ Last(s) \in S
  BY <1>1, <1>2, <1>4 DEF Last
<1>8. s = Append(f, Last(s))
  <2>1. PICK t : t = Append(f, Last(s))
    OBVIOUS
  <2>2. /\ t \in Seq(S) /\ Len(t) = n /\ t[n] = Last(s)
        /\ \A i \in 1..(n - 1) : t[i] = f[i]
    BY <1>4, <1>5, <1>7, <2>1, AppendProperties
  <2>3. \A i \in 1..n : t[i] = s[i]
    <3>1. \A i \in 1..n : i = n \/ i \in 1..(n - 1)
      BY <1>4
    <3> QED BY <1>5, <1>7, <2>2, <3>1
  <2>4. DOMAIN t = 1..n
    BY <2>2, LenProperties
  <2>5. t = [i \in 1..n |-> t[i]] /\ s = [i \in 1..n |-> s[i]]
    <3>1. t = [i \in DOMAIN t |-> t[i]] /\ s = [i \in DOMAIN s |-> s[i]]
      BY <2>2
    <3> QED BY <1>4, <2>4, <3>1
  <2>6. t = s
    BY <2>3, <2>5
  <2> QED BY <2>1, <2>6
<1>9. \A i \in DOMAIN f : i \in DOMAIN s /\ i # n /\ f[i] = s[i]
  BY <1>4, <1>5, <1>6
<1>10. DOMAIN s = DOMAIN f \union {n}
  BY <1>4, <1>6
<1> QED BY <1>1, <1>2, <1>3, <1>5, <1>7, <1>8, <1>9, <1>10

\* Messages and calls without a value: the one that starts a run.
ValuesAreNil ==
    /\ \A n \in Nodes : \A i \in DOMAIN inbox[n] : inbox[n][i].value = 0
    /\ \A i \in DOMAIN calls : calls[i].value = 0

\* When no call and no message carries a value, nothing is under way.
LEMMA NothingUnderWay ==
    TreeInv /\ DepthInv /\ CastType /\ ValuesAreNil => InFlight = 0
<1> SUFFICES ASSUME TreeInv, DepthInv, CastType, ValuesAreNil PROVE InFlight = 0
  OBVIOUS
<1>1. BoxSum(inbox) = 0
  <2> DEFINE f == [n \in Nodes |-> Values(inbox[n])]
  <2>1. \A m \in Msgs : m.value \in Int
    BY DEF Msgs
  <2>2. \A s \in Seq(Msgs) : (\A i \in DOMAIN s : s[i].value = 0) => Values(s) = 0
    BY <2>1, ValuesFacts
  <2>3. \A n \in Nodes : f[n] = 0
    BY <2>2 DEF ValuesAreNil, CastType
  <2>4. IsFiniteSet(Nodes)
    BY NodesFacts
  <2> HIDE DEF f
  <2>5. SumFunctionOnSet(f, Nodes) = 0
    BY <2>3, <2>4, SumZero
  <2> QED BY <2>5 DEF BoxSum, f
<1>2. Values(calls) = 0
  <2>1. \A f \in Frames : f.value \in Int
    BY DEF Frames
  <2>2. calls \in Seq(Frames) /\ \A i \in DOMAIN calls : calls[i].value = 0
    BY DEF CastType, ValuesAreNil
  <2> QED BY <2>1, <2>2, ValuesFacts
<1> QED BY <1>1, <1>2, InFlightType

\* If no node has answers to come, nothing is under way.
LEMMA StillHolds ==
    TreeInv /\ DepthInv /\ CastType /\ InboxInv /\ CallsInv => Still
<1> SUFFICES ASSUME TreeInv, DepthInv, CastType, InboxInv, CallsInv,
                    \A n \in Nodes : Answers(n) = 0
             PROVE  InFlight = 0
  BY DEF Still
<1>1. ASSUME NEW n \in Nodes PROVE inbox[n] = <<>> /\ ~CallsBack(n)
  <2>1. Len(inbox[n]) \in Nat /\ inbox[n] \in Seq(Msgs)
    BY HeldTypes DEF CastType
  <2>2. CallsBack(n) => Answers(n) = Len(inbox[n]) + 1
    BY Zenon DEF Answers
  <2>3. ~CallsBack(n) => Answers(n) = Len(inbox[n]) + 0
    BY Zenon DEF Answers
  <2>4. ~CallsBack(n) /\ Len(inbox[n]) = 0
    BY <2>1, <2>2, <2>3
  <2> QED BY <2>1, <2>4, EmptySeq
<1>2. \A i \in DOMAIN calls : calls[i].value = 0
  <2>1. CASE calls = <<>>
    BY <2>1, NothingYet
  <2>2. CASE calls # <<>>
    <3>1. calls \in Seq(Frames)
      BY DEF CastType
    <3>2. /\ Top = calls[Len(calls)] /\ DOMAIN calls = DOMAIN Below \union {Len(calls)}
          /\ \A i \in DOMAIN Below : Below[i] = calls[i]
      BY <2>2, <3>1, TopFacts DEF Top, Below
    <3>3. CASE Answering
      <4>1. Top.node \in Nodes
        BY <3>3, LenProperties DEF Answering, CastType, Reached, ToSet
      <4>2. CallsBack(Top.node)
        BY <2>2, <3>3 DEF CallsBack, Answering
      <4> QED BY <1>1, <4>1, <4>2
    <3>4. CASE Entering
      BY <3>2, <3>4 DEF Entering, Settled
    <3>5. CASE Settled(calls, Reached, Reached)
      BY <3>5 DEF Settled
    <3> QED BY <2>2, <3>3, <3>4, <3>5 DEF CallsInv
  <2> QED BY <2>1, <2>2
<1>3. ValuesAreNil
  BY <1>1, <1>2, NothingYet DEF ValuesAreNil
<1> QED BY <1>3, NothingUnderWay

\* Without calls what is under way is in the inboxes.
LEMMA NoCalls ==
    ASSUME TreeInv, DepthInv, CastType, calls = <<>>
    PROVE  InFlight = BoxSum(inbox) /\ \A n \in Nodes : Answers(n) = Len(inbox[n])
<1>1. Values(<<>>) = 0
  <2>1. \A f \in Frames : f.value \in Int
    BY DEF Frames
  <2> QED BY <2>1, ValuesFacts
<1>2. InFlight = BoxSum(inbox)
  BY <1>1, InFlightType
<1>3. ASSUME NEW n \in Nodes PROVE Answers(n) = Len(inbox[n])
  <2>1. ~CallsBack(n)
    BY DEF CallsBack
  <2>2. Answers(n) = Len(inbox[n]) + 0
    BY <2>1, Zenon DEF Answers
  <2> QED BY <2>2, HeldTypes
<1> QED BY <1>2, <1>3

\* What is under way before and after node n takes a message and passes m on.
Passed(n, to, m) ==
    /\ inbox' \in [Nodes -> Seq(Msgs)]
    /\ inbox'[n] = Tail(inbox[n])
    /\ Head(inbox[n]).value \in Int
    /\ Answers(n)' = Answers(n) - 1 /\ Answers(n) \in Nat \ {0}
    /\ \A x \in Nodes \ (to \union {n}) : inbox'[x] = inbox[x] /\ Answers(x)' = Answers(x)
    /\ \A x \in to : inbox'[x] = Append(inbox[x], m) /\ Answers(x)' = Answers(x) + 1
    /\ InFlight \in Int
    /\ to = {} \/ m.value = 0 => InFlight' = InFlight - Head(inbox[n]).value
    /\ \A p \in Nodes : to = {p} => InFlight' = InFlight - Head(inbox[n]).value + m.value

\* What taking a message and passing others on does to what is under way.
LEMMA PassFacts ==
    ASSUME TreeInv, DepthInv, CastType, calls = <<>>, calls' = <<>>, parent' = parent,
           NEW n, n \in Nodes, inbox[n] # <<>>,
           NEW to, to \subseteq Nodes, n \notin to, NEW m, m \in Msgs, inbox' = Sent(n, to, m)
    PROVE  Passed(n, to, m)
<1>1. IsFiniteSet(Nodes) /\ inbox \in [Nodes -> Seq(Msgs)] /\ Nodes' = Nodes
  BY NodesFacts DEF CastType, Nodes
<1>2. PICK box : box = Sent(n, to, m)
  OBVIOUS
<1>3. /\ box \in [Nodes -> Seq(Msgs)]
      /\ box[n] = Tail(inbox[n]) /\ Len(box[n]) = Len(inbox[n]) - 1
      /\ Len(inbox[n]) \in Nat \ {0} /\ Head(inbox[n]).value \in Int
      /\ \A x \in Nodes \ (to \union {n}) : box[x] = inbox[x]
      /\ \A x \in to : box[x] = Append(inbox[x], m) /\ Len(box[x]) = Len(inbox[x]) + 1
      /\ BoxSum(inbox) \in Int
      /\ to = {} \/ m.value = 0 => BoxSum(box) = BoxSum(inbox) - Head(inbox[n]).value
      /\ \A p \in Nodes : to = {p} =>
           BoxSum(box) = BoxSum(inbox) - Head(inbox[n]).value + m.value
  <2>1. Delivered(box, n, to, m)
    BY <1>1, <1>2, SentFacts
  <2> QED BY <2>1 DEF Delivered
<1>4. inbox' = box
  BY <1>2
<1>5. InFlight = BoxSum(inbox) /\ \A x \in Nodes : Answers(x) = Len(inbox[x])
  BY NoCalls
<1>6. \A x \in Nodes : Answers(x)' = Len(box[x])
  <2>1. ASSUME NEW x \in Nodes PROVE Answers(x)' = Len(box[x])
    <3>1. ~CallsBack(x)'
      BY DEF CallsBack
    <3>2. Answers(x)' = Len(inbox'[x]) + 0
      BY <3>1, Zenon DEF Answers
    <3>3. box[x] \in Seq(Msgs)
      BY <1>3
    <3> QED BY <1>4, <3>2, <3>3, LenProperties
  <2> QED BY <2>1
<1>7. InFlight' = BoxSum(box)
  <2>1. InFlight' = SumFunctionOnSet([x \in Nodes |-> Values(inbox'[x])], Nodes) + Values(calls')
    BY <1>1 DEF InFlight, SumFunction, Values
  <2>2. Values(calls') = 0
    <3>1. \A f \in Frames : f.value \in Int
      BY DEF Frames
    <3> QED BY <3>1, ValuesFacts
  <2>3. InFlight' = BoxSum(box) + 0
    BY <1>4, <2>1, <2>2 DEF BoxSum
  <2>4. BoxSum(box) \in Int
    <3> DEFINE f == [x \in Nodes |-> Values(box[x])]
    <3>1. \A x \in Nodes : f[x] \in Int
      BY <1>3, BoxValues
    <3> HIDE DEF f
    <3>2. SumFunctionOnSet(f, Nodes) \in Int
      BY <1>1, <3>1, SumType
    <3> QED BY <3>2 DEF BoxSum, f
  <2> QED BY <2>3, <2>4
<1> QED BY <1>3, <1>4, <1>5, <1>6, <1>7 DEF Passed

\* The same when node n hands on a sum.
Reported(n, total) ==
    /\ inbox' \in [Nodes -> Seq(Msgs)]
    /\ inbox'[n] = Tail(inbox[n]) /\ Head(inbox[n]).value \in Int
    /\ \A m \in Nodes \ {n} :
         inbox'[m] = IF n # root /\ m = parent[n] THEN Append(inbox[m], BACK(total))
                                                  ELSE inbox[m]
    /\ Answers(n)' = Answers(n) - 1 /\ Answers(n) \in Nat \ {0}
    /\ \A m \in Nodes \ {n} :
         Answers(m)' = Answers(m) + IF n # root /\ m = parent[n] THEN 1 ELSE 0
    /\ InFlight \in Int
    /\ n = root => /\ printed' = Append(printed, total)
                   /\ InFlight' = InFlight - Head(inbox[n]).value
    /\ n # root => /\ printed' = printed
                   /\ InFlight' = InFlight - Head(inbox[n]).value + total

\* What handing on a sum does to what is under way.
LEMMA ReportFacts ==
    ASSUME TreeInv, DepthInv, CastType, calls = <<>>, calls' = <<>>, parent' = parent,
           NEW n, n \in Nodes, inbox[n] # <<>>, NEW total, total \in Int, Report(n, total)
    PROVE  Reported(n, total)
<1>1. /\ parent[n] # n /\ (IsRoot(n) <=> n = root)
      /\ (n # root => parent[n] \in Nodes)
      /\ \A m \in Nodes : Answers(m) \in Nat
  BY NodesFacts, HeldTypes DEF TreeInv, IsRoot
<1>2. GO \in Msgs /\ BACK(total) \in Msgs /\ BACK(total).value = total
  BY DEF GO, BACK, Msgs
<1>3. CASE n = root
  <2>1. inbox' = Sent(n, {}, GO) /\ printed' = Append(printed, total)
    BY <1>1, <1>3 DEF Report
  <2>2. PICK to : to = {}
    OBVIOUS
  <2>3. /\ inbox' \in [Nodes -> Seq(Msgs)]
        /\ inbox'[n] = Tail(inbox[n]) /\ Head(inbox[n]).value \in Int
        /\ Answers(n)' = Answers(n) - 1 /\ Answers(n) \in Nat \ {0}
        /\ \A x \in Nodes \ {n} : inbox'[x] = inbox[x] /\ Answers(x)' = Answers(x)
        /\ InFlight \in Int /\ InFlight' = InFlight - Head(inbox[n]).value
    <3>1. to \subseteq Nodes /\ n \notin to /\ inbox' = Sent(n, to, GO)
      BY <2>1, <2>2
    <3>2. Passed(n, to, GO)
      BY <1>2, <3>1, PassFacts
    <3> QED BY <2>2, <3>2 DEF Passed
  <2> QED BY <1>1, <1>3, <2>1, <2>3 DEF Reported
<1>4. CASE n # root
  <2>1. inbox' = Sent(n, {parent[n]}, BACK(total)) /\ printed' = printed
    BY <1>1, <1>4 DEF Report
  <2>2. {parent[n]} \subseteq Nodes /\ n \notin {parent[n]}
    BY <1>1, <1>4
  <2>3. PICK to : to = {parent[n]}
    OBVIOUS
  <2>4. PICK m : m = BACK(total)
    OBVIOUS
  <2>5. /\ inbox' \in [Nodes -> Seq(Msgs)]
        /\ inbox'[n] = Tail(inbox[n]) /\ Head(inbox[n]).value \in Int
        /\ Answers(n)' = Answers(n) - 1 /\ Answers(n) \in Nat \ {0}
        /\ \A x \in Nodes \ (to \union {n}) : inbox'[x] = inbox[x] /\ Answers(x)' = Answers(x)
        /\ \A x \in to : inbox'[x] = Append(inbox[x], m) /\ Answers(x)' = Answers(x) + 1
        /\ InFlight \in Int
        /\ \A p \in Nodes : to = {p} => InFlight' = InFlight - Head(inbox[n]).value + m.value
    <3>1. to \subseteq Nodes /\ n \notin to /\ inbox' = Sent(n, to, m) /\ m \in Msgs
      BY <1>2, <2>1, <2>2, <2>3, <2>4
    <3>2. Passed(n, to, m)
      BY <3>1, PassFacts
    <3> QED BY <3>2 DEF Passed
  <2>6. InFlight' = InFlight - Head(inbox[n]).value + total
    BY <1>1, <1>2, <1>4, <2>3, <2>4, <2>5
  <2>7. ASSUME NEW x \in Nodes \ {n}
        PROVE  /\ inbox'[x] = IF n # root /\ x = parent[n] THEN Append(inbox[x], BACK(total))
                                                           ELSE inbox[x]
               /\ Answers(x)' = Answers(x) + IF n # root /\ x = parent[n] THEN 1 ELSE 0
    <3>1. CASE x = parent[n]
      BY <1>4, <2>3, <2>4, <2>5, <3>1
    <3>2. CASE x # parent[n]
      BY <1>1, <2>3, <2>5, <3>2
    <3> QED BY <3>1, <3>2
  <2> QED BY <1>4, <2>1, <2>5, <2>6, <2>7 DEF Reported
<1> QED BY <1>3, <1>4
-----------------------------------------------------------------------------
(* Building, and the start of a run                                        *)

\* Building forgets the last run.
LEMMA BuildKeeps ==
    ASSUME TreeInv', CastInv, BuildTree, UNCHANGED <<sync, calls>>
    PROVE  CastInv'
<1>1. /\ ~running /\ ~running' /\ calls = <<>> /\ calls' = <<>> /\ sync' = sync
      /\ unscanned' = {} /\ progress' = progress
      /\ received' = <<>> /\ printed' = <<>>
      /\ sync \in BOOLEAN /\ running' \in BOOLEAN /\ progress \in BOOLEAN
  BY DEF CastInv, CastType, InboxInv, CallsInv, BuildTree
<1>2. /\ inbox' = [n \in Nodes' |-> <<>>] /\ pending' = [n \in Nodes' |-> 0]
      /\ accumulated' = [n \in Nodes' |-> 0]
  BY DEF BuildTree, Nodes
<1>3. \A n \in Nodes' : inbox'[n] = <<>> /\ pending'[n] = 0
  BY <1>2
<1>4. Reached' = {} /\ DOMAIN received' = {} /\ Unreported' = Nodes'
  BY <1>1, NothingYet DEF Reached, Unreported
<1>5. CastType'
  <2>1. <<>> \in Seq(Msgs) /\ <<>> \in Seq(Frames) /\ <<>> \in Seq(Nodes')
    BY NothingYet
  <2>2. \A n \in Nodes' : 0 <= Len(children'[n])
    <3>1. \A n \in Nodes' : children'[n] \in Seq(Vertices)
      BY DEF TreeInv
    <3> QED BY <3>1, LenProperties
  <2> QED BY <1>1, <1>2, <1>3, <2>1, <2>2, NothingYet DEF CastType, Frames
<1>6. SumsInv'
  <2>1. \A n \in Nodes' \ {root'} : parent'[n] \in Nodes'
    BY DEF TreeInv
  <2> QED BY <1>1, <1>4, <2>1
          DEF SumsInv, ParentsFirst, WaitsForAnswers, ParentsWait, PrintedTotal, ValueConserved
<1>7. InboxInv'
  BY <1>1, <1>3, <1>4 DEF InboxInv
<1>8. CallsInv'
  <2>1. DOMAIN calls' = {} /\ (running' /\ sync' <=> calls' # <<>>)
    BY <1>1, NothingYet
  <2> QED BY <2>1 DEF CallsInv
<1> QED BY <1>5, <1>6, <1>7, <1>8 DEF CastInv

\* Before the first node is entered, every node holds its value.
LEMMA AllHeld ==
    TreeInv /\ Reached = {} => Unreported = Nodes /\ HeldSum = TreeTotal
<1> SUFFICES ASSUME TreeInv, Reached = {} PROVE Unreported = Nodes /\ HeldSum = TreeTotal
  OBVIOUS
<1>1. Unreported = Nodes
  BY DEF Unreported
<1>2. ASSUME NEW n \in Nodes PROVE Held(n) = LocalValue(n)
  <2>1. LocalValue(n) \in Int
    BY SizeAssumption DEF TreeInv, Vertices, LocalValue
  <2> QED BY <2>1 DEF Held
<1>3. [n \in Unreported |-> Held(n)] = [n \in Nodes |-> LocalValue(n)]
  BY <1>1, <1>2
<1> QED BY <1>1, <1>3 DEF HeldSum, TreeTotal

\* The sums at the start of a run.
LEMMA SumsAtStart ==
    TreeInv /\ DepthInv /\ CastType /\ ValuesAreNil /\ received = <<>> /\ printed = <<>> => SumsInv
<1> SUFFICES ASSUME TreeInv, DepthInv, CastType, ValuesAreNil, received = <<>>, printed = <<>>
             PROVE  SumsInv
  OBVIOUS
<1>1. Reached = {} /\ DOMAIN received = {}
  BY NothingYet DEF Reached
<1>2. Unreported = Nodes /\ HeldSum = TreeTotal
  BY <1>1, AllHeld
<1>3. \A n \in Nodes \ {root} : parent[n] \in Nodes
  BY DEF TreeInv
<1>4. ValueConserved
  <2>1. InFlight = 0
    BY NothingUnderWay
  <2>2. TreeTotal \in Int
    <3> DEFINE f == [n \in Nodes |-> LocalValue(n)]
    <3>1. \A n \in Nodes : f[n] \in Int
      BY HeldTypes
    <3>2. IsFiniteSet(Nodes)
      BY NodesFacts
    <3> HIDE DEF f
    <3>3. SumFunctionOnSet(f, Nodes) \in Int
      BY <3>1, <3>2, SumType
    <3>4. DOMAIN f = Nodes
      BY DEF f
    <3> QED BY <3>3, <3>4 DEF TreeTotal, SumFunction, f
  <2>3. InFlight + HeldSum = TreeTotal
    BY <1>2, <2>1, <2>2
  <2> QED BY <2>3 DEF ValueConserved, HeldSum
<1> QED BY <1>1, <1>2, <1>3, <1>4
        DEF SumsInv, ParentsFirst, WaitsForAnswers, ParentsWait, PrintedTotal

\* startAsync() up to its loop.
LEMMA AsyncStarts ==
    ASSUME TreeInv, DepthInv, TreeInv', DepthInv', CastInv, ~sync, StartAsync,
           UNCHANGED <<sync, calls>>
    PROVE  CastInv'
<1>1. /\ root \in Nodes /\ Nodes' = Nodes /\ calls = <<>> /\ calls' = <<>>
      /\ ~sync' /\ running' /\ unscanned' = Nodes /\ ~progress' /\ progress' = FALSE
      /\ running' = TRUE /\ received' = <<>> /\ printed' = <<>>
      /\ children' = children /\ parent' = parent /\ root' = root
      /\ \A n \in Nodes : inbox[n] = <<>>
  BY DEF CastInv, InboxInv, StartAsync, graph, tree, Nodes, TreeInv
<1>2. \A n \in Nodes : Len(children[n]) \in Nat
  BY ChildrenFacts
<1>3. /\ pending' = [n \in Nodes |-> Len(children[n])]
      /\ accumulated' = [n \in Nodes |-> 0]
      /\ inbox' = [inbox EXCEPT ![root] = Append(inbox[root], GO)]
  BY DEF StartAsync, ResetState
<1>4. Append(<<>>, GO) = <<GO>> /\ <<GO>> \in Seq(Msgs) /\ GO \in Msgs /\ <<>> \in Seq(Msgs)
  BY DEF GO, Msgs
<1>5. /\ inbox' \in [Nodes -> Seq(Msgs)] /\ inbox'[root] = <<GO>>
      /\ \A n \in Nodes \ {root} : inbox'[n] = <<>>
  BY <1>1, <1>3, <1>4 DEF CastInv, CastType
<1>6. Reached' = {}
  BY <1>1, NothingYet DEF Reached
<1>7. CastType'
  <2>1. \A n \in Nodes : pending'[n] = Len(children[n]) /\ pending'[n] <= Len(children[n])
    BY <1>2, <1>3
  <2>2. pending' \in [Nodes -> Nat] /\ accumulated' \in [Nodes -> Int]
    BY <1>2, <1>3
  <2>3. sync \in BOOLEAN /\ <<>> \in Seq(Frames) /\ <<>> \in Seq(Nodes) /\ root' # Nil
    BY NothingYet DEF CastInv, CastType, StartAsync, graph, tree
  <2>4. sync' \in BOOLEAN
    BY <2>3
  <2> QED BY <1>1, <1>5, <2>1, <2>2, <2>3, <2>4, NothingYet DEF CastType
<1>8. ValuesAreNil'
  <2>1. \A i \in DOMAIN <<GO>> : <<GO>>[i].value = 0
    BY DEF GO
  <2>2. \A n \in Nodes : \A i \in DOMAIN inbox'[n] : inbox'[n][i].value = 0
    <3>1. ASSUME NEW n \in Nodes PROVE \A i \in DOMAIN inbox'[n] : inbox'[n][i].value = 0
      BY <1>5, <2>1, NothingYet
    <3> QED BY <3>1
  <2> QED BY <1>1, <2>2, NothingYet DEF ValuesAreNil
<1>9. SumsInv'
  <2>1. (TreeInv /\ DepthInv /\ CastType /\ ValuesAreNil /\ received = <<>> /\ printed = <<>>
          => SumsInv)'
    BY SumsAtStart, PTL
  <2> QED BY <1>1, <1>7, <1>8, <2>1
<1>10. InboxInv'
  <2>1. ASSUME NEW n \in Nodes
        PROVE  /\ inbox'[n] = <<>> \/ inbox'[n] = <<GO>>
               /\ inbox'[n] # <<>> => n = root
               /\ pending'[n] = Len(children[n]) /\ accumulated'[n] = 0
    BY <1>3, <1>5
  <2> QED BY <1>1, <1>6, <2>1 DEF InboxInv
<1>11. CallsInv'
  BY <1>1, NothingYet DEF CallsInv
<1> QED BY <1>7, <1>9, <1>10, <1>11 DEF CastInv

-----------------------------------------------------------------------------
(* The scans                                                               *)

\* A node whose first message is GO has not been reached, and has no other.
LEMMA GoArrives ==
    ASSUME TreeInv, CastInv, ~sync, running, NEW n, n \in Nodes, inbox[n] # <<>>,
           Head(inbox[n]).type = "GO"
    PROVE  /\ n \in Nodes \ Reached /\ inbox[n] = <<GO>>
           /\ n = root \/ parent[n] \in Reached
           /\ pending[n] = Len(children[n]) /\ accumulated[n] = 0
<1>1. InboxInv /\ inbox[n] \in Seq(Msgs)
  BY DEF CastInv, CastType
<1>2. n \notin Reached
  <2> SUFFICES ASSUME n \in Reached PROVE FALSE
    OBVIOUS
  <2>1. Len(inbox[n]) \in Nat \ {0} /\ DOMAIN inbox[n] = 1..Len(inbox[n]) /\ Head(inbox[n]) = inbox[n][1]
    BY <1>1, EmptySeq, HeadTailProperties, LenProperties
  <2>2. 1 \in DOMAIN inbox[n]
    BY <2>1
  <2>3. Head(inbox[n]) \in ToSet(inbox[n])
    BY <2>1, <2>2 DEF ToSet
  <2>4. Head(inbox[n]).type = "BACK"
    BY <1>1, <2>3 DEF InboxInv
  <2> QED BY <2>4
<1> QED BY <1>1, <1>2 DEF InboxInv

\* What a step of a scan leaves alone.
Scanned(n) ==
    /\ running /\ running' /\ ~sync /\ ~sync' /\ calls = <<>> /\ calls' = <<>>
    /\ n \in Nodes /\ n \in unscanned /\ unscanned' = unscanned \ {n} /\ Nodes' = Nodes
    /\ UNCHANGED <<adj, root, parent, children, running, sync>>

\* A step of a scan, with the types of what it touches.
LEMMA ScanFacts ==
    ASSUME CastInv, ~sync, NEW n, ScanNode(n), UNCHANGED <<sync, calls>>
    PROVE  Scanned(n)
BY DEF CastInv, CastType, InboxInv, ScanNode, Scanned, graph, tree, Nodes

\* The types after a step of a scan.
LEMMA ScanTypes ==
    ASSUME CastType, NEW n, Scanned(n), progress' \in BOOLEAN,
           pending' \in [Nodes -> Nat], accumulated' \in [Nodes -> Int],
           \A m \in Nodes : pending'[m] <= Len(children[m]),
           inbox' \in [Nodes -> Seq(Msgs)], received' \in Seq(Nodes), IsInjective(received')
    PROVE  CastType' /\ CallsInv'
<1>1. /\ running' \in BOOLEAN /\ sync' \in BOOLEAN /\ unscanned' \subseteq Nodes'
      /\ calls' \in Seq(Frames) /\ calls' = <<>> /\ (running' => root' # Nil)
  BY DEF CastType, Scanned
<1>2. Nodes' = Nodes /\ children' = children
  BY DEF Scanned
<1>3. CastType'
  BY <1>1, <1>2 DEF CastType
<1>4. CallsInv'
  BY <1>1, NothingYet DEF CallsInv, Scanned
<1> QED BY <1>3, <1>4

\* The message reaches a node.
LEMMA GoKeeps ==
    ASSUME TreeInv, DepthInv, TreeInv', DepthInv', CastInv, NEW n, Scanned(n),
           inbox[n] # <<>>, progress' = TRUE, Go(n)
    PROVE  CastInv'
<1>1. /\ CastType /\ SumsInv /\ InboxInv /\ ParentsFirst /\ running /\ calls = <<>>
      /\ calls' = <<>> /\ n \in Nodes /\ parent' = parent /\ running' /\ ~sync'
      /\ UNCHANGED <<root, children>> /\ Nodes' = Nodes /\ ~sync
  BY DEF CastInv, SumsInv, Scanned
<1>2. /\ n \in Nodes /\ n \notin Reached /\ inbox[n] = <<GO>>
      /\ n = root \/ parent[n] \in Reached
      /\ pending[n] = Len(children[n]) /\ accumulated[n] = 0
  BY <1>1, GoArrives DEF Go
<1>3. Entered(n)
  <2>1. /\ pending' = [pending EXCEPT ![n] = Len(children[n])]
        /\ accumulated' = [accumulated EXCEPT ![n] = 0]
    <3>1. pending' = pending /\ accumulated' = accumulated
      BY DEF Go
    <3> QED BY <1>1, <1>2, <3>1 DEF CastType
  <2>2. received' = Append(received, n)
    BY DEF Go
  <2> QED BY <1>2, <2>1, <2>2 DEF Entered, Scanned
<1>4. /\ received' \in Seq(Nodes) /\ IsInjective(received') /\ Reached' = Reached \union {n}
      /\ pending' \in [Nodes -> Nat] /\ accumulated' \in [Nodes -> Int]
      /\ \A m \in Nodes : pending'[m] <= Len(children[m])
      /\ \A c \in Nodes : parent[c] = n => c \notin Reached
  BY <1>1, <1>3, EnteredFacts
<1>5. Tail(inbox[n]) = <<>> /\ Head(inbox[n]).value = 0 /\ Answers(n) = 1
  <2>1. Tail(<<GO>>) = <<>> /\ Head(<<GO>>) = GO /\ Len(<<GO>>) = 1
    OBVIOUS
  <2>2. GO.value = 0
    BY DEF GO
  <2>3. Answers(n) = Len(inbox[n])
    BY <1>1, NoCalls
  <2> QED BY <1>2, <2>1, <2>2, <2>3
<1>6. Reached \subseteq Nodes
  BY <1>1, LenProperties DEF CastType, Reached, ToSet
<1>7. pending' = pending /\ accumulated' = accumulated
  BY DEF Go
<1>8. CASE IsLeaf(n)
  <2>1. LocalValue(n) \in Int /\ Report(n, LocalValue(n))
    BY <1>1, <1>8, HeldTypes DEF Go
  <2>2. PICK v : v = LocalValue(n)
    OBVIOUS
  <2>3. Reported(n, v)
    <3>1. v \in Int /\ Report(n, v)
      BY <2>1, <2>2
    <3> QED BY <1>1, <3>1, ReportFacts
  <2>4. CastType' /\ CallsInv'
    <3>1. inbox' \in [Nodes -> Seq(Msgs)] /\ progress' \in BOOLEAN
      BY <2>3 DEF Reported
    <3> QED BY <1>1, <1>4, <3>1, ScanTypes
  <2>5. InboxInv'
    <3>1. inbox'[n] = <<>> /\ ToSet(inbox'[n]) = {}
      BY <1>5, <2>3, NothingYet DEF Reported
    <3>2. ASSUME NEW m \in Nodes \ Reached'
          PROVE  m \notin Reached /\ inbox'[m] = inbox[m]
      <4>1. m # n /\ m \notin Reached /\ ~(n # root /\ m = parent[n])
        BY <1>2, <1>4
      <4> QED BY <2>3, <4>1 DEF Reported
    <3>3. ASSUME NEW m \in Reached, m # n, NEW k \in ToSet(inbox'[m])
          PROVE  k.type = "BACK"
      <4>1. inbox'[m] = inbox[m] \/ inbox'[m] = Append(inbox[m], BACK(v))
        BY <1>6, <2>3, <3>3 DEF Reported
      <4>2. inbox[m] \in Seq(Msgs) /\ BACK(v) \in Msgs /\ BACK(v).type = "BACK"
        BY <1>1, <1>6, <2>1, <2>2 DEF CastType, BACK, Msgs
      <4>3. k \in ToSet(inbox[m]) \/ k = BACK(v)
        <5>1. PICK q, b : q = inbox[m] /\ b = BACK(v)
          OBVIOUS
        <5>2. q \in Seq(Msgs) /\ b \in Msgs
          BY <4>2, <5>1
        <5>3. ToSet(Append(q, b)) = ToSet(q) \union {b}
          BY <5>2, AppendFacts
        <5> QED BY <3>3, <4>1, <5>1, <5>3
      <4> QED BY <1>1, <4>2, <4>3 DEF InboxInv
    <3> QED BY <1>1, <1>4, <1>7, <3>1, <3>2, <3>3 DEF InboxInv
  <2>6. Still'
    <3>1. (TreeInv /\ DepthInv /\ CastType /\ InboxInv /\ CallsInv => Still)'
      BY StillHolds, PTL
    <3> QED BY <2>4, <2>5, <3>1
  <2>7. SumsInv'
    <3>1. Answers(n)' = 0
      BY <1>5, <2>3 DEF Reported
    <3>2. \A m \in Reached : Answers(m)' = Answers(m) + IF n # root /\ m = parent[n] THEN 1 ELSE 0
      BY <1>2, <1>6, <2>3 DEF Reported
    <3>3. InFlight \in Int
      BY <2>3 DEF Reported
    <3>4. /\ n = root => printed' = Append(printed, LocalValue(n)) /\ InFlight' = InFlight
          /\ n # root => printed' = printed /\ InFlight' = InFlight + LocalValue(n)
      BY <1>5, <2>1, <2>2, <2>3, <3>3 DEF Reported
    <3> QED BY <1>1, <1>3, <1>8, <2>4, <2>6, <3>1, <3>2, <3>3, <3>4, EnteredLeaf
  <2> QED BY <2>4, <2>5, <2>7 DEF CastInv
<1>9. CASE ~IsLeaf(n)
  <2>1. PICK to : to = ToSet(children[n])
    OBVIOUS
  <2>2. to = {c \in Nodes : parent[c] = n}
    BY <1>1, <2>1 DEF TreeInv
  <2>3. Passed(n, to, GO)
    <3>1. to \subseteq Nodes /\ n \notin to /\ GO \in Msgs
      BY <1>1, <2>2, NodesFacts DEF GO, Msgs
    <3>2. inbox' = Sent(n, to, GO)
      BY <1>9, <2>1 DEF Go
    <3> QED BY <1>1, <3>1, <3>2, PassFacts
  <2>4. CastType' /\ CallsInv'
    <3>1. inbox' \in [Nodes -> Seq(Msgs)] /\ progress' \in BOOLEAN
      BY <2>3 DEF Passed
    <3> QED BY <1>1, <1>4, <3>1, ScanTypes
  <2>5. InboxInv'
    <3>1. inbox'[n] = <<>> /\ ToSet(inbox'[n]) = {}
      BY <1>5, <2>3, NothingYet DEF Passed
    <3>2. ASSUME NEW m \in Nodes \ Reached'
          PROVE  /\ inbox'[m] = <<>> \/ inbox'[m] = <<GO>>
                 /\ inbox'[m] # <<>> /\ m # root => parent[m] \in Reached'
      <4>1. m # n /\ m \notin Reached /\ m \in Nodes
        BY <1>4
      <4>2. CASE m \in to
        <5>1. m # root /\ parent[m] = n
          BY <1>1, <2>2, <4>1, <4>2, NodesFacts DEF TreeInv
        <5>2. inbox[m] = <<>>
          BY <1>1, <1>2, <4>1, <5>1 DEF InboxInv
        <5>3. inbox'[m] = Append(<<>>, GO) /\ Append(<<>>, GO) = <<GO>>
          BY <2>3, <4>2, <5>2 DEF Passed
        <5> QED BY <1>4, <5>1, <5>3
      <4>3. CASE m \notin to
        <5>1. inbox'[m] = inbox[m]
          BY <2>3, <4>1, <4>3 DEF Passed
        <5> QED BY <1>1, <1>4, <4>1, <5>1 DEF InboxInv
      <4> QED BY <4>2, <4>3
    <3>3. ASSUME NEW m \in Reached, m # n PROVE inbox'[m] = inbox[m]
      <4>1. m \in Nodes /\ m \notin to
        BY <1>4, <1>6, <2>2
      <4> QED BY <2>3, <3>3, <4>1 DEF Passed
    <3> QED BY <1>1, <1>4, <1>7, <3>1, <3>2, <3>3 DEF InboxInv
  <2>6. SumsInv'
    <3>1. Answers(n)' = 0
      BY <1>5, <2>3 DEF Passed
    <3>2. \A m \in Reached : Answers(m)' = Answers(m)
      <4>1. \A m \in Reached : m \in Nodes \ (to \union {n})
        BY <1>2, <1>4, <1>6, <2>2
      <4> QED BY <2>3, <4>1 DEF Passed
    <3>3. InFlight \in Int /\ InFlight' = InFlight
      <4>1. GO.value = 0
        BY DEF GO
      <4> QED BY <1>5, <2>3, <4>1 DEF Passed
    <3>4. printed' = printed
      BY <1>9 DEF Go
    <3> QED BY <1>1, <1>3, <1>9, <3>1, <3>2, <3>3, <3>4, EnteredInner
  <2> QED BY <2>4, <2>5, <2>6 DEF CastInv
<1> QED BY <1>8, <1>9

\* An answer reaches a node.
LEMMA BackKeeps ==
    ASSUME TreeInv, DepthInv, TreeInv', DepthInv', CastInv, NEW n, Scanned(n),
           inbox[n] # <<>>, progress' = TRUE, Back(n)
    PROVE  CastInv'
<1>1. /\ CastType /\ SumsInv /\ InboxInv /\ WaitsForAnswers /\ running /\ calls = <<>>
      /\ calls' = <<>> /\ n \in Nodes /\ parent' = parent /\ running' /\ ~sync'
      /\ UNCHANGED <<root, children>> /\ Nodes' = Nodes /\ ~sync
  BY DEF CastInv, SumsInv, Scanned
<1>2. Reached \subseteq Nodes /\ Reached' = Reached /\ received' = received
  BY <1>1, LenProperties DEF CastType, Reached, ToSet, Back
<1>3. /\ inbox[n] \in Seq(Msgs) /\ Head(inbox[n]) \in Msgs /\ Tail(inbox[n]) \in Seq(Msgs)
      /\ Len(inbox[n]) \in Nat \ {0} /\ Len(Tail(inbox[n])) = Len(inbox[n]) - 1
      /\ ToSet(Tail(inbox[n])) \subseteq ToSet(inbox[n])
  <2>1. inbox[n] \in Seq(Msgs)
    BY <1>1 DEF CastType
  <2>2. PICK q : q = inbox[n]
    OBVIOUS
  <2>3. /\ Head(q) \in Msgs /\ Tail(q) \in Seq(Msgs)
        /\ Len(q) \in Nat \ {0} /\ Len(Tail(q)) = Len(q) - 1
        /\ \A i \in 1..Len(Tail(q)) : Tail(q)[i] = q[i + 1]
    BY <2>1, <2>2, EmptySeq, HeadTailProperties
  <2>4. DOMAIN q = 1..Len(q) /\ DOMAIN Tail(q) = 1..Len(Tail(q))
    BY <2>1, <2>2, <2>3, LenProperties
  <2>5. ToSet(Tail(q)) \subseteq ToSet(q)
    <3>1. ASSUME NEW i \in 1..Len(Tail(q)) PROVE Tail(q)[i] \in ToSet(q)
      <4>1. i + 1 \in DOMAIN q
        BY <2>3, <2>4
      <4> QED BY <2>3, <4>1 DEF ToSet
    <3> QED BY <2>4, <3>1 DEF ToSet
  <2> QED BY <2>1, <2>2, <2>3, <2>5
<1>4. n \in Reached
  <2>1. inbox[n] # <<GO>>
    <3>1. Head(<<GO>>).type = "GO"
      BY DEF GO
    <3> QED BY <3>1 DEF Back
  <2> QED BY <1>1, <2>1 DEF InboxInv
<1>5. PICK x : x = Head(inbox[n]).value
  OBVIOUS
<1>6. Answers(n) = Len(inbox[n])
  BY <1>1, NoCalls
<1>7. Answered(n, x)
  <2>1. x \in Int
    BY <1>3, <1>5 DEF Msgs
  <2>2. /\ pending' = [pending EXCEPT ![n] = pending[n] - 1]
        /\ accumulated' = [accumulated EXCEPT ![n] = accumulated[n] + x]
    BY <1>5 DEF Back
  <2>3. Answers(n) > 0
    BY <1>3, <1>6
  <2> QED BY <1>2, <1>4, <2>1, <2>2, <2>3 DEF Answered, Scanned
<1>8. /\ pending' \in [Nodes -> Nat] /\ accumulated' \in [Nodes -> Int]
      /\ \A m \in Nodes : pending'[m] <= Len(children[m])
      /\ \A m \in Nodes \ {n} : pending'[m] = pending[m]
      /\ pending[n] = 1 => Waiting(n) = {} /\ Answers(n) = 1
      /\ pending[n] \in Nat
  <2>1. pending[n] \in Nat
    BY <1>1 DEF CastType
  <2> QED BY <1>1, <1>7, <2>1, AnsweredFacts
<1>9. /\ \A m \in Nodes \ {n} : accumulated'[m] = accumulated[m]
      /\ accumulated[n] + x \in Int
  <2>1. x \in Int
    BY <1>3, <1>5 DEF Msgs
  <2> QED BY <1>1, <2>1 DEF CastType, Back
<1>10. \A k \in ToSet(Tail(inbox[n])) : k.type = "BACK"
  BY <1>1, <1>3, <1>4 DEF InboxInv
<1>11. received' \in Seq(Nodes) /\ IsInjective(received')
  BY <1>1, <1>2 DEF CastType
<1>12. CASE pending[n] = 1
  <2>1. PICK v : v = Total(n, accumulated[n] + x)
    OBVIOUS
  <2>2. v \in Int /\ Report(n, v)
    <3>1. LocalValue(n) \in Int
      BY <1>1, HeldTypes
    <3>2. v \in Int
      BY <1>9, <2>1, <3>1 DEF Total
    <3>3. Report(n, v)
      BY <1>5, <1>12, <2>1 DEF Back, AllAnswered
    <3> QED BY <3>2, <3>3
  <2>3. Reported(n, v)
    BY <1>1, <2>2, ReportFacts
  <2>4. CastType' /\ CallsInv'
    <3>1. inbox' \in [Nodes -> Seq(Msgs)] /\ progress' \in BOOLEAN
      BY <2>3 DEF Reported
    <3> QED BY <1>1, <1>8, <1>11, <3>1, ScanTypes
  <2>5. InboxInv'
    <3>1. inbox'[n] = Tail(inbox[n])
      BY <2>3 DEF Reported
    <3>2. ASSUME NEW m \in Nodes \ Reached' PROVE inbox'[m] = inbox[m] /\ m # n
      <4>1. m # n /\ m \notin Reached /\ m \in Nodes
        BY <1>2, <1>4
      <4>2. n # root => parent[n] \in Reached
        BY <1>1, <1>4, ParentReached DEF SumsInv
      <4>3. ~(n # root /\ m = parent[n])
        BY <4>1, <4>2
      <4> QED BY <2>3, <4>1, <4>3 DEF Reported
    <3>3. ASSUME NEW m \in Reached, m # n, NEW k \in ToSet(inbox'[m])
          PROVE  k.type = "BACK"
      <4>1. inbox'[m] = inbox[m] \/ inbox'[m] = Append(inbox[m], BACK(v))
        BY <1>2, <2>3, <3>3 DEF Reported
      <4>2. inbox[m] \in Seq(Msgs) /\ BACK(v) \in Msgs /\ BACK(v).type = "BACK"
        BY <1>1, <1>2, <2>2 DEF CastType, BACK, Msgs
      <4>3. k \in ToSet(inbox[m]) \/ k = BACK(v)
        <5>1. PICK q, b : q = inbox[m] /\ b = BACK(v)
          OBVIOUS
        <5>2. q \in Seq(Msgs) /\ b \in Msgs
          BY <4>2, <5>1
        <5>3. ToSet(Append(q, b)) = ToSet(q) \union {b}
          BY <5>2, AppendFacts
        <5> QED BY <3>3, <4>1, <5>1, <5>3
      <4> QED BY <1>1, <4>2, <4>3 DEF InboxInv
    <3> QED BY <1>1, <1>2, <1>8, <1>9, <1>10, <3>1, <3>2, <3>3 DEF InboxInv
  <2>6. Still'
    <3>1. (TreeInv /\ DepthInv /\ CastType /\ InboxInv /\ CallsInv => Still)'
      BY StillHolds, PTL
    <3> QED BY <2>4, <2>5, <3>1
  <2>7. SumsInv'
    <3>1. Answers(n)' = 0
      BY <1>8, <1>12, <2>3 DEF Reported
    <3>2. \A m \in Reached \ {n} :
            Answers(m)' = Answers(m) + IF n # root /\ m = parent[n] THEN 1 ELSE 0
      BY <1>2, <2>3 DEF Reported
    <3>3. InFlight \in Int
      BY <2>3 DEF Reported
    <3>4. /\ n = root => printed' = Append(printed, v) /\ InFlight' = InFlight - x
          /\ n # root => printed' = printed /\ InFlight' = InFlight - x + v
      BY <1>5, <2>3 DEF Reported
    <3> QED BY <1>1, <1>7, <1>12, <2>1, <2>4, <2>6, <3>1, <3>2, <3>3, <3>4, AnsweredLast
  <2> QED BY <2>4, <2>5, <2>7 DEF CastInv
<1>13. CASE pending[n] # 1
  <2>1. inbox' = Sent(n, {}, GO) /\ printed' = printed
    <3>1. pending[n] - 1 # 0
      BY <1>8, <1>13
    <3> QED BY <3>1 DEF Back, AllAnswered
  <2>2. PICK to : to = {}
    OBVIOUS
  <2>3. Passed(n, to, GO)
    <3>1. to \subseteq Nodes /\ n \notin to /\ GO \in Msgs /\ inbox' = Sent(n, to, GO)
      BY <2>1, <2>2 DEF GO, Msgs
    <3> QED BY <1>1, <3>1, PassFacts
  <2>4. /\ inbox' \in [Nodes -> Seq(Msgs)] /\ inbox'[n] = Tail(inbox[n])
        /\ Answers(n)' = Answers(n) - 1
        /\ \A m \in Nodes \ {n} : inbox'[m] = inbox[m] /\ Answers(m)' = Answers(m)
        /\ InFlight \in Int /\ InFlight' = InFlight - x
    BY <1>5, <2>2, <2>3 DEF Passed
  <2>5. CastType' /\ CallsInv'
    <3>1. inbox' \in [Nodes -> Seq(Msgs)] /\ progress' \in BOOLEAN
      BY <2>4
    <3> QED BY <1>1, <1>8, <1>11, <3>1, ScanTypes
  <2>6. InboxInv'
    BY <1>1, <1>2, <1>4, <1>8, <1>9, <1>10, <2>4 DEF InboxInv
  <2>7. SumsInv'
    <3>1. \A m \in Reached \ {n} : Answers(m)' = Answers(m)
      BY <1>2, <2>4
    <3> QED BY <1>1, <1>7, <1>13, <2>1, <2>4, <3>1, AnsweredMore
  <2> QED BY <2>5, <2>6, <2>7 DEF CastInv
<1> QED BY <1>12, <1>13

\* A step that changes no counter, and nothing that is under way.
LEMMA SumsStay ==
    ASSUME TreeInv, CastType, SumsInv, UNCHANGED <<root, parent, children, pending, accumulated>>,
           UNCHANGED <<received, printed>>, running' => running, InFlight' = InFlight,
           \A n \in Nodes : Answers(n)' = Answers(n)
    PROVE  SumsInv'
<1>1. /\ Nodes' = Nodes /\ Reached' = Reached /\ (\A n : IsRoot(n)' = IsRoot(n))
      /\ \A n : IsLeaf(n)' = IsLeaf(n)
  BY DEF Nodes, Reached, IsRoot, IsLeaf
<1>2. Reached \subseteq Nodes
  BY LenProperties DEF CastType, Reached, ToSet
<1>3. Unreported' = Unreported
  BY <1>1 DEF Unreported
<1>4. \A n : Waiting(n)' = Waiting(n) /\ Held(n)' = Held(n)
  BY <1>1, <1>3 DEF Waiting, Held, LocalValue
<1>5. TreeTotal' = TreeTotal /\ HeldSum' = HeldSum
  BY <1>1, <1>3, <1>4 DEF TreeTotal, LocalValue, HeldSum
<1>6. ParentsFirst'
  BY <1>1 DEF SumsInv, ParentsFirst, IsRoot
<1>7. WaitsForAnswers'
  BY <1>1, <1>2, <1>4 DEF SumsInv, WaitsForAnswers
<1>8. ParentsWait' /\ PrintedTotal'
  BY <1>3, <1>5 DEF SumsInv, ParentsWait, PrintedTotal
<1>9. ValueConserved'
  BY <1>5 DEF SumsInv, ValueConserved, HeldSum
<1> QED BY <1>6, <1>7, <1>8, <1>9 DEF SumsInv

\* A step of a scan that takes no message.
LEMMA ScanOnly ==
    ASSUME TreeInv, CastInv, ~sync, running,
           UNCHANGED <<root, parent, children, pending, accumulated, inbox, received, printed>>,
           UNCHANGED <<sync, calls>>, running' \in BOOLEAN, progress' \in BOOLEAN,
           unscanned' \subseteq Nodes,
           ~running' => unscanned' = {} /\ \A n \in Nodes : inbox[n] = <<>>,
           running' /\ ~progress' => \A n \in Nodes \ unscanned' : inbox[n] = <<>>
    PROVE  CastInv'
<1>1. CastType /\ SumsInv /\ InboxInv /\ CallsInv /\ calls = <<>>
  BY DEF CastInv, InboxInv
<1>2. Nodes' = Nodes /\ Reached' = Reached
  BY DEF Nodes, Reached
<1>3. CastType'
  BY <1>1, <1>2 DEF CastType
<1>4. \A n \in Nodes : Answers(n)' = Answers(n)
  BY DEF Answers, CallsBack, Top
<1>5. InFlight' = InFlight
  BY <1>2 DEF InFlight, Values
<1>6. SumsInv'
  BY <1>1, <1>4, <1>5, SumsStay
<1>7. InboxInv'
  BY <1>1, <1>2 DEF InboxInv
<1>8. CallsInv'
  BY <1>1 DEF CallsInv
<1> QED BY <1>3, <1>6, <1>7, <1>8 DEF CastInv

\* The scheduler's loop.
LEMMA SchedulerKeeps ==
    ASSUME TreeInv, DepthInv, TreeInv', DepthInv', CastInv, ~sync, Scheduler,
           UNCHANGED <<sync, calls>>
    PROVE  CastInv'
<1>1. InboxInv /\ CastType
  BY DEF CastInv
<1>2. CASE ScanEnds
  <2>1. /\ running /\ unscanned = {} /\ running' = progress /\ progress' = FALSE
        /\ unscanned' = (IF progress THEN Nodes ELSE {})
        /\ UNCHANGED <<root, parent, children, pending, accumulated, inbox, received, printed>>
    BY <1>2 DEF ScanEnds, Again, tree
  <2>2. running' \in BOOLEAN /\ progress' \in BOOLEAN /\ unscanned' \subseteq Nodes
    BY <1>1, <2>1 DEF CastType
  <2>3. ~running' => unscanned' = {} /\ \A n \in Nodes : inbox[n] = <<>>
    BY <1>1, <2>1 DEF InboxInv
  <2>4. running' /\ ~progress' => \A n \in Nodes \ unscanned' : inbox[n] = <<>>
    BY <2>1
  <2> QED BY <2>1, <2>2, <2>3, <2>4, ScanOnly
<1>3. ASSUME NEW n \in Vertices, ScanNode(n) PROVE CastInv'
  <2>1. Scanned(n)
    BY <1>3, ScanFacts
  <2>2. CASE inbox[n] # <<>> /\ progress' = TRUE /\ Go(n)
    BY <2>1, <2>2, GoKeeps
  <2>3. CASE inbox[n] # <<>> /\ progress' = TRUE /\ Back(n)
    BY <2>1, <2>3, BackKeeps
  <2>4. CASE inbox[n] = <<>> /\ UNCHANGED <<progress, pending, accumulated, inbox, received, printed>>
    <3>1. /\ running /\ running' = running /\ unscanned' = unscanned \ {n}
          /\ UNCHANGED <<root, parent, children>> /\ progress' = progress
      BY <2>1, <2>4 DEF Scanned
    <3>2. UNCHANGED <<root, parent, children, pending, accumulated, inbox, received, printed>>
      BY <2>4, <3>1
    <3>3. running' \in BOOLEAN /\ progress' \in BOOLEAN /\ unscanned' \subseteq Nodes
      BY <1>1, <3>1 DEF CastType
    <3>4. running' /\ ~progress' => \A m \in Nodes \ unscanned' : inbox[m] = <<>>
      BY <1>1, <2>4, <3>1 DEF InboxInv
    <3> QED BY <3>1, <3>2, <3>3, <3>4, ScanOnly
  <2> QED BY <1>3, <2>2, <2>3, <2>4 DEF ScanNode
<1> QED BY <1>2, <1>3 DEF Scheduler

-----------------------------------------------------------------------------
(* The calls                                                               *)

\* The stack with a call on top.
LEMMA PushFacts ==
    ASSUME NEW S, NEW s, s \in Seq(S), NEW e, e \in S
    PROVE  /\ Append(s, e) \in Seq(S) /\ Append(s, e) # <<>>
           /\ Front(Append(s, e)) = s /\ Last(Append(s, e)) = e
<1>1. PICK t, n : t = Append(s, e) /\ n = Len(s)
  OBVIOUS
<1>2. /\ n \in Nat /\ t \in Seq(S) /\ Len(t) = n + 1 /\ t[n + 1] = e
      /\ \A i \in 1..n : t[i] = s[i]
  BY <1>1, LenProperties, AppendProperties
<1>3. t # <<>>
  BY <1>2, EmptySeq
<1>4. /\ Len(Front(t)) = n /\ Front(t) \in Seq(S) /\ Last(t) = e
      /\ \A i \in DOMAIN Front(t) : Front(t)[i] = t[i]
  <2>1. /\ Len(Front(t)) = Len(t) - 1 /\ Front(t) \in Seq(S) /\ Last(t) = t[Len(t)]
        /\ \A i \in DOMAIN Front(t) : Front(t)[i] = t[i]
    BY <1>2, <1>3, TopFacts
  <2> QED BY <1>2, <2>1
<1>5. DOMAIN Front(t) = 1..n /\ DOMAIN s = 1..n
  BY <1>1, <1>4, LenProperties
<1>6. Front(t) = s
  <2>1. PICK f : f = Front(t)
    OBVIOUS
  <2>2. f = [i \in DOMAIN f |-> f[i]] /\ s = [i \in DOMAIN s |-> s[i]]
    BY <1>4, <2>1
  <2>3. \A i \in 1..n : f[i] = s[i]
    BY <1>2, <1>4, <1>5, <2>1
  <2> QED BY <1>5, <2>1, <2>2, <2>3
<1> QED BY <1>1, <1>2, <1>3, <1>4, <1>6

\* What a step of the calls leaves alone.
CallStep ==
    /\ running /\ sync /\ sync' = sync /\ calls # <<>> /\ running' = (calls' # <<>>)
    /\ Nodes' = Nodes
    /\ UNCHANGED <<adj, root, parent, children, inbox, unscanned, progress>>

\* A step of a call, with the types of what it touches.
LEMMA CallStepFacts == CastInv /\ Called => CallStep
BY DEF CastInv, CallsInv, Called, CallStep, graph, tree, Nodes

\* The stack: calls that wait, B, and the one on top, t.
CallShape(B, t) ==
    /\ B = Below /\ t = Top /\ B \in Seq(Frames) /\ t \in Frames /\ calls = Append(B, t)
    /\ \A i \in DOMAIN B : i \in DOMAIN calls /\ i # Len(calls) /\ B[i] = calls[i]
    /\ DOMAIN calls = DOMAIN B \union {Len(calls)} /\ calls[Len(calls)] = t
    /\ InFlight \in Int /\ InFlight = BoxSum(inbox) + Values(B) + t.value
    /\ BoxSum(inbox) \in Int /\ Values(B) \in Int /\ t.value \in Int
    /\ \A n \in Nodes : Answers(n) = IF t.of = "back" /\ t.node = n THEN 1 ELSE 0
    /\ \A n \in Nodes : inbox[n] = <<>>
    /\ Settled(B, Reached, Reached)

\* The stack is the calls that wait and the one on top.
LEMMA ShapeHolds ==
    ASSUME TreeInv, DepthInv, CastInv, sync, calls # <<>>, NEW B, B = Below, NEW t, t = Top
    PROVE  CallShape(B, t)
<1>1. calls \in Seq(Frames) /\ CastType
  BY DEF CastInv, CastType
<1>2. /\ B \in Seq(Frames) /\ t \in Frames /\ calls = Append(B, t)
      /\ \A i \in DOMAIN B : i \in DOMAIN calls /\ i # Len(calls) /\ B[i] = calls[i]
      /\ DOMAIN calls = DOMAIN B \union {Len(calls)} /\ calls[Len(calls)] = t
  BY <1>1, TopFacts DEF Below, Top
<1>3. /\ InFlight \in Int /\ InFlight = BoxSum(inbox) + Values(B) + t.value
      /\ BoxSum(inbox) \in Int /\ Values(B) \in Int /\ t.value \in Int
  <2>1. InFlight = BoxSum(inbox) + Values(calls) /\ BoxSum(inbox) \in Int /\ InFlight \in Int
    BY <1>1, InFlightType
  <2>2. \A f \in Frames : f.value \in Int
    BY DEF Frames
  <2>3. Values(B) \in Int /\ Values(calls) = Values(B) + t.value
    BY <1>2, <2>2, ValuesFacts
  <2> QED BY <1>2, <2>1, <2>2, <2>3
<1>4. \A n \in Nodes : inbox[n] = <<>>
  BY DEF CastInv, InboxInv
<1>5. ASSUME NEW n \in Nodes
      PROVE  Answers(n) = IF t.of = "back" /\ t.node = n THEN 1 ELSE 0
  <2>1. Len(inbox[n]) = 0
    BY <1>4
  <2>2. CallsBack(n) <=> t.of = "back" /\ t.node = n
    BY DEF CallsBack
  <2>3. CallsBack(n) => Answers(n) = 0 + 1
    BY <2>1, Zenon DEF Answers
  <2>4. ~CallsBack(n) => Answers(n) = 0 + 0
    BY <2>1, Zenon DEF Answers
  <2> QED BY <2>2, <2>3, <2>4
<1>6. Settled(B, Reached, Reached)
  <2>1. CASE Answering
    BY <2>1 DEF Answering
  <2>2. CASE Entering
    <3>1. Settled(B, Reached, Reached \union {Top.node})
      BY <2>2 DEF Entering
    <3> QED BY <3>1 DEF Settled
  <2>3. CASE Settled(calls, Reached, Reached)
    BY <1>2, <2>3 DEF Settled
  <2> QED BY <2>1, <2>2, <2>3 DEF CastInv, CallsInv
<1> QED BY <1>2, <1>3, <1>4, <1>5, <1>6 DEF CallShape

\* The call on top returns.
LEMMA ReturnFacts ==
    ASSUME TreeInv, CastInv, CallStep, NEW B, NEW t, CallShape(B, t), calls' = B
    PROVE  /\ InFlight' = InFlight - t.value
           /\ \A n \in Nodes : Answers(n)' = 0
<1>1. InFlight' = InFlight - t.value
  <2>1. InFlight' = SumFunctionOnSet([n \in Nodes |-> Values(inbox[n])], Nodes) + Values(B)
    BY DEF InFlight, SumFunction, Values, CallStep
  <2>2. InFlight' = BoxSum(inbox) + Values(B)
    BY <2>1 DEF BoxSum
  <2> QED BY <2>2 DEF CallShape
<1>2. ASSUME NEW n \in Nodes PROVE Answers(n)' = 0
  <2>1. inbox'[n] = <<>>
    BY DEF CallShape, CallStep
  <2>2. ~CallsBack(n)'
    <3> SUFFICES ASSUME B # <<>> PROVE Last(B).of # "back"
      BY DEF CallsBack, Top
    <3>1. B \in Seq(Frames)
      BY DEF CallShape
    <3>2. Last(B) = B[Len(B)] /\ Len(B) \in DOMAIN B
      <4>1. Last(B) = B[Len(B)] /\ Len(B) \in Nat \ {0}
        BY <3>1, TopFacts
      <4>2. Len(B) \in 1..Len(B) /\ DOMAIN B = 1..Len(B)
        BY <3>1, <4>1, LenProperties
      <4> QED BY <4>1, <4>2
    <3> QED BY <3>2 DEF CallShape, Settled
  <2>3. Answers(n)' = Len(inbox'[n]) + 0
    BY <2>2, Zenon DEF Answers
  <2> QED BY <2>1, <2>3
<1> QED BY <1>1, <1>2

\* Another call is on top.
LEMMA StackFacts ==
    ASSUME TreeInv, CastInv, CallStep, NEW B, NEW t, CallShape(B, t),
           NEW C, C \in Seq(Frames), NEW f, f \in Frames, calls' = Append(C, f)
    PROVE  /\ InFlight' = BoxSum(inbox) + Values(C) + f.value
           /\ \A n \in Nodes : Answers(n)' = IF f.of = "back" /\ f.node = n THEN 1 ELSE 0
           /\ calls' \in Seq(Frames) /\ calls' # <<>> /\ Below' = C /\ Top' = f
<1>1. \A g \in Frames : g.value \in Int
  BY DEF Frames
<1>2. calls' \in Seq(Frames) /\ calls' # <<>> /\ Below' = C /\ Top' = f
  BY PushFacts DEF Below, Top
<1>3. InFlight' = BoxSum(inbox) + Values(C) + f.value
  <2>1. InFlight' = SumFunctionOnSet([n \in Nodes |-> Values(inbox[n])], Nodes) + Values(calls')
    BY DEF InFlight, SumFunction, Values, CallStep
  <2>2. Values(calls') = Values(C) + f.value /\ f.value \in Int /\ Values(C) \in Int
    BY <1>1, ValuesFacts
  <2>3. InFlight' = BoxSum(inbox) + (Values(C) + f.value)
    BY <2>1, <2>2 DEF BoxSum
  <2>4. BoxSum(inbox) \in Int
    BY DEF CallShape
  <2> QED BY <2>2, <2>3, <2>4
<1>4. ASSUME NEW n \in Nodes
      PROVE  Answers(n)' = IF f.of = "back" /\ f.node = n THEN 1 ELSE 0
  <2>1. Len(inbox'[n]) = 0
    BY DEF CallShape, CallStep
  <2>2. CallsBack(n)' <=> f.of = "back" /\ f.node = n
    BY <1>2 DEF CallsBack
  <2>3. CallsBack(n)' => Answers(n)' = 0 + 1
    BY <2>1, Zenon DEF Answers
  <2>4. ~CallsBack(n)' => Answers(n)' = 0 + 0
    BY <2>1, Zenon DEF Answers
  <2> QED BY <2>2, <2>3, <2>4
<1> QED BY <1>2, <1>3, <1>4

\* Another call takes the place of the one on top.
LEMMA CallFacts ==
    ASSUME TreeInv, CastInv, CallStep, NEW B, NEW t, CallShape(B, t),
           NEW f, f \in Frames, calls' = Append(B, f)
    PROVE  /\ InFlight' = InFlight - t.value + f.value
           /\ \A n \in Nodes : Answers(n)' = IF f.of = "back" /\ f.node = n THEN 1 ELSE 0
           /\ calls' \in Seq(Frames) /\ calls' # <<>> /\ Below' = B /\ Top' = f
<1>1. B \in Seq(Frames) /\ f.value \in Int
  BY DEF CallShape, Frames
<1>2. /\ InFlight' = BoxSum(inbox) + Values(B) + f.value
      /\ \A n \in Nodes : Answers(n)' = IF f.of = "back" /\ f.node = n THEN 1 ELSE 0
      /\ calls' \in Seq(Frames) /\ calls' # <<>> /\ Below' = B /\ Top' = f
  BY <1>1, StackFacts
<1>3. InFlight' = InFlight - t.value + f.value
  BY <1>1, <1>2 DEF CallShape
<1> QED BY <1>2, <1>3

\* The types after a step of the calls.
LEMMA CallTypes ==
    ASSUME TreeInv, CastInv, CallStep, calls' \in Seq(Frames),
           pending' \in [Nodes -> Nat], accumulated' \in [Nodes -> Int],
           \A m \in Nodes : pending'[m] <= Len(children[m]),
           received' \in Seq(Nodes), IsInjective(received')
    PROVE  CastType' /\ InboxInv'
<1>1. /\ running' \in BOOLEAN /\ sync' \in BOOLEAN /\ progress' \in BOOLEAN
      /\ root' # Nil /\ unscanned' \subseteq Nodes' /\ inbox' \in [Nodes -> Seq(Msgs)]
  BY DEF CastInv, CastType, CallStep
<1>2. Nodes' = Nodes /\ children' = children /\ sync'
  BY DEF CallStep
<1>3. CastType'
  BY <1>1, <1>2 DEF CastType
<1>4. unscanned' = {} /\ \A n \in Nodes : inbox'[n] = <<>> /\ ToSet(inbox'[n]) = {}
  BY NothingYet DEF CastInv, InboxInv, CallStep
<1>5. Reached' \subseteq Nodes
  BY LenProperties DEF Reached, ToSet
<1>6. InboxInv'
  BY <1>2, <1>4, <1>5 DEF InboxInv
<1> QED BY <1>3, <1>6

\* A sum is handed on in a call, or printed: what is under way, and the stack.
HandedOn(n, total, t) ==
    /\ calls' \in Seq(Frames) /\ CallsInv' /\ InFlight \in Int
    /\ \A m \in Nodes : Answers(m)' = 0 + IF n # root /\ m = parent[n] THEN 1 ELSE 0
    /\ n = root => printed' = Append(printed, total) /\ InFlight' = InFlight - t.value
    /\ n # root => printed' = printed /\ InFlight' = InFlight - t.value + total

\* What a return does to the call below.
LEMMA HandOnFacts ==
    ASSUME TreeInv, CastInv, CallStep, NEW B, NEW t, CallShape(B, t),
           NEW n, n \in Nodes, NEW total, total \in Int, HandOn(n, total),
           Settled(B, Reached', Reached'), n # root => parent[n] \in Reached'
    PROVE  HandedOn(n, total, t)
<1>1. /\ (IsRoot(n) <=> n = root) /\ (n # root => parent[n] \in Nodes)
      /\ B \in Seq(Frames) /\ B = Below /\ InFlight \in Int /\ sync' /\ children' = children
      /\ running' = (calls' # <<>>) /\ Nodes \subseteq Vertices
  BY DEF TreeInv, IsRoot, CallShape, CallStep
<1>2. CASE n = root
  <2>1. calls' = B /\ printed' = Append(printed, total)
    BY <1>1, <1>2 DEF HandOn, Returns
  <2>2. InFlight' = InFlight - t.value /\ \A m \in Nodes : Answers(m)' = 0
    BY <2>1, ReturnFacts
  <2>3. CallsInv'
    <3>1. Settled(calls, Reached, Reached)'
      BY <1>1, <2>1 DEF Settled
    <3> QED BY <1>1, <3>1 DEF CallsInv
  <2> QED BY <1>1, <1>2, <2>1, <2>2, <2>3 DEF HandedOn
<1>3. CASE n # root
  <2>1. PICK f : f = BackCall(parent[n], total)
    OBVIOUS
  <2>2. calls' = Append(B, f) /\ printed' = printed
    BY <1>1, <1>3, <2>1 DEF HandOn
  <2>3. f \in Frames /\ f.of = "back" /\ f.node = parent[n] /\ f.value = total
    BY <1>1, <1>3, <2>1 DEF BackCall, Frames
  <2>4. /\ InFlight' = InFlight - t.value + f.value
        /\ \A m \in Nodes : Answers(m)' = IF f.of = "back" /\ f.node = m THEN 1 ELSE 0
        /\ calls' \in Seq(Frames) /\ calls' # <<>> /\ Below' = B /\ Top' = f
    BY <2>2, <2>3, CallFacts
  <2>5. CallsInv'
    <3>1. Settled(Below, Reached, Reached)'
      BY <1>1, <2>4 DEF Settled
    <3>2. Answering'
      BY <1>3, <2>3, <2>4, <3>1 DEF Answering
    <3> QED BY <1>1, <2>4, <3>2 DEF CallsInv
  <2> QED BY <1>1, <1>3, <2>2, <2>3, <2>4, <2>5 DEF HandedOn
<1> QED BY <1>2, <1>3

\* One more call in its loop.
LEMMA SettledPush ==
    ASSUME NEW B, B \in Seq(Frames), NEW f, f \in Frames, NEW R, NEW E, Settled(B, R, E),
           f.of = "start", f.next > 0, f.value = 0, f.node \in R,
           \A j \in DOMAIN children[f.node] : j >= f.next => children[f.node][j] \notin E,
           \A k \in DOMAIN B : B[k].node # f.node, NEW s, s = Append(B, f)
    PROVE  Settled(s, R, E)
<1>1. /\ DOMAIN s = DOMAIN B \union {Len(s)} /\ s[Len(s)] = f
      /\ \A i \in DOMAIN B : i # Len(s) /\ B[i] = s[i]
  <2>1. s \in Seq(Frames) /\ s # <<>> /\ Front(s) = B /\ Last(s) = f
    BY PushFacts
  <2> QED BY <2>1, TopFacts
<1>2. ASSUME NEW i \in DOMAIN s
      PROVE  /\ s[i].of = "start" /\ s[i].next > 0 /\ s[i].value = 0 /\ s[i].node \in R
             /\ \A j \in DOMAIN children[s[i].node] :
                  j >= s[i].next => children[s[i].node][j] \notin E
             /\ \A k \in DOMAIN s : s[k].node = s[i].node => k = i
  <2>1. CASE i = Len(s)
    <3>1. s[i] = f
      BY <1>1, <2>1
    <3>2. ASSUME NEW k \in DOMAIN s, s[k].node = s[i].node PROVE k = i
      <4>1. k \notin DOMAIN B
        BY <1>1, <3>1, <3>2
      <4> QED BY <1>1, <2>1, <4>1
    <3> QED BY <3>1, <3>2
  <2>2. CASE i # Len(s)
    <3>1. i \in DOMAIN B /\ s[i] = B[i]
      BY <1>1, <2>2
    <3>2. s[Len(s)].node # s[i].node
      BY <1>1, <3>1
    <3>3. /\ B[i].of = "start" /\ B[i].next > 0 /\ B[i].value = 0 /\ B[i].node \in R
          /\ \A j \in DOMAIN children[B[i].node] :
               j >= B[i].next => children[B[i].node][j] \notin E
          /\ \A k \in DOMAIN B : B[k].node = B[i].node => k = i
      BY <3>1 DEF Settled
    <3>4. ASSUME NEW k \in DOMAIN s, s[k].node = s[i].node PROVE k = i
      <4>1. k \in DOMAIN B /\ s[k] = B[k]
        BY <1>1, <3>2, <3>4
      <4> QED BY <3>1, <3>3, <3>4, <4>1
    <3> QED BY <3>1, <3>3, <3>4
  <2> QED BY <2>1, <2>2
<1> QED BY <1>2 DEF Settled

\* start() comes to a node.
LEMMA EnterKeeps ==
    ASSUME TreeInv, DepthInv, TreeInv', DepthInv', CastInv, CallStep,
           NEW n, Enter(n)
    PROVE  CastInv'
<1>1. PICK B, t : B = Below /\ t = Top
  OBVIOUS
<1>2. /\ CastType /\ SumsInv /\ ParentsFirst /\ CallsInv /\ running /\ sync /\ calls # <<>>
      /\ Nodes' = Nodes /\ UNCHANGED <<adj, root, parent, children>>
      /\ running' = (calls' # <<>>) /\ sync'
  BY DEF CastInv, SumsInv, CallStep
<1>3. CallShape(B, t)
  BY <1>1, <1>2, ShapeHolds
<1>4. t.of = "start" /\ t.node = n /\ t.next = 0
  BY <1>1 DEF Enter
<1>5. Entering
  <2>1. ~Answering
    BY <1>1, <1>4 DEF Answering
  <2>2. ~Settled(calls, Reached, Reached)
    <3>1. Len(calls) \in DOMAIN calls /\ calls[Len(calls)] = t
      BY <1>3 DEF CallShape
    <3>2. ~(t.next > 0)
      BY <1>4
    <3> QED BY <3>1, <3>2 DEF Settled
  <2> QED BY <1>2, <2>1, <2>2 DEF CallsInv
<1>6. /\ n \in Nodes /\ n \notin Reached /\ (n = root \/ parent[n] \in Reached)
      /\ t.value = 0 /\ Settled(B, Reached, Reached \union {n})
  BY <1>1, <1>4, <1>5 DEF Entering
<1>7. Entered(n)
  BY <1>2, <1>6 DEF Enter, Entered
<1>8. /\ received' \in Seq(Nodes) /\ IsInjective(received') /\ Reached' = Reached \union {n}
      /\ pending' \in [Nodes -> Nat] /\ accumulated' \in [Nodes -> Int]
      /\ \A m \in Nodes : pending'[m] <= Len(children[m])
      /\ \A c \in Nodes : parent[c] = n => c \notin Reached
  BY <1>2, <1>7, EnteredFacts
<1>9. Settled(B, Reached', Reached')
  BY <1>6, <1>8 DEF Settled
<1>10. \A m \in Nodes : Answers(m) = 0
  BY <1>3, <1>4 DEF CallShape
<1>11. Reached \subseteq Nodes
  BY <1>2, LenProperties DEF CastType, Reached, ToSet
<1>12. CASE IsLeaf(n)
  <2>1. PICK v : v = LocalValue(n)
    OBVIOUS
  <2>2. v \in Int /\ HandOn(n, v)
    BY <1>2, <1>6, <1>12, <2>1, HeldTypes DEF Enter
  <2>3. HandedOn(n, v, t)
    <3>1. n # root => parent[n] \in Reached'
      BY <1>6, <1>8
    <3> QED BY <1>3, <1>6, <1>9, <2>2, <3>1, HandOnFacts
  <2>4. CastType' /\ InboxInv' /\ CallsInv'
    <3>1. calls' \in Seq(Frames) /\ CallsInv'
      BY <2>3 DEF HandedOn
    <3> QED BY <1>8, <3>1, CallTypes
  <2>5. Still'
    <3>1. (TreeInv /\ DepthInv /\ CastType /\ InboxInv /\ CallsInv => Still)'
      BY StillHolds, PTL
    <3> QED BY <2>4, <3>1
  <2>6. SumsInv'
    <3>1. \A m \in Nodes : Answers(m)' = 0 + IF n # root /\ m = parent[n] THEN 1 ELSE 0
      BY <2>3 DEF HandedOn
    <3>2. \A m \in Reached : Answers(m)' = Answers(m) + IF n # root /\ m = parent[n] THEN 1 ELSE 0
      BY <1>10, <1>11, <3>1
    <3>3. Answers(n)' = 0
      BY <1>2, <1>6, <3>1, NodesFacts
    <3>4. /\ InFlight \in Int
          /\ n = root => printed' = Append(printed, LocalValue(n)) /\ InFlight' = InFlight
          /\ n # root => printed' = printed /\ InFlight' = InFlight + LocalValue(n)
      BY <1>6, <2>1, <2>2, <2>3 DEF HandedOn
    <3> QED BY <1>2, <1>7, <1>12, <2>4, <2>5, <3>2, <3>3, <3>4, EnteredLeaf
  <2> QED BY <2>4, <2>6 DEF CastInv
<1>13. CASE ~IsLeaf(n)
  <2>1. PICK f : f = [t EXCEPT !.next = 1]
    OBVIOUS
  <2>2. calls' = Append(B, f) /\ printed' = printed
    BY <1>1, <1>13, <2>1 DEF Enter
  <2>3. f \in Frames /\ f.of = "start" /\ f.node = n /\ f.next = 1 /\ f.value = 0
    BY <1>3, <1>4, <1>6, <2>1 DEF CallShape, Frames
  <2>4. /\ InFlight' = InFlight - t.value + f.value
        /\ \A m \in Nodes : Answers(m)' = IF f.of = "back" /\ f.node = m THEN 1 ELSE 0
        /\ calls' \in Seq(Frames) /\ calls' # <<>> /\ Below' = B /\ Top' = f
    BY <1>3, <2>2, <2>3, CallFacts
  <2>5. CallsInv'
    <3>1. PICK s : s = calls'
      OBVIOUS
    <3>3. \A j \in DOMAIN children[n] : children[n][j] \notin Reached'
      <4>1. ASSUME NEW j \in DOMAIN children[n] PROVE children[n][j] \notin Reached'
        <5>1. PICK c : c = children[n][j]
          OBVIOUS
        <5>2. c \in ToSet(children[n])
          BY <5>1 DEF ToSet
        <5>3. c \in Nodes /\ parent[c] = n
          BY <1>6, <5>2 DEF TreeInv
        <5>4. c # n
          BY <1>2, <1>6, <5>3, NodesFacts
        <5> QED BY <1>8, <5>1, <5>3, <5>4
      <4> QED BY <4>1
    <3>4. Settled(s, Reached', Reached')
      <4>1. \A k \in DOMAIN B : B[k].node # n
        <5>1. \A k \in DOMAIN B : B[k].node \in Reached
          BY <1>6 DEF Settled
        <5> QED BY <1>6, <5>1
      <4>2. s = Append(B, f) /\ B \in Seq(Frames) /\ f.next > 0 /\ f.node \in Reached'
        BY <1>3, <1>8, <2>2, <2>3, <3>1 DEF CallShape
      <4>3. \A j \in DOMAIN children[f.node] : j >= f.next => children[f.node][j] \notin Reached'
        BY <2>3, <3>3
      <4>4. \A k \in DOMAIN B : B[k].node # f.node
        BY <2>3, <4>1
      <4>5. PICK R : R = Reached'
        OBVIOUS
      <4> QED BY <1>9, <2>3, <4>2, <4>3, <4>4, <4>5, SettledPush
    <3>5. Settled(calls, Reached, Reached)'
      BY <1>2, <3>1, <3>4 DEF Settled
    <3> QED BY <1>2, <2>4, <3>5 DEF CallsInv
  <2>6. CastType' /\ InboxInv'
    BY <1>8, <2>4, CallTypes
  <2>7. SumsInv'
    <3>1. Answers(n)' = 0 /\ \A m \in Reached : Answers(m)' = Answers(m)
      BY <1>6, <1>10, <1>11, <2>3, <2>4
    <3>2. InFlight \in Int /\ InFlight' = InFlight
      BY <1>3, <1>6, <2>3, <2>4 DEF CallShape
    <3> QED BY <1>2, <1>7, <1>13, <2>2, <3>1, <3>2, EnteredInner
  <2> QED BY <2>5, <2>6, <2>7 DEF CastInv
<1> QED BY <1>12, <1>13

\* back() comes to a node.
LEMMA AnswerKeeps ==
    ASSUME TreeInv, DepthInv, TreeInv', DepthInv', CastInv, CallStep,
           NEW n, AnswerCall(n)
    PROVE  CastInv'
<1>1. PICK B, t : B = Below /\ t = Top
  OBVIOUS
<1>2. /\ CastType /\ SumsInv /\ WaitsForAnswers /\ ParentsFirst /\ CallsInv /\ running /\ sync
      /\ calls # <<>> /\ Nodes' = Nodes /\ UNCHANGED <<adj, root, parent, children>>
      /\ running' = (calls' # <<>>) /\ sync'
  BY DEF CastInv, SumsInv, CallStep
<1>3. CallShape(B, t)
  BY <1>1, <1>2, ShapeHolds
<1>4. t.of = "back" /\ t.node = n
  BY <1>1 DEF AnswerCall
<1>5. Answering
  <2>1. ~Entering
    BY <1>1, <1>4 DEF Entering
  <2>2. ~Settled(calls, Reached, Reached)
    <3>1. Len(calls) \in DOMAIN calls /\ calls[Len(calls)] = t
      BY <1>3 DEF CallShape
    <3>2. t.of # "start"
      BY <1>4
    <3> QED BY <3>1, <3>2 DEF Settled
  <2> QED BY <1>2, <2>1, <2>2 DEF CallsInv
<1>6. Reached \subseteq Nodes /\ Reached' = Reached /\ received' = received
  BY <1>2, LenProperties DEF CastType, Reached, ToSet, AnswerCall
<1>7. n \in Reached /\ n \in Nodes /\ Settled(B, Reached', Reached')
  BY <1>1, <1>4, <1>5, <1>6 DEF Answering
<1>8. PICK x : x = t.value
  OBVIOUS
<1>9. x \in Int /\ Answers(n) = 1 /\ \A m \in Nodes \ {n} : Answers(m) = 0
  BY <1>3, <1>4, <1>7, <1>8 DEF CallShape
<1>10. Answered(n, x)
  <2>1. /\ pending' = [pending EXCEPT ![n] = pending[n] - 1]
        /\ accumulated' = [accumulated EXCEPT ![n] = accumulated[n] + x]
    BY <1>1, <1>8 DEF AnswerCall
  <2>2. Answers(n) > 0
    BY <1>9
  <2> QED BY <1>2, <1>6, <1>7, <1>9, <2>1, <2>2 DEF Answered
<1>11. /\ pending' \in [Nodes -> Nat] /\ accumulated' \in [Nodes -> Int]
       /\ \A m \in Nodes : pending'[m] <= Len(children[m])
       /\ pending[n] \in Nat /\ accumulated[n] \in Int
  <2>1. pending[n] \in Nat /\ accumulated[n] \in Int
    BY <1>2, <1>7 DEF CastType
  <2> QED BY <1>2, <1>10, <2>1, AnsweredFacts
<1>12. received' \in Seq(Nodes) /\ IsInjective(received')
  BY <1>2, <1>6 DEF CastType
<1>13. CASE pending[n] = 1
  <2>1. PICK v : v = Total(n, accumulated[n] + x)
    OBVIOUS
  <2>2. v \in Int /\ HandOn(n, v)
    <3>1. LocalValue(n) \in Int
      BY <1>2, <1>7, HeldTypes
    <3>2. v \in Int
      BY <1>9, <1>11, <2>1, <3>1 DEF Total
    <3>3. HandOn(n, v)
      BY <1>1, <1>8, <1>13, <2>1 DEF AnswerCall, AllAnswered
    <3> QED BY <3>2, <3>3
  <2>3. HandedOn(n, v, t)
    <3>1. n # root => parent[n] \in Reached'
      BY <1>2, <1>6, <1>7, ParentReached
    <3> QED BY <1>3, <1>7, <2>2, <3>1, HandOnFacts
  <2>4. CastType' /\ InboxInv' /\ CallsInv'
    <3>1. calls' \in Seq(Frames) /\ CallsInv'
      BY <2>3 DEF HandedOn
    <3> QED BY <1>11, <1>12, <3>1, CallTypes
  <2>5. Still'
    <3>1. (TreeInv /\ DepthInv /\ CastType /\ InboxInv /\ CallsInv => Still)'
      BY StillHolds, PTL
    <3> QED BY <2>4, <3>1
  <2>6. SumsInv'
    <3>1. \A m \in Nodes : Answers(m)' = 0 + IF n # root /\ m = parent[n] THEN 1 ELSE 0
      BY <2>3 DEF HandedOn
    <3>2. \A m \in Reached \ {n} :
            Answers(m)' = Answers(m) + IF n # root /\ m = parent[n] THEN 1 ELSE 0
      BY <1>6, <1>9, <3>1
    <3>3. Answers(n)' = 0
      BY <1>7, <3>1, NodesFacts
    <3>4. /\ InFlight \in Int
          /\ n = root => printed' = Append(printed, v) /\ InFlight' = InFlight - x
          /\ n # root => printed' = printed /\ InFlight' = InFlight - x + v
      BY <1>8, <2>3 DEF HandedOn
    <3> QED BY <1>2, <1>10, <1>13, <2>1, <2>4, <2>5, <3>2, <3>3, <3>4, AnsweredLast
  <2> QED BY <2>4, <2>6 DEF CastInv
<1>14. CASE pending[n] # 1
  <2>1. calls' = B /\ printed' = printed
    <3>1. pending[n] - 1 # 0
      BY <1>11, <1>14
    <3> QED BY <1>1, <3>1 DEF AnswerCall, AllAnswered, Returns
  <2>2. InFlight \in Int /\ InFlight' = InFlight - x /\ \A m \in Nodes : Answers(m)' = 0
    BY <1>3, <1>8, <2>1, ReturnFacts DEF CallShape
  <2>3. CallsInv'
    <3>1. Settled(calls, Reached, Reached)'
      BY <1>2, <1>7, <2>1 DEF Settled
    <3> QED BY <1>2, <3>1 DEF CallsInv
  <2>4. CastType' /\ InboxInv'
    <3>1. calls' \in Seq(Frames)
      BY <1>3, <2>1 DEF CallShape
    <3> QED BY <1>11, <1>12, <3>1, CallTypes
  <2>5. SumsInv'
    <3>1. Answers(n)' = Answers(n) - 1 /\ \A m \in Reached \ {n} : Answers(m)' = Answers(m)
      BY <1>6, <1>7, <1>9, <2>2
    <3> QED BY <1>2, <1>10, <1>14, <2>1, <2>2, <3>1, AnsweredMore
  <2> QED BY <2>3, <2>4, <2>5 DEF CastInv
<1> QED BY <1>13, <1>14

\* start() comes to the next child, or returns.
LEMMA ChildKeeps ==
    ASSUME TreeInv, DepthInv, TreeInv', DepthInv', CastInv, CallStep,
           NEW n, NextChild(n)
    PROVE  CastInv'
<1>1. PICK B, t : B = Below /\ t = Top
  OBVIOUS
<1>2. /\ CastType /\ SumsInv /\ CallsInv /\ running /\ sync
      /\ calls # <<>> /\ Nodes' = Nodes /\ UNCHANGED <<adj, root, parent, children>>
      /\ running' = (calls' # <<>>) /\ sync'
      /\ UNCHANGED <<pending, accumulated, received, printed>> /\ Reached' = Reached
  BY DEF CastInv, CallStep, NextChild, Reached
<1>3. CallShape(B, t)
  BY <1>1, <1>2, ShapeHolds
<1>4. t.of = "start" /\ t.node = n /\ t.next > 0 /\ t.next \in Nat /\ t \in Frames
  BY <1>1, <1>3 DEF NextChild, CallShape, Frames
<1>5. Settled(calls, Reached, Reached)
  <2>1. ~Answering
    BY <1>1, <1>4 DEF Answering
  <2>2. ~Entering
    BY <1>1, <1>4 DEF Entering
  <2> QED BY <1>2, <2>1, <2>2 DEF CallsInv
<1>6. /\ n \in Reached /\ n \in Nodes /\ t.value = 0
      /\ \A j \in DOMAIN children[n] : j >= t.next => children[n][j] \notin Reached
      /\ \A k \in DOMAIN B : B[k].node # n
  <2>1. Len(calls) \in DOMAIN calls /\ calls[Len(calls)] = t
    BY <1>3 DEF CallShape
  <2>2. /\ t.value = 0 /\ t.node \in Reached
        /\ \A j \in DOMAIN children[t.node] : j >= t.next => children[t.node][j] \notin Reached
        /\ \A k \in DOMAIN calls : calls[k].node = t.node => k = Len(calls)
    BY <1>5, <2>1 DEF Settled
  <2>3. ASSUME NEW k \in DOMAIN B PROVE B[k].node # n
    BY <1>3, <1>4, <2>2 DEF CallShape
  <2>4. Reached \subseteq Nodes
    BY <1>2, LenProperties DEF CastType, Reached, ToSet
  <2> QED BY <1>4, <2>2, <2>3, <2>4
<1>7. \A m \in Nodes : Answers(m) = 0
  BY <1>3, <1>4 DEF CallShape
<1>8. Settled(B, Reached, Reached)
  BY <1>3 DEF CallShape
<1>9. ASSUME calls' \in Seq(Frames) PROVE CastType' /\ InboxInv'
  <2>1. /\ pending \in [Nodes -> Nat] /\ accumulated \in [Nodes -> Int]
        /\ \A m \in Nodes : pending[m] <= Len(children[m])
        /\ received \in Seq(Nodes) /\ IsInjective(received)
    BY <1>2 DEF CastType
  <2> QED BY <1>2, <1>9, <2>1, CallTypes
<1>10. ASSUME InFlight' = InFlight, \A m \in Nodes : Answers(m)' = 0 PROVE SumsInv'
  BY <1>2, <1>7, <1>10, SumsStay
<1>11. CASE ~(t.next <= Len(children[n]))
  <2>1. calls' = B
    BY <1>1, <1>11 DEF NextChild, Returns
  <2>2. InFlight' = InFlight /\ \A m \in Nodes : Answers(m)' = 0
    BY <1>3, <1>6, <2>1, ReturnFacts DEF CallShape
  <2>3. CallsInv'
    <3>1. Settled(calls, Reached, Reached)'
      BY <1>2, <1>8, <2>1 DEF Settled
    <3> QED BY <1>2, <3>1 DEF CallsInv
  <2>4. calls' \in Seq(Frames)
    BY <1>3, <2>1 DEF CallShape
  <2> QED BY <1>9, <1>10, <2>2, <2>3, <2>4 DEF CastInv
<1>12. CASE t.next <= Len(children[n])
  <2>1. PICK i, c : i = t.next /\ c = children[n][i]
    OBVIOUS
  <2>2. i \in DOMAIN children[n] /\ IsInjective(children[n]) /\ c \in Nodes /\ parent[c] = n
    <3>1. /\ children[n] \in Seq(Vertices) /\ IsInjective(children[n])
          /\ ToSet(children[n]) = {e \in Nodes : parent[e] = n}
      BY <1>6 DEF TreeInv
    <3>2. i \in DOMAIN children[n]
      <4>1. DOMAIN children[n] = 1..Len(children[n]) /\ Len(children[n]) \in Nat
        BY <3>1, LenProperties
      <4> QED BY <1>4, <1>12, <2>1, <4>1
    <3>3. c \in ToSet(children[n])
      BY <2>1, <3>2 DEF ToSet
    <3> QED BY <3>1, <3>2, <3>3
  <2>3. c \notin Reached /\ c \in Vertices
    BY <1>4, <1>6, <2>1, <2>2 DEF TreeInv
  <2>4. PICK f, g : f = [t EXCEPT !.next = i + 1] /\ g = StartCall(c)
    OBVIOUS
  <2>5. /\ f \in Frames /\ f.of = "start" /\ f.node = n /\ f.next = i + 1 /\ f.value = 0
        /\ g \in Frames /\ g.of = "start" /\ g.node = c /\ g.next = 0 /\ g.value = 0
    BY <1>4, <1>6, <2>1, <2>3, <2>4 DEF Frames, StartCall
  <2>6. PICK C : C = Append(B, f)
    OBVIOUS
  <2>7. C \in Seq(Frames) /\ B \in Seq(Frames)
    BY <1>3, <2>5, <2>6, AppendProperties DEF CallShape
  <2>8. calls' = Append(C, g)
    <3>1. calls' = B \o <<f, g>>
      BY <1>1, <1>12, <2>1, <2>4 DEF NextChild
    <3>2. B \o <<f, g>> = Append(Append(B, f), g)
      BY <2>5, <2>7
    <3> QED BY <2>6, <3>1, <3>2
  <2>9. /\ InFlight' = BoxSum(inbox) + Values(C) + g.value
        /\ \A m \in Nodes : Answers(m)' = IF g.of = "back" /\ g.node = m THEN 1 ELSE 0
        /\ calls' \in Seq(Frames) /\ calls' # <<>> /\ Below' = C /\ Top' = g
    BY <1>3, <2>5, <2>7, <2>8, StackFacts
  <2>10. InFlight' = InFlight
    <3>1. \A h \in Frames : h.value \in Int
      BY DEF Frames
    <3>2. Values(C) = Values(B) + 0
      BY <2>5, <2>6, <2>7, <3>1, ValuesFacts
    <3> QED BY <1>3, <1>6, <2>5, <2>9, <3>2 DEF CallShape
  <2>11. CallsInv'
    <3>1. PICK E : E = Reached \union {c}
      OBVIOUS
    <3>2. Settled(B, Reached, E)
      <4>1. ASSUME NEW k \in DOMAIN B, NEW j \in DOMAIN children[B[k].node], j >= B[k].next
            PROVE  children[B[k].node][j] \notin E
        <5>1. B[k].node \in Reached /\ children[B[k].node][j] \notin Reached
          BY <1>8, <4>1 DEF Settled
        <5>2. B[k].node \in Nodes
          BY <1>2, <5>1, LenProperties DEF CastType, Reached, ToSet
        <5>3. children[B[k].node][j] \in ToSet(children[B[k].node])
          BY DEF ToSet
        <5>4. parent[children[B[k].node][j]] = B[k].node
          <6>1. ToSet(children[B[k].node]) = {d \in Nodes : parent[d] = B[k].node}
            BY <5>2 DEF TreeInv
          <6> QED BY <5>3, <6>1
        <5> QED BY <1>6, <2>2, <3>1, <5>1, <5>4
      <4> QED BY <1>8, <4>1 DEF Settled
    <3>3. \A j \in DOMAIN children[f.node] : j >= f.next => children[f.node][j] \notin E
      <4>1. DOMAIN children[n] \subseteq Nat
        <5>1. children[n] \in Seq(Vertices)
          BY <1>6 DEF TreeInv
        <5> QED BY <5>1, LenProperties
      <4>2. ASSUME NEW j \in DOMAIN children[n], j >= i + 1 PROVE children[n][j] \notin E
        <5>1. j >= i /\ j # i
          BY <1>4, <2>1, <4>1, <4>2
        <5>2. children[n][j] \notin Reached
          BY <1>6, <2>1, <5>1
        <5>3. children[n][j] # c
          BY <2>1, <2>2, <5>1 DEF IsInjective
        <5> QED BY <3>1, <5>2, <5>3
      <4> QED BY <2>5, <4>2
    <3>4. Settled(C, Reached, E)
      <4>1. f.next > 0 /\ f.node \in Reached /\ \A k \in DOMAIN B : B[k].node # f.node
        BY <1>4, <1>6, <2>1, <2>5
      <4> QED BY <2>5, <2>6, <2>7, <3>2, <3>3, <4>1, SettledPush
    <3>5. Settled(Below, Reached, Reached \union {Top.node})'
      BY <1>2, <2>5, <2>9, <3>1, <3>4 DEF Settled
    <3>6. Entering'
      BY <1>2, <1>6, <2>2, <2>3, <2>5, <2>9, <3>5 DEF Entering
    <3> QED BY <1>2, <2>9, <3>6 DEF CallsInv
  <2>12. \A m \in Nodes : Answers(m)' = 0
    BY <2>5, <2>9
  <2> QED BY <1>9, <1>10, <2>9, <2>10, <2>11, <2>12 DEF CastInv
<1> QED BY <1>11, <1>12

\* start() is called for the root.
LEMMA SyncStarts ==
    ASSUME TreeInv, DepthInv, TreeInv', DepthInv', CastInv, StartSync
    PROVE  CastInv'
<1>1. PICK f : f = StartCall(root)
  OBVIOUS
<1>2. /\ sync /\ sync' /\ running' /\ running' = TRUE /\ root # Nil /\ root \in Nodes
      /\ Nodes' = Nodes /\ UNCHANGED <<root, parent, children, sync>>
      /\ UNCHANGED <<pending, accumulated, inbox, unscanned, progress>>
      /\ received' = <<>> /\ printed' = <<>> /\ calls' = <<f>> /\ calls' # <<>>
      /\ unscanned = {} /\ \A n \in Nodes : inbox[n] = <<>>
  BY <1>1 DEF StartSync, CastInv, InboxInv, TreeInv, Nodes, graph, tree
<1>3. f \in Frames /\ f.of = "start" /\ f.node = root /\ f.next = 0 /\ f.value = 0
  BY <1>1, <1>2 DEF StartCall, Frames, TreeInv
<1>4. Reached' = {}
  BY <1>2, NothingYet DEF Reached
<1>5. /\ <<f>> \in Seq(Frames) /\ DOMAIN <<f>> = {1} /\ <<f>>[1] = f
      /\ Front(<<f>>) = <<>> /\ Last(<<f>>) = f
  <2>1. <<f>> = Append(<<>>, f) /\ <<>> \in Seq(Frames)
    BY <1>3
  <2>2. Front(<<f>>) = <<>> /\ Last(<<f>>) = f
    BY <1>3, <2>1, PushFacts
  <2>3. <<f>> \in Seq(Frames) /\ DOMAIN <<f>> = {1} /\ <<f>>[1] = f
    BY <1>3
  <2> QED BY <2>2, <2>3
<1>6. CastType'
  BY <1>2, <1>5, NothingYet DEF CastInv, CastType
<1>7. ValuesAreNil'
  <2>1. \A n \in Nodes' : \A i \in DOMAIN inbox'[n] : inbox'[n][i].value = 0
    BY <1>2, NothingYet
  <2>2. \A i \in DOMAIN calls' : calls'[i].value = 0
    BY <1>2, <1>3, <1>5
  <2> QED BY <2>1, <2>2 DEF ValuesAreNil
<1>8. SumsInv'
  <2>1. (TreeInv /\ DepthInv /\ CastType /\ ValuesAreNil /\ received = <<>> /\ printed = <<>>
          => SumsInv)'
    BY SumsAtStart, PTL
  <2> QED BY <1>2, <1>6, <1>7, <2>1
<1>9. InboxInv'
  BY <1>2, <1>4 DEF InboxInv
<1>10. CallsInv'
  <2>1. Below' = <<>> /\ Top' = f
    BY <1>2, <1>5 DEF Below, Top
  <2>2. Settled(Below, Reached, Reached \union {Top.node})'
    BY <2>1, NothingYet DEF Settled
  <2>3. Entering'
    BY <1>2, <1>3, <1>4, <2>1, <2>2 DEF Entering
  <2> QED BY <1>2, <2>3 DEF CallsInv
<1> QED BY <1>6, <1>8, <1>9, <1>10 DEF CastInv

-----------------------------------------------------------------------------
(* Both convergecasts                                                      *)

\* There are no nodes, messages and calls at the start.
LEMMA CastStarts == CastInit => CastInv
<1> SUFFICES ASSUME CastInit PROVE CastInv
  OBVIOUS
<1>1. /\ Nodes = {} /\ pending = NoNodes /\ accumulated = NoNodes /\ inbox = NoNodes
      /\ unscanned = {} /\ progress = FALSE /\ running = FALSE /\ sync \in BOOLEAN
      /\ received = <<>> /\ printed = <<>> /\ calls = <<>> /\ DOMAIN NoNodes = {}
  BY DEF CastInit, Init, BuildInit, NoNodes, Nodes
<1>2. Reached = {} /\ Unreported = {}
  BY <1>1, NothingYet DEF Reached, Unreported
<1>3. CastType
  <2>1. NoNodes \in [{} -> Nat] /\ NoNodes \in [{} -> Int] /\ NoNodes \in [{} -> Seq(Msgs)]
    BY DEF NoNodes
  <2>2. <<>> \in Seq(Frames) /\ <<>> \in Seq(Nodes)
    BY NothingYet
  <2> QED BY <1>1, <2>1, <2>2, NothingYet DEF CastType
<1>4. SumsInv
  BY <1>1, <1>2, NothingYet
     DEF SumsInv, ParentsFirst, WaitsForAnswers, ParentsWait, PrintedTotal, ValueConserved
<1>5. InboxInv
  BY <1>1, <1>2 DEF InboxInv
<1>6. CallsInv
  BY <1>1 DEF CallsInv
<1> QED BY <1>3, <1>4, <1>5, <1>6 DEF CastInv

\* Every step keeps the invariant of the sums.
LEMMA CastStep ==
    TreeInv /\ DepthInv /\ CastInv /\ TreeInv' /\ DepthInv' /\ [Next]_vars => CastInv'
<1> SUFFICES ASSUME TreeInv, DepthInv, CastInv, TreeInv', DepthInv', [Next]_vars
             PROVE  CastInv'
  OBVIOUS
<1>1. CASE BuildTree /\ UNCHANGED <<sync, calls>>
  BY <1>1, BuildKeeps
<1>2. CASE ~sync /\ StartAsync /\ UNCHANGED <<sync, calls>>
  BY <1>2, AsyncStarts
<1>3. CASE ~sync /\ Scheduler /\ UNCHANGED <<sync, calls>>
  BY <1>3, SchedulerKeeps
<1>4. CASE StartSync
  BY <1>4, SyncStarts
<1>5. CASE Called
  <2>1. CallStep
    BY <1>5, CallStepFacts
  <2>2. PICK n \in Vertices : Enter(n) \/ NextChild(n) \/ AnswerCall(n)
    BY <1>5 DEF Called
  <2>3. CASE Enter(n)
    BY <2>1, <2>3, EnterKeeps
  <2>4. CASE NextChild(n)
    BY <2>1, <2>4, ChildKeeps
  <2>5. CASE AnswerCall(n)
    BY <2>1, <2>5, AnswerKeeps
  <2> QED BY <2>2, <2>3, <2>4, <2>5
<1>6. CASE UNCHANGED vars \/ (GrowGraph /\ UNCHANGED <<sync, calls>>)
  <2>1. /\ UNCHANGED <<root, parent, children, pending, accumulated, inbox, received, printed>>
        /\ UNCHANGED <<sync, calls, running, progress, unscanned>> /\ Nodes' = Nodes
        /\ Reached' = Reached
    BY <1>6, GrowFacts DEF GrowGraph, vars, asyncVars, cast, tree, graph, Nodes, Reached
  <2>2. CastType'
    BY <2>1 DEF CastInv, CastType
  <2>3. SumsInv'
    <3>1. \A n \in Nodes : Answers(n)' = Answers(n)
      BY <2>1 DEF Answers, CallsBack, Top
    <3>2. InFlight' = InFlight
      BY <2>1 DEF InFlight, Values
    <3> QED BY <2>1, <3>1, <3>2, SumsStay DEF CastInv
  <2>4. InboxInv'
    BY <2>1 DEF CastInv, InboxInv
  <2>5. CallsInv'
    BY <2>1 DEF CastInv, CallsInv, Answering, Entering, Settled, Top, Below
  <2> QED BY <2>2, <2>3, <2>4, <2>5 DEF CastInv
<1> QED BY <1>1, <1>2, <1>3, <1>4, <1>5, <1>6 DEF Next, Async, AsyncNext

\* The invariants of the tree and of the sums hold together.
THEOREM CastInvariant == Spec => [](TreeInv /\ DepthInv /\ CastInv)
<1>1. CastInit => TreeInv /\ DepthInv /\ CastInv
  BY TreeInit, DepthInit, CastStarts DEF CastInit, Init
<1>2. TreeInv /\ DepthInv /\ CastInv /\ [Next]_vars => (TreeInv /\ DepthInv /\ CastInv)'
  <2> SUFFICES ASSUME TreeInv, DepthInv, CastInv, [Next]_vars
               PROVE  (TreeInv /\ DepthInv /\ CastInv)'
    OBVIOUS
  <2>1. TreeInv' /\ DepthInv'
    BY TreeNext
  <2> QED BY <2>1, CastStep
<1> QED BY <1>1, <1>2, PTL DEF Spec

\* No value is lost or counted twice on its way up the tree, with messages and with
\* calls: what the nodes hold and what is under way is the tree's total until it is
\* printed.
THEOREM ValueIsConserved == Spec => []ValueConserved
<1>1. TreeInv /\ DepthInv /\ CastInv => ValueConserved
  BY DEF CastInv, SumsInv
<1> QED BY <1>1, CastInvariant, PTL

\* A run prints one total, that of all the nodes, after each has received the message
\* once and its parent before it; none waits for more answers than it has children,
\* and no message is left for the next run.
THEOREM OneTotalHolds == Spec => []OneTotal
<1>1. TreeInv /\ DepthInv /\ CastInv => OneTotal
  <2> SUFFICES ASSUME TreeInv, DepthInv, CastInv PROVE OneTotal
    OBVIOUS
  <2>1. \A n \in Nodes : pending[n] \in 0..Len(children[n]) /\ (~running => inbox[n] = <<>>)
    <3>1. \A n \in Nodes : pending[n] \in Nat /\ pending[n] <= Len(children[n])
      BY DEF CastInv, CastType
    <3>2. \A n \in Nodes : Len(children[n]) \in Nat
      BY ChildrenFacts
    <3>3. \A n \in Nodes : pending[n] \in 0..Len(children[n])
      BY <3>1, <3>2
    <3> QED BY <3>3 DEF CastInv, InboxInv
  <2>2. printed # <<>> => printed = <<TreeTotal>> /\ Reached = Nodes
    <3>1. Reached \subseteq Nodes
      BY LenProperties DEF CastInv, CastType, Reached, ToSet
    <3>2. Unreported = {} => Nodes \subseteq Reached
      BY DEF Unreported
    <3> QED BY <3>1, <3>2 DEF CastInv, SumsInv, PrintedTotal
  <2>3. IsInjective(received)
    BY DEF CastInv, CastType
  <2> QED BY <2>1, <2>2, <2>3 DEF OneTotal, CastInv, SumsInv, ParentsFirst
<1> QED BY <1>1, CastInvariant, PTL
=============================================================================
