---------------------------- MODULE SpanningTree ----------------------------
(***************************************************************************)
(* SpanningTree::build of src/src/include/BPY/SpanningTree: the breadth    *)
(* first tree of a graph from a root.  The synchronous and the             *)
(* asynchronous class build it alike.                                      *)
(***************************************************************************)
EXTENDS Integers, SequencesExt

CONSTANTS Size,        \* vertices of the graph
          MaxEdges,    \* bound: calls of addEdge
          Nil          \* a null pointer

ASSUME SizeAssumption == Size \in Nat \ {0} /\ MaxEdges \in Nat
ASSUME NilAssumption == Nil \notin Int

VARIABLES adj,         \* vertex -> its neighbours, in the order of the calls
          root,        \* the root node, Nil as long as nothing is built
          parent,      \* node -> its parent; its domain is the map of nodes
          children,    \* node -> its children
          queue,       \* the nodes to expand
          stale        \* ghost: the graph has grown since the tree was built

graph == <<adj, stale>>
tree  == <<root, parent, children, queue>>

Vertices == 0..(Size - 1)
Nodes    == DOMAIN parent
Building == queue # <<>>
NoNodes  == [n \in {} |-> n]

BuildInit ==
    /\ adj = [v \in Vertices |-> <<>>]
    /\ root = Nil /\ parent = NoNodes /\ children = NoNodes /\ queue = <<>>
    /\ stale = FALSE

\* addEdge(), which a tree that is built from the graph does not hear of.  Loops and
\* repeated edges are let in.
AddEdge(u, v) ==
    /\ ~Building
    /\ SumFunction([w \in Vertices |-> Len(adj[w])]) < 2 * MaxEdges
    /\ adj' = LET one == [adj EXCEPT ![u] = Append(@, v)] IN [one EXCEPT ![v] = Append(@, u)]
    /\ stale' = (root # Nil)
    /\ UNCHANGED tree

\* Faulty variant: the nodes of an earlier call are still in the map.
BuildKept(r) ==
    /\ r \in Vertices /\ ~Building
    /\ root' = r
    /\ parent' = [n \in Nodes \union {r} |-> IF n = r THEN Nil ELSE parent[n]]
    /\ children' = [n \in Nodes \union {r} |-> IF n = r THEN <<>> ELSE children[n]]
    /\ queue' = <<r>>
    /\ stale' = FALSE
    /\ UNCHANGED adj

\* build() up to its loop; the tree of an earlier call is dropped.  A root that is
\* not a vertex is refused before anything changes.
Build(r) ==
    /\ r \in Vertices /\ ~Building
    /\ root' = r
    /\ parent' = [n \in {r} |-> Nil]
    /\ children' = [n \in {r} |-> <<>>]
    /\ queue' = <<r>>
    /\ stale' = FALSE
    /\ UNCHANGED adj

\* The neighbours of u that get a node, each where the row has it first.
Unvisited(u) ==
    FoldLeft(LAMBDA new, v : IF v \in Nodes \union ToSet(new) THEN new ELSE Append(new, v),
             <<>>, adj[u])

\* One round of the loop: the next node gets its unvisited neighbours as children.
Expand ==
    /\ Building
    /\ LET u   == Head(queue)
           new == Unvisited(u)
           all == Nodes \union ToSet(new)
       IN  /\ parent' = [n \in all |-> IF n \in Nodes THEN parent[n] ELSE u]
           /\ children' = [n \in all |-> IF n = u THEN new
                                         ELSE IF n \in Nodes THEN children[n] ELSE <<>>]
           /\ queue' = Tail(queue) \o new
    /\ UNCHANGED <<graph, root>>

Grow == \E u, v \in Vertices : u <= v /\ AddEdge(u, v)

BuildNext ==
    \/ \E r \in Vertices : Build(r)
    \/ Expand

-----------------------------------------------------------------------------
(* Properties                                                              *)

\* Parents and children agree, every node has one place in the tree, and nodes wait
\* in the queue at most once.
TreeOK ==
    /\ adj \in [Vertices -> Seq(Vertices)]
    /\ root \in Nodes \union {Nil} /\ Nodes \subseteq Vertices
    /\ DOMAIN children = Nodes /\ IsInjective(queue) /\ ToSet(queue) \subseteq Nodes
    /\ \A n \in Nodes :
         /\ IsInjective(children[n])
         /\ ToSet(children[n]) = {c \in Nodes : parent[c] = n}
         /\ parent[n] = Nil <=> n = root

\* The vertices at most d edges away from the root: what the tree is compared with.
Ball(d) ==
    LET ball[i \in 0..d] ==
          IF i = 0 THEN {root}
          ELSE ball[i - 1] \union UNION {ToSet(adj[v]) : v \in ball[i - 1]}
    IN  ball[d]
IsDepth(n, d) ==
    LET up[i \in 0..d] == IF i = 0 THEN n ELSE IF up[i - 1] = Nil THEN Nil ELSE parent[up[i - 1]]
    IN  up[d] = root

\* The finished tree spans exactly the component of the root, and each node is as
\* deep in it as it is far from the root in the graph it was built from; loops,
\* repeated edges, cycles and an earlier tree, of a smaller graph even, make no
\* difference.  On the way there, and when the graph grows later, it is a tree.
ShortestPaths ==
    /\ TreeOK
    /\ root # Nil /\ ~Building /\ ~stale =>
         /\ Nodes = Ball(Size)
         /\ \A n \in Nodes : \E d \in 0..Size :
              IsDepth(n, d) /\ n \in Ball(d) /\ (d > 0 => n \notin Ball(d - 1))
=============================================================================
