----------------------------- MODULE FBPlusTree -----------------------------
(***************************************************************************)
(* The B+ tree of src/src/BPY/fbptree/fbptree.cpp: insertion with splits   *)
(* on the way down, lookup, the chain of leaves that iterators follow,     *)
(* clear, copy and move.  One step is one call of insert_non_full, so the  *)
(* tree is looked at in the middle of an insertion too.  Nodes of all      *)
(* trees live in one heap: a pointer can lead out of its tree.             *)
(***************************************************************************)
EXTENDS Integers, FiniteSetsExt, SequencesExt

CONSTANTS MinDegree,       \* kMinDegree; 32 in the code
          Trees,           \* the tree objects
          Keys, Values,    \* bounds: the keys and the values inserted
          MaxNodes,        \* bound: nodes alive at a time
          Nil              \* a null pointer

ASSUME MinDegreeAssumption == MinDegree \in Nat /\ MinDegree >= 2
ASSUME KeysAssumption == Keys \subseteq Int
ASSUME MaxNodesAssumption == MaxNodes \in Nat
ASSUME NilAssumption == Nil \notin 1..MaxNodes /\ Nil \notin Values

VARIABLES heap,     \* node -> its members
          root,     \* tree -> root_
          size,     \* tree -> size_
          call      \* the pending call of insert_non_full, or Idle

vars == <<heap, root, size, call>>

Leaf(keys, values, next) ==
    [leaf |-> TRUE, keys |-> keys, values |-> values, children |-> <<>>, next |-> next]
Inner(keys, children) ==
    [leaf |-> FALSE, keys |-> keys, values |-> <<>>, children |-> children, next |-> Nil]
Idle == [tree |-> Nil, node |-> Nil, key |-> 0, value |-> Nil]

\* The empty function: a heap without nodes.
NoNodes == [n \in {} |-> n]

Init ==
    /\ heap = NoNodes
    /\ root = [t \in Trees |-> Nil]
    /\ size = [t \in Trees |-> 0]
    /\ call = Idle

MaxKeys == 2 * MinDegree - 1

\* lower_bound and upper_bound, as the number of elements before the position.
LowerBound(keys, k) == Cardinality({i \in DOMAIN keys : keys[i] < k})
UpperBound(keys, k) == Cardinality({i \in DOMAIN keys : keys[i] <= k})

\* A set of numbers as an ascending sequence.
Ascending(S) ==
    [i \in 1..Cardinality(S) |-> CHOOSE x \in S : Cardinality({y \in S : y < x}) = i - 1]

\* The k nodes that new returns next.
FreeNodes(h, k) == SubSeq(Ascending((1..MaxNodes) \ DOMAIN h), 1, k)
Room(k) == Cardinality(DOMAIN heap) + k <= MaxNodes

\* Heap h with a node, or several nodes, set to new contents.
With(h, n, node) == [m \in DOMAIN h \union {n} |-> IF m = n THEN node ELSE h[m]]
Updated(h, f) == [n \in DOMAIN h \union DOMAIN f |-> IF n \in DOMAIN f THEN f[n] ELSE h[n]]

-----------------------------------------------------------------------------
(* Lookup and iteration                                                    *)

\* The child that holds key k: a key equal to a separator is to its right.
Route(n, k) == n.children[UpperBound(n.keys, k) + 1]

\* find_leaf, from node n of heap h down.
FindLeaf(h, n, k) ==
    LET down[m \in DOMAIN h] == IF h[m].leaf THEN m ELSE down[Route(h[m], k)] IN down[n]

\* The values find() has for key k, at most one.
Find(t, k) ==
    IF root[t] = Nil THEN {}
    ELSE LET l == heap[FindLeaf(heap, root[t], k)]
             i == LowerBound(l.keys, k) + 1
         IN  IF i <= Len(l.keys) /\ l.keys[i] = k THEN {l.values[i]} ELSE {}

\* The leaves below node n, from left to right, and the nodes of its subtree.
Leaves(h, n) ==
    LET below[m \in DOMAIN h] ==
          IF h[m].leaf THEN <<m>>
          ELSE FlattenSeq([i \in DOMAIN h[m].children |-> below[h[m].children[i]]])
    IN  IF n = Nil THEN <<>> ELSE below[n]
Subtree(h, n) ==
    LET below[m \in DOMAIN h] ==
          {m} \union UNION {below[h[m].children[i]] : i \in DOMAIN h[m].children}
    IN  IF n = Nil THEN {} ELSE below[n]

LeftmostLeaf(h, n) ==
    LET down[m \in DOMAIN h] == IF h[m].leaf THEN m ELSE down[h[m].children[1]] IN down[n]

\* begin(), end() and operator++ of the iterators.
End == [leaf |-> Nil, index |-> 1]
Begin(t) ==
    IF root[t] = Nil THEN End ELSE [leaf |-> LeftmostLeaf(heap, root[t]), index |-> 1]
Advanced(it) ==
    IF it.leaf = Nil THEN End
    ELSE IF it.index < Len(heap[it.leaf].keys) THEN [it EXCEPT !.index = @ + 1]
    ELSE [leaf |-> heap[it.leaf].next, index |-> 1]

-----------------------------------------------------------------------------
(* Insertion                                                               *)

\* An insertion starts only if the nodes it may need are free: one for each level, and
\* a root.
Height(t) ==
    LET below[m \in DOMAIN heap] ==
          IF heap[m].leaf THEN 1 ELSE 1 + below[heap[m].children[1]] IN below[root[t]]
Reserve(t) == IF Len(heap[root[t]].keys) < MaxKeys THEN Height(t) - 1 ELSE Height(t) + 1

\* A leaf's keys from the middle on go to a new leaf, linked behind it.
SplitLeaf(h, old, neu) ==
    LET n == h[old]  mid == Len(n.keys) \div 2 IN
    With(With(h, old, Leaf(SubSeq(n.keys, 1, mid), SubSeq(n.values, 1, mid), neu)),
         neu, Leaf(SubSeq(n.keys, mid + 1, Len(n.keys)),
                   SubSeq(n.values, mid + 1, Len(n.keys)), n.next))

\* Faulty variant: the children that moved are still in the old node.
SplitInnerShared(h, old, neu) ==
    LET n == h[old]  mid == Len(n.keys) \div 2 IN
    With(With(h, old, Inner(SubSeq(n.keys, 1, mid), n.children)),
         neu, Inner(SubSeq(n.keys, mid + 2, Len(n.keys)),
                    SubSeq(n.children, mid + 2, Len(n.children))))

\* An inner node's keys behind the middle one go to a new node.
SplitInner(h, old, neu) ==
    LET n == h[old]  mid == Len(n.keys) \div 2 IN
    With(With(h, old, Inner(SubSeq(n.keys, 1, mid), SubSeq(n.children, 1, mid + 1))),
         neu, Inner(SubSeq(n.keys, mid + 2, Len(n.keys)),
                    SubSeq(n.children, mid + 2, Len(n.children))))

\* split_child: child i of parent is split, and its middle key becomes the
\* separator of the two halves.
SplitChild(h, parent, i, neu) ==
    LET p       == h[parent]
        child   == p.children[i]
        promote == h[child].keys[Len(h[child].keys) \div 2 + 1]
        split   == IF h[child].leaf THEN SplitLeaf(h, child, neu) ELSE SplitInner(h, child, neu)
    IN  With(split, parent,
             Inner(InsertAt(p.keys, i, promote), InsertAt(p.children, i + 1, neu)))

\* Faulty variant: a node may hold one key more.
FullLate(n) == Len(n.keys) > MaxKeys

Full(n) == Len(n.keys) >= MaxKeys

\* insert() into a tree without a root.
InsertFirst(t, k, v) ==
    /\ call = Idle /\ root[t] = Nil /\ Room(1)
    /\ LET l == FreeNodes(heap, 1)[1] IN
       /\ heap' = With(heap, l, Leaf(<<k>>, <<v>>, Nil))
       /\ root' = [root EXCEPT ![t] = l]
    /\ size' = [size EXCEPT ![t] = 1]
    /\ UNCHANGED call

\* insert() up to its call of insert_non_full: a full root gets a parent, and is split.
Insert(t, k, v) ==
    /\ call = Idle /\ root[t] # Nil /\ Room(Reserve(t))
    /\ \/ /\ ~Full(heap[root[t]])
          /\ call' = [tree |-> t, node |-> root[t], key |-> k, value |-> v]
          /\ UNCHANGED <<heap, root, size>>
       \/ /\ Full(heap[root[t]])
          /\ LET new == FreeNodes(heap, 2) IN
             /\ heap' = SplitChild(With(heap, new[1], Inner(<<>>, <<root[t]>>)),
                                   new[1], 1, new[2])
             /\ root' = [root EXCEPT ![t] = new[1]]
             /\ call' = [tree |-> t, node |-> new[1], key |-> k, value |-> v]
          /\ UNCHANGED size

\* The half that takes the key, after child i was split.
HalfFor(parent, i, k) == IF k >= parent.keys[i] THEN parent.children[i + 1] ELSE parent.children[i]

\* insert_non_full at an inner node: one level down, behind a split if the child is full.
Descend ==
    /\ call # Idle /\ ~heap[call.node].leaf
    /\ LET n     == heap[call.node]
           i     == UpperBound(n.keys, call.key) + 1
           child == n.children[i]
       IN  \/ /\ ~Full(heap[child])
              /\ call' = [call EXCEPT !.node = child]
              /\ UNCHANGED heap
           \/ /\ Full(heap[child])
              /\ heap' = SplitChild(heap, call.node, i, FreeNodes(heap, 1)[1])
              /\ call' = [call EXCEPT !.node = HalfFor(heap'[call.node], i, call.key)]
    /\ UNCHANGED <<root, size>>

\* insert_non_full at a leaf that has the key, and at one that has not.
Overwrite(n, i) ==
    /\ heap' = [heap EXCEPT ![call.node].values[i] = call.value]
    /\ UNCHANGED size
AddEntry(n, i) ==
    /\ heap' = [heap EXCEPT ![call.node].keys = InsertAt(@, i, call.key),
                            ![call.node].values = InsertAt(@, i, call.value)]
    /\ size' = [size EXCEPT ![call.tree] = @ + 1]

PutInLeaf ==
    /\ call # Idle /\ heap[call.node].leaf
    /\ LET n == heap[call.node]
           i == LowerBound(n.keys, call.key) + 1
       IN  IF i <= Len(n.keys) /\ n.keys[i] = call.key THEN Overwrite(n, i) ELSE AddEntry(n, i)
    /\ call' = Idle
    /\ UNCHANGED root

-----------------------------------------------------------------------------
(* Whole trees                                                             *)

Without(h, t) == [n \in DOMAIN h \ Subtree(h, root[t]) |-> h[n]]

\* clear(), which an object without a root may need too: a move leaves it its size.
Clear(t) ==
    /\ call = Idle
    /\ heap' = Without(heap, t)
    /\ root' = [root EXCEPT ![t] = Nil]
    /\ size' = [size EXCEPT ![t] = 0]
    /\ UNCHANGED call

\* Faulty variant: the copied leaf keeps its pointer.
NextKept(from, l, new) == heap[l].next

\* The leaf that follows the copy of leaf l: the copy of the leaf to its right.
NextCopied(from, l, new) ==
    LET leaves == Leaves(heap, root[from])
        i      == CHOOSE j \in DOMAIN leaves : leaves[j] = l
    IN  IF i = Len(leaves) THEN Nil ELSE new[leaves[i + 1]]

\* clone_node: the same tree of new nodes; new maps a node to its copy.
CloneNode(from, n, new) ==
    IF heap[n].leaf THEN Leaf(heap[n].keys, heap[n].values, NextCopied(from, n, new))
    ELSE Inner(heap[n].keys, [i \in DOMAIN heap[n].children |-> new[heap[n].children[i]]])

\* Copy assignment: the copy is complete before the old nodes are destroyed.  A
\* copy constructor is the same on an empty object.
Copy(t, from) ==
    LET old == Ascending(Subtree(heap, root[from]))
        ids == FreeNodes(heap, Len(old))
        new == [n \in ToSet(old) |-> ids[CHOOSE i \in DOMAIN old : old[i] = n]]
    IN  /\ call = Idle /\ t # from /\ Room(Len(old))
        /\ heap' = Updated(Without(heap, t),
                     [m \in ToSet(ids) |->
                        CloneNode(from, CHOOSE n \in DOMAIN new : new[n] = m, new)])
        /\ root' = [root EXCEPT ![t] = IF root[from] = Nil THEN Nil ELSE new[root[from]]]
        /\ size' = [size EXCEPT ![t] = size[from]]
        /\ UNCHANGED call

\* Faulty variant: the objects are swapped.
MoveSwaps(t, from) ==
    /\ call = Idle /\ t # from
    /\ root' = [root EXCEPT ![t] = root[from], ![from] = root[t]]
    /\ size' = [size EXCEPT ![t] = size[from], ![from] = size[t]]
    /\ UNCHANGED <<heap, call>>

\* Move assignment, defaulted: the nodes change hands, but an int is copied, so
\* the source keeps its size.
Move(t, from) ==
    /\ call = Idle /\ t # from
    /\ heap' = Without(heap, t)
    /\ root' = [root EXCEPT ![t] = root[from], ![from] = Nil]
    /\ size' = [size EXCEPT ![t] = size[from]]
    /\ UNCHANGED call

Insertion ==
    \/ \E t \in Trees, k \in Keys, v \in Values : InsertFirst(t, k, v) \/ Insert(t, k, v)
    \/ Descend
    \/ PutInLeaf

WholeTree ==
    \E t \in Trees : Clear(t) \/ \E from \in Trees : Copy(t, from) \/ Move(t, from)

Next == Insertion \/ WholeTree

Spec == Init /\ [][Next]_vars

-----------------------------------------------------------------------------
(* Properties                                                              *)

\* Nodes are leaves with as many values as keys or inner nodes with one child more;
\* a key is never twice in a node; no node holds more than MaxKeys keys, and none
\* but a root fewer than MinDegree - 1.
TypeOK ==
    /\ \A n \in DOMAIN heap :
         /\ heap[n].keys \in Seq(Keys) /\ Len(heap[n].keys) <= MaxKeys
         /\ n \notin {root[t] : t \in Trees} => Len(heap[n].keys) >= MinDegree - 1
         /\ IF heap[n].leaf THEN Len(heap[n].values) = Len(heap[n].keys)
                            ELSE Len(heap[n].children) = Len(heap[n].keys) + 1
    /\ root \in [Trees -> DOMAIN heap \union {Nil}]
    /\ size \in [Trees -> Nat]
    /\ call # Idle => call.node \in Subtree(heap, root[call.tree])

\* Every node belongs to exactly one tree, at one place: no copy or move shares a
\* node, and no split loses one.
OneOwner ==
    /\ DOMAIN heap = UNION {Subtree(heap, root[t]) : t \in Trees}
    /\ \A t, u \in Trees : t # u => Subtree(heap, root[t]) \intersect Subtree(heap, root[u]) = {}
    /\ \A n \in DOMAIN heap :
         /\ IsInjective(heap[n].children)
         /\ \A m \in DOMAIN heap \ {n} :
              ToSet(heap[n].children) \intersect ToSet(heap[m].children) = {}

\* Iterating visits every entry of the tree that find() has, once, in the order of the
\* keys, and as many as size() says, also after splits, copies and moves, and in
\* the middle of an insertion.  (A tree object that was moved from has no entries
\* and keeps its size; the next insertion puts it right.)
IterationComplete ==
    \A t \in Trees : root[t] # Nil =>
      LET at[i \in 0..size[t]] == IF i = 0 THEN Begin(t) ELSE Advanced(at[i - 1])
          KeyAt(it) == heap[it.leaf].keys[it.index]
      IN  /\ size[t] = Cardinality({k \in Keys : Find(t, k) # {}})
          /\ \A i \in 0..(size[t] - 1) :
               LET it == at[i] IN
               /\ it.leaf \in DOMAIN heap
               /\ Find(t, KeyAt(it)) = {heap[it.leaf].values[it.index]}
               /\ i > 0 => KeyAt(at[i - 1]) < KeyAt(it)
          /\ at[size[t]] = End

\* The trees are maps: an insertion takes effect in one step, and the splits on its
\* way change nothing that can be seen.
Contents(t) ==
    UNION {{<<heap[n].keys[i], heap[n].values[i]>> : i \in DOMAIN heap[n].values} :
             n \in Subtree(heap, root[t])}
Maps == INSTANCE OrderedMaps WITH content <- [t \in Trees |-> Contents(t)]
ImplementsMaps == Maps!Spec
=============================================================================
