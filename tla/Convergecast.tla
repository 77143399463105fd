---------------------------- MODULE Convergecast ----------------------------
(***************************************************************************)
(* Both convergecasts of the repository on one spanning tree:              *)
(* startAsync(), of AsyncConvergecast, and the recursive start() and       *)
(* back() of src/src/include/BPY/SpanningTree/node.hpp.  build() and the   *)
(* counters are the same code in both.  Every node is reset when start()   *)
(* comes to it, not all before the first message.                          *)
(***************************************************************************)
EXTENDS AsyncConvergecast

VARIABLES sync,        \* the classes in use: those without inboxes
          calls        \* start() and back() calls on the stack, the top one last

vars == <<asyncVars, sync, calls>>

StartCall(n)   == [of |-> "start", node |-> n, next |-> 0, value |-> 0]
BackCall(n, x) == [of |-> "back", node |-> n, next |-> 0, value |-> x]

CastInit == Init /\ sync \in BOOLEAN /\ calls = <<>>

StartSync ==
    /\ sync /\ root # Nil /\ ~Building /\ ~running /\ runs < MaxRuns
    /\ calls' = <<StartCall(root)>>
    /\ running' = TRUE /\ runs' = runs + 1
    /\ received' = <<>> /\ printed' = <<>>
    /\ UNCHANGED <<graph, tree, pending, accumulated, inbox, unscanned, progress, sync>>

Top   == Last(calls)
Below == Front(calls)

\* The call returns, to one that does nothing after it.
Returns == calls' = Below

\* parent->back(), or the total is printed.
HandOn(n, total) ==
    IF IsRoot(n) THEN printed' = Append(printed, total) /\ Returns
                 ELSE calls' = Append(Below, BackCall(parent[n], total)) /\ UNCHANGED printed

\* Faulty variant: start() keeps the sum of the last run.
EnterAdding(n) ==
    /\ Top.of = "start" /\ Top.node = n /\ Top.next = 0
    /\ received' = Append(received, n)
    /\ pending' = [pending EXCEPT ![n] = Len(children[n])]
    /\ IF IsLeaf(n) THEN HandOn(n, LocalValue(n))
       ELSE calls' = Append(Below, [Top EXCEPT !.next = 1]) /\ UNCHANGED printed
    /\ UNCHANGED accumulated

\* start(): the message is printed and the counters are reset.
Enter(n) ==
    /\ Top.of = "start" /\ Top.node = n /\ Top.next = 0
    /\ received' = Append(received, n)
    /\ pending' = [pending EXCEPT ![n] = Len(children[n])]
    /\ accumulated' = [accumulated EXCEPT ![n] = 0]
    /\ IF IsLeaf(n) THEN HandOn(n, LocalValue(n))
       ELSE calls' = Append(Below, [Top EXCEPT !.next = 1]) /\ UNCHANGED printed

\* start(): the loop over the children.
NextChild(n) ==
    /\ Top.of = "start" /\ Top.node = n /\ Top.next > 0
    /\ IF Top.next <= Len(children[n])
       THEN calls' = Below \o <<[Top EXCEPT !.next = @ + 1], StartCall(children[n][Top.next])>>
       ELSE Returns
    /\ UNCHANGED <<pending, accumulated, received, printed>>

AnswerCall(n) ==
    LET left == pending[n] - 1
        sum  == accumulated[n] + Top.value
    IN  /\ Top.of = "back" /\ Top.node = n
        /\ accumulated' = [accumulated EXCEPT ![n] = sum]
        /\ pending' = [pending EXCEPT ![n] = left]
        /\ IF AllAnswered(left) THEN HandOn(n, Total(n, sum)) ELSE Returns /\ UNCHANGED printed
        /\ UNCHANGED received

Called ==
    /\ calls # <<>>
    /\ \E n \in Vertices : Enter(n) \/ NextChild(n) \/ AnswerCall(n)
    /\ running' = (calls' # <<>>)
    /\ UNCHANGED <<graph, tree, inbox, unscanned, progress, runs, sync>>

Async(step) == ~sync /\ step /\ UNCHANGED <<sync, calls>>

Next ==
    \/ Async(AsyncNext)
    \/ sync /\ (GrowGraph \/ BuildTree) /\ UNCHANGED <<sync, calls>>
    \/ StartSync \/ Called

\* startAsync() and start() are plain calls: once begun they go on.
Spec == CastInit /\ [][Next]_vars /\ WF_vars(Async(Scheduler)) /\ WF_vars(Called)

-----------------------------------------------------------------------------
(* Properties                                                              *)

TreeTotal == SumFunction([n \in Nodes |-> LocalValue(n)])

\* The values that are under way in BACK messages and back() calls.
Values(msgs) == SumFunction([i \in DOMAIN msgs |-> msgs[i].value])
InFlight == SumFunction([n \in Nodes |-> Values(inbox[n])]) + Values(calls)

\* The nodes that have not handed on their sum in this run, and what they hold.
Reached == ToSet(received)
Unreported == {n \in Nodes : n \notin Reached \/ (~IsLeaf(n) /\ pending[n] > 0)}
Held(n) == LocalValue(n) + IF n \in Reached THEN accumulated[n] ELSE 0

\* No value is lost or counted twice on its way up: what the nodes hold back and what
\* is in the inboxes and the calls is the tree's total, until it is printed.
ValueConserved ==
    running /\ printed = <<>> =>
      InFlight + SumFunction([n \in Unreported |-> Held(n)]) = TreeTotal

\* A run prints one total, that of all the nodes, and only after every node of the
\* tree has received the message, once, and its parent before it.  No node waits for
\* more answers than it has children, and no run leaves a message for the next.
OneTotal ==
    /\ \A n \in Nodes : pending[n] \in 0..Len(children[n]) /\ (~running => inbox[n] = <<>>)
    /\ printed # <<>> => printed = <<TreeTotal>> /\ Reached = Nodes
    /\ IsInjective(received)
    /\ \A i \in DOMAIN received : ~IsRoot(received[i]) =>
         \E j \in 1..(i - 1) : received[j] = parent[received[i]]

\* Every run ends, and with its total printed, in whatever order the nodes are scanned.
RunCompletes == running ~> (~running /\ printed # <<>>)
=============================================================================
