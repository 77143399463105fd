-------------------------- MODULE AsyncConvergecast --------------------------
(***************************************************************************)
(* startAsync() of src/src/include/BPY/SpanningTree/async: a GO wave down  *)
(* the spanning tree and the sums coming BACK, as messages in the nodes'   *)
(* inboxes.  The scheduler scans an unordered_map of nodes again and       *)
(* again, taking at most one message of each per scan: the order of a scan *)
(* is not known, so any order is allowed, for every scan anew.             *)
(***************************************************************************)
EXTENDS SpanningTree

CONSTANT MaxRuns       \* bound: calls of startAsync

VARIABLES pending,     \* node -> pendingChildren
          accumulated, \* node -> accumulated
          inbox,       \* node -> messages, oldest first
          unscanned,   \* nodes the current scan has not come to
          progress,    \* the current scan has taken a message
          running,     \* the scheduler is in its loop
          received,    \* the nodes that printed "received" in this run, in order
          printed,     \* the totals printed in this run
          runs         \* runs so far

cast == <<pending, accumulated, inbox, unscanned, progress, running, received, printed, runs>>
asyncVars == <<graph, tree, cast>>

GO      == [type |-> "GO", value |-> 0]
BACK(x) == [type |-> "BACK", value |-> x]

LocalValue(n) == n * 10
IsRoot(n)     == parent[n] = Nil
IsLeaf(n)     == children[n] = <<>>

Init ==
    /\ BuildInit
    /\ pending = NoNodes /\ accumulated = NoNodes /\ inbox = NoNodes
    /\ unscanned = {} /\ progress = FALSE /\ running = FALSE
    /\ received = <<>> /\ printed = <<>> /\ runs = 0

\* The graph may grow before the tree is built, and after.
GrowGraph == ~running /\ Grow /\ UNCHANGED cast

\* Building the tree; new nodes have empty inboxes.
BuildTree ==
    /\ ~running /\ BuildNext
    /\ inbox' = [n \in DOMAIN parent' |-> <<>>]
    /\ pending' = [n \in DOMAIN parent' |-> 0]
    /\ accumulated' = [n \in DOMAIN parent' |-> 0]
    /\ received' = <<>> /\ printed' = <<>>
    /\ UNCHANGED <<unscanned, progress, running, runs>>

\* resetState(): pendingChildren.
ResetState(n) == Len(children[n])

\* startAsync() up to the scheduler's loop.
StartAsync ==
    /\ root # Nil /\ ~Building /\ ~running /\ runs < MaxRuns
    /\ pending' = [n \in Nodes |-> ResetState(n)]
    /\ accumulated' = [n \in Nodes |-> 0]
    /\ inbox' = [inbox EXCEPT ![root] = Append(@, GO)]
    /\ unscanned' = Nodes /\ progress' = FALSE
    /\ running' = TRUE /\ runs' = runs + 1
    /\ received' = <<>> /\ printed' = <<>>
    /\ UNCHANGED <<graph, tree>>

\* inbox' when node n has taken its first message and sent message m to each node of
\* the set.
Sent(n, to, m) ==
    [x \in Nodes |-> LET box == IF x = n THEN Tail(inbox[x]) ELSE inbox[x]
                     IN  IF x \in to THEN Append(box, m) ELSE box]

\* Where a sum goes: to the parent, or to the output.
Report(n, total) ==
    IF IsRoot(n) THEN /\ printed' = Append(printed, total)
                      /\ inbox' = Sent(n, {}, GO)
                 ELSE /\ inbox' = Sent(n, {parent[n]}, BACK(total))
                      /\ UNCHANGED printed

Go(n) ==
    /\ Head(inbox[n]).type = "GO"
    /\ received' = Append(received, n)
    /\ \/ IsLeaf(n) /\ Report(n, LocalValue(n))
       \/ ~IsLeaf(n) /\ inbox' = Sent(n, ToSet(children[n]), GO) /\ UNCHANGED printed
    /\ UNCHANGED <<pending, accumulated>>

\* Faulty variant: the sum is sent with the first answer.
FirstAnswer(left) == left >= 0

AllAnswered(left) == left = 0
Total(n, sum) == sum + LocalValue(n)

Back(n) ==
    LET left == pending[n] - 1
        sum  == accumulated[n] + Head(inbox[n]).value
    IN  /\ Head(inbox[n]).type = "BACK"
        /\ accumulated' = [accumulated EXCEPT ![n] = sum]
        /\ pending' = [pending EXCEPT ![n] = left]
        /\ IF AllAnswered(left) THEN Report(n, Total(n, sum))
                                ELSE inbox' = Sent(n, {}, GO) /\ UNCHANGED printed
        /\ UNCHANGED received

\* The scan comes to a node, and takes a message if there is one (processMessage).
ScanNode(n) ==
    /\ running /\ n \in unscanned
    /\ unscanned' = unscanned \ {n}
    /\ \/ inbox[n] # <<>> /\ progress' = TRUE /\ (Go(n) \/ Back(n))
       \/ inbox[n] = <<>> /\ UNCHANGED <<progress, pending, accumulated, inbox, received, printed>>
    /\ UNCHANGED <<graph, tree, running, runs>>

\* Faulty variant: every node is scanned once.
ScanOnce == FALSE

Again == progress

\* The end of a scan: another one, unless nothing was taken.
ScanEnds ==
    /\ running /\ unscanned = {}
    /\ running' = Again
    /\ unscanned' = IF Again THEN Nodes ELSE {}
    /\ progress' = FALSE
    /\ UNCHANGED <<graph, tree, pending, accumulated, inbox, received, printed, runs>>

Scheduler == ScanEnds \/ \E n \in Vertices : ScanNode(n)

AsyncNext == GrowGraph \/ BuildTree \/ StartAsync \/ Scheduler
=============================================================================
