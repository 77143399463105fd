# Ws_Server: TLA+ models, model checking and proofs

This directory holds TLA+ modules that model the programs and classes of this
repository, the TLC configurations that check them on small instances, and
TLAPS proofs of the properties that matter most. File and line references are
relative to `src/` of the repository unless they say otherwise.

## 1. Inventory

The repository is a collection of largely independent parts: a WebSocket echo
server with a line client and two pairs of `main()` programs, a request router
with a login handler and a data handler, a write-ahead logged transaction, a B+
tree, spanning-tree algorithms, and message-bus, parser and crypto samples.

| Component | State it keeps | Operations | What makes it correct |
|---|---|---|---|
| **WebSocket server** `web/server.cpp` | `stopped_`, the acceptor, the accept coroutine, one coroutine per session, the `io_context` | accept loop, session loop, `request_stop()` from a session or another thread | `run()` returns only after a stop request, and does return after one; no accept is left behind; nothing is served after the stop except what was under way; failed accepts do not end the service |
| **Line client** `web/client.cpp`, `client_main.cpp`, `main.cpp` | socket, `read_buffer_`, the coroutine and its future, work guard, io thread | connect, send a line, read a line, close; prompt loop and shutdown sequence of `main()` | request and reply stay in step; no request hangs; threads are joined in the right order |
| **Server program** `server_main.cpp` | `io_context` | `start()`, `run()` | returns when the server stops |
| **Login handler** `RequestRouter/loginhandler.cpp` | `accountTable`, `uuidTable`, `nameToUUID`, `tombstonedAccountsTable`, `activeSession`, a session | LOGIN, CREATE, LOGOUT, DEL | the five tables and the session agree after any sequence of requests |
| **Transaction** `transactions/transaction.cpp` | balance (shared), saved state, flag, buffered stream, log file | constructor, `commit()`, destructor | log and balance agree whichever write fails |
| **B+ tree** `BPY/fbptree` | nodes, root, size | insert, find, iterate, clear, copy, move | a sorted map; copies are independent |
| **Spanning tree, convergecasts** `include/BPY/SpanningTree`, `async` | adjacency, nodes, inboxes or a stack of calls, counters | `addEdge`, `build`, `startAsync`, `start`, `back` | the tree is a shortest-path tree; a run ends with the right total in any order |
| **Router, data handler** `RequestRouter/router.cpp`, `datahandler.cpp` | transaction result and status, files | dispatch; NOP, TX, RX, NEW, CP, MV, DEL, AP | an answer tells what became of the files, and nothing else changes |
| **Pipe buffer, JSON line parsers** `MessageBus/policyprotocols/pstream.hpp`, `include/parser` | put and get areas, the line being read, a fifo | open, write, flush, close; read a line until the end | no byte is lost, repeated or put into another line |
| **Named pipes** `MessageBus/dispatcher.cpp` | a path, a fifo | `opstream`, `ipstream`, `NamedPipe` | a writer and a reader meet, whoever comes first and whoever removes the fifo |
| **AF_UNIX sockets** `MessageBus/policyprotocols/af_unix.hpp` | a path, a socket | bind and wait, connect | client and server meet |
| **Directory crawler** `BPY/DirectoryCrawler` | list of directories, last error | crawl, accumulate | outputs agree with the return value |
| Message-bus policies, crypto, utilities, samples, vendored libraries | none or a library's | single calls | nothing a state machine would say |

### How the parts interact

- `main.cpp` runs server and client in one process: the server's `io_context` on
  one thread, the client's on another, and the main thread between them, which
  blocks on futures and calls `request_stop()`. `client_main.cpp` and
  `server_main.cpp` are the same in two processes.
- The server's coroutines share one thread and, with other threads, `stopped_`,
  the acceptor and the `io_context`.
- The router calls the login handler or the data handler; neither is called by
  the server at this commit.
- The two pipe programs share a path in the file system and the kernel's buffer
  behind it; the parsers read from the streams the pipes give them.
- All other parts are used by no other one.

### Hard behaviours

Interleavings of `request_stop()` with the accept loop and the sessions;
descriptor exhaustion; peers that stop talking, close or reset at any point;
futures that are never fulfilled; a stop issued by another peer; streams whose
flush fails, half or whole, and whose close retries or reports nothing; a machine
crash, or the death of the process between two calls that change files; a fifo
one side removes while the other is about to open it, pipes that are full, writes
that are interrupted, readers that go; chains of splits with an iterator's `next`
pointers across copies; message orders that depend on an `unordered_map`. `PROJECT.json`
lists each at its line under `hazards`, with the properties that cover it, or the reason why none does.

## 2. The modules

### Server: `ServerLifecycle`, `WsServer`, `EchoProofs`, `MCWsServer`

`ServerLifecycle` is the abstract promise: while up, the server takes every
connection; a stop request takes it down for good; once destroyed, nothing is
left open. `WsServer` is the code. A coroutine's code between two suspension
points is one handler, which starts only when the one io thread is free
(`CanDispatch`); but steps another thread can observe in between are steps of
their own: `request_stop()` is exchange, cancel, close, `io_.stop()`
(`StopExchange`, `StopCancel`, `StopClose`, `StopIo`), and the accept loop's test of
`stopped_` is apart from the initiation of the accept (`LoopTest`,
`AcceptInitiate`), so `main` can run the whole of `request_stop()` between the two.
Peers are external: they connect, send frames, close or reset. A frame is an
upgrade request, a text, the termination command, or the beginning of something
that never comes. An accept fails with certainty when the process has `FdLimit`
sockets, and may fail from `FdSure` on, since other parts of a process and of the
machine hold descriptors too. The module serves both programs: `main.cpp` has a main
thread that may call `request_stop()` (`stopPc["main"]` starts "idle"),
`server_main.cpp` has none ("absent"). A `main.cpp` whose thread is still in
`getline` or waits for a reply keeps the server, and with it the stopped
`io_context` and its open connections, so `Teardown` waits until that thread has
been through its own `request_stop()`. The shutdown has one inductive invariant,
`ShutdownSound`: how far it has come shows in the acceptor, in the accept in flight
and in the `io_context`, and the one caller that is in it is alive.

Not in the model: TLS (there is none), port-in-use at construction, and the
server's log output. The server writes no application data at this commit, so
there is no write to model.

### Client: `EchoClient`, `EchoLoop`, `EchoSystem`, `EchoProofs` and MC modules

`EchoClient` has the coroutines and the main thread, and says nothing of the far
end. `inProcess` is chosen at the start: `main.cpp`, where an exception is caught
by nobody and the server has to be stopped and joined too, or `client_main.cpp`.
`EchoLoop` conjoins the client with a server that does echo and may close at any
time, which is what `client.cpp` is written for. `EchoSystem` extends both and
conjoins the client with the steps of `WsServer`, the server that is really there, and
another peer. `MCEchoClient` runs one or the other, chosen at the start.

Composing the two shows what happens in this repository: the client writes a raw
line where the server expects an HTTP upgrade. The handshake rejects it and the
session ends, or, if the line looks like the beginning of a request (`Phrases`),
waits for more for ever. The server writes no reply in either case. So
`EchoArrives`, which a comment states, is violated, and for the same reason the
client's "/shutdown" never gets as far as the server's comparison with the
termination command: no session of such a client reads a message, although the
prompt of `client_main.cpp` says "Send /shutdown to stop server".

What does hold is that a rejected line returns, with an exception
(`RejectedLineReturns`), but for two ways to wait for ever, which the property
names and no document speaks about. `Forsaken`: in `main.cpp`, another peer's
termination command stops `server_io` while the main thread waits for a reply; the
session of its own client is then neither served nor closed. `Starved`: silent
peers hold every descriptor the server may have, and the client's connection stays
in the backlog. Both are final, and TLC reports a violation when either is left out
of the property.

### Login: `LoginHandler`, `LoginHandlerProofs`, `MCLoginHandler`

One action per command, each with the code's refusals; `find_if` over an unordered
map is a choice among the matches. Names have spellings that fold to one another
(`Fold`), passwords are compared exactly, a deletion sets the tombstone password,
which a user may also type. A refusal sets the result and the session the code
sets, and leaves the uuid as the caller gave it. `LogCmd` has the four values of the
actions and nothing in `src/` casts to it, so the `default` of the switch is not
there. A token is its serial number: nothing in the code
reads a token back, so its contents and expiry are left out.

### Transaction: `Transaction`, `TransactionProofs`, `FiniteFolds`, `MCTransaction`

The stream is modelled as libstdc++ implements `std::ofstream`: text whose flush
failed stays in the buffer, the stream is bad and drops later output, and closing
the file tries the buffer once more and reports nothing. A write may fail half
way and leave a fragment to which the next line is glued. `durable_flush` calls
`fsync` on standard input, so the file reaches the disk when the operating system
likes (`Writeback`), and a crash (`Crash`) takes the rest. So a COMMIT line can
appear for a transaction that did not commit (behind a failed flush, at close):
that is exactly what `CommitLineMeansCommit` allows. And a committed one can lose
its line in a crash. The properties that hold speak of the log as the operating
system has it (`CommitLoggedFirst`: what the death of the process leaves). What the
comments at lines 22 and 53 say, that the line is on the disk first, is
`CommitOnDisk`, and it is violated. (The code marks the `fsync(fileno(stdin))` as a
simplification itself, `src/transactions/transaction.cpp:23`.)

### Router and data handler: `FileTree`, `FileService`, `DataHandler`, `RequestRouter`, `RequestRouterProofs`, `MCRequestRouter`

`FileTree` is the file system both others speak of: every path holds nothing, a
directory or a file made of blocks. `FileService` is the abstract promise: a
request takes effect in one step, and its answer says what became of the files.
It is written to be exactly as strong as the code: SUCCESS stands for the whole
data, or, if the flush in the stream's destructor failed unnoticed, for a part of
it; WRITE_FAILURE for a part, and for a move the source is gone even so; a refusal
changes no file, though directories may have been made; an exception leaves the
status PENDING; an append never sets the status; a move of a file onto itself
removes it. What no case allows is a change to a path the request does not name.

`DataHandler` is the code: one step per call that may fail or throw (read,
`create_directories` and open, write, remove, close, send), and the process may
die between any two (`Die`). An `ofstream` keeps a text shorter than `BufLen` in its
buffer and writes a longer one through, so `good()` is asked sometimes after the
write and sometimes before it. `request`, `found`, `sent` and `silent` are ghosts: the request
and the disk as they were, what went to the peer, and whether a flush failed
unnoticed. `OP` has the eight values of `Commands` and nothing in `src/` casts to it, so
there is no value that falls through the switch. What the disk looks like is the
file system's doing and part of the proofs' invariant; the type invariant is about the
handler: only a copy's target becomes its destination (`TargetKept`), and a status
that is no longer PENDING tells the result of the last call (`StatusTold`). `RequestRouter` is `dispatch()`: the request type and the alternative the
variant holds are independent, so there is a wrong-typed payload that is called a
success (`DispatchMismatch`) and a type nobody knows. Functions no command reaches
(`appendBinaryFile`, `writeToFile`, `sendBinaryToStdout`) are left out.

### Pipes: `LineChannel`, `PipeStream`, `PipeStreamProofs`, `NamedPipe`, `MCPipes`

`LineChannel` is the abstract promise: bytes the writer's stream accepted reach the
reader in their order, cut where the newlines are, and are lost only when a party
fails, or behind the last newline of a pipe under an asynchronous reader.
`PipeStream` is the code: on one side `BasicPipeBuf` with its put area, on the other
either a `BasicPipeBuf` under `SyncJsonParser` or the descriptor of `NamedPipe()`
under `AsyncJsonParser` (`async`), over one fifo after the other with the same stream
objects. The kernel is external: opens wait for one another unless the reader is
`O_NONBLOCK`, they may fail at once or while they wait (`WriterOpenFails`,
`ReaderOpenFails`), writes up to `PIPE_BUF` are atomic, one that waits may be interrupted,
one without a reader kills the process. Two things the code does are excluded by
name where a property would not hold: a close whose flush fails keeps its bytes,
which go into the next pipe (`stuck`), and a reader that leaves early, or opens
before there is a writer, meets an end that is none (`failed`).

`NamedPipe` has `opstream()` and `ipstream()`, called again and again by two
processes, one step per system call. Between `mkfifo` and `open` the other side may
remove the path: then the writer's stream makes a regular file there, and the
reader's does not open. `ExchangeCompletes` therefore promises a meeting only for
calls that start when both sides are at rest; calls that overlap with an earlier
one of the other side do miss each other, and one may wait for ever on a fifo
without a name. `MCPipes` runs one of the two (`stream`). A null `fifo_path`, which the
functions dereference, and a stream opened for both directions (`O_RDWR`) are
outside the model.

### B+ tree: `OrderedMaps`, `FBPlusTree`, `FBPlusTreeProofs`, `MCFBPlusTree`

Nodes of all trees live in one heap, so a pointer can lead out of its tree. One
step is one call of `insert_non_full`, so the invariants hold between a split and
the insertion it is made for. `OrderedMaps` is the abstract promise, and the tree
implements it: an insertion takes effect at one step and splits are invisible.
Iterators are followed in a tree at rest; nothing in the code says that they
survive insertions. A defaulted move copies `size_`, so an object that was moved
from keeps its old size until it is cleared, assigned to or inserted into; the model
does the same, and `IterationComplete` speaks of objects that have a root.

### Spanning tree: `SpanningTree`, `AsyncConvergecast`, `Convergecast`, `ConvergecastProofs`

`SpanningTree` has the graph and `build()`, one step per round of its loop. The graph
may grow between two builds; the tree does not hear of it, so `ShortestPaths`
compares a tree with the graph it was built from (`stale`).
`AsyncConvergecast` adds messages, inboxes and the scheduler of `startAsync()`. The
code scans an `unordered_map`; the model lets every scan take the nodes in any
order, which is more than one build can do. `Convergecast` puts the synchronous
class beside it (`sync`): `start()` and `back()` call one another, and a stack of calls
(`calls`) stands for the inboxes. Tree and counters are the same code in both, so
both are held to the same properties; they differ in that `start()` resets a node
when it comes to it, not all nodes before the first message.
(`async/spanning_tree.hpp` includes `Graph.hpp` and `Node.hpp`, but the files are
`graph.hpp` and `node.hpp`: it compiles on case-insensitive file systems only.)

### Faulty variants

Definitions marked "Faulty variant" stand before the one they distort and are
used by no action. Put in its place, each makes TLC report a violation of the
property `PROJECT.json` names under `mutants`: the property can fail, and the run is
large enough to see it.

## 3. What the runs check

| Run | Instance | What it shows |
|---|---|---|
| `server_safety` | 3 peers, 2 descriptors, 2 frames, symmetry | types; `NoAcceptLeftPending`, `ShutdownSound`, `StopIsPrompt`; `ServerLifecycle` implemented |
| `server_live` | 2 peers, accepts may fail from the 2nd socket on, 2 frames, with and without a main thread that stops | `StopCompletes`, `TerminationStops`, `BacklogServed` |
| `echo_client` | `EchoLoop`: 3 lines, one of them the shutdown line. `EchoSystem`: both programs, one other peer, 2 frames, accepts may fail from the 2nd socket on | `InStep`, `RequestReturns`; `ExitJoinsAll`, `EofEnds`, `RejectedLineReturns` |
| `echo_reply` | `EchoSystem` without frames | violated: `EchoArrives` |
| `login` | 3 spellings, 2 passwords and the tombstone, 2 new accounts, 3 logins | `ActiveUnique`, `DeletedIsTombstone`, `IndexLeadsToActive`, `SessionAgrees`, `CopiesFrozen` |
| `login_usernames` | the same, 1 login | violated: `UsernamesUnique` |
| `transaction` | 3 transactions one after the other | `CommitLoggedFirst`, `OneOutcome`, `CommitLineMeansCommit`, `BalanceIsCommitted` |
| `transaction_disk` | the same | violated: `CommitOnDisk` |
| `requests` | a directory, a file in it and one beside it; files of up to 2 blocks of 2 kinds | `TargetKept`, `StatusTold`; `MoveKeepsContent`, `AcceptedMeansAnswered`; `FileService` implemented |
| `pipes` | 2 fifos of 3 bytes, 5 bytes of text to each, buffers of 2; 3 calls of `opstream` and `ipstream` | `OwnPipe`, `LinesArrive`, `ExchangeCompletes`; `LineChannel` implemented |
| `fbptree` | degree 2; 7 keys in one tree; 4 keys, 6 nodes and one clear, copy or move with two | `OneOwner`, `IterationComplete`; `OrderedMaps` implemented |
| `convergecast` | graphs of 4 vertices and up to 3 edges that grow between builds, 2 runs, asynchronous or synchronous | `ShortestPaths`, `ValueConserved`, `OneTotal`, `RunCompletes` |

The three violations are disagreements between a comment or message and the code:
`PROJECT.json` quotes them under `findings`.

### The bounds and why they are enough

- Server: two frames are an upgrade and one message, so a session can reach the
  termination command while another is in its handshake or silent. Three peers on
  two descriptors is the least with which one waits in the backlog while two are
  served and an accept fails for certain. Both stoppers are always there.
- Echo system: the other peer can send its upgrade and its termination command;
  the client may type any number of lines. With one descriptor certain, either of
  the two connections may keep the other in the backlog.
- Login: two new uuids suffice for two accounts of one name, a third (the
  administrator's) for a name never deleted, and three logins for a login over
  another's session and over one's own.
- Transaction: a fragment left by one transaction is glued to the line of the
  next, and a third shows that the file recovers. Runs keep to one object alive at
  a time (`MaxLive`), as `main()` does. With two alive, the rollback of one undoes
  the commit of the other; that is what the code does, and `CommitLoggedFirst`
  and `BalanceIsCommitted` do not speak about it.
- Requests: the file in a directory makes creation of parents and removal of a
  directory with content happen; two blocks are on both sides of `BufLen`, so a
  text is buffered or written through, and fails before its first or after it.
  Any request may follow any other, on whatever the earlier ones left.
- Pipes: a buffer of 2 in a fifo of 3 is the least at which a full pipe refuses a
  whole buffer; lines of 2 and texts of 5 straddle buffers and leave a line without
  a newline at the end. Two fifos show what one leaves to the next. Three calls are
  two of history before the pair that has to meet.
- B+ tree: degree 2 is the smallest the code's arithmetic allows (the code's is
  32); with it seven keys make a leaf split, an inner split and both kinds of root
  split. Two trees of four keys have two leaves each, the least for a `next`
  pointer to go astray.
- Convergecast: four vertices and three edges are every tree up to that size,
  loops, repeated edges, a triangle and disconnected graphs; two runs show what
  one leaves to the next.

### Fairness

- `WsServer`: weak fairness for a thread inside a handler or inside
  `request_stop()` and for the return from `run()`; strong fairness for the
  handlers of the accept loop and of each session, because completed operations
  wait in the FIFO queue of the `io_context` and the one thread is busy in
  between. Nothing obliges a peer to send or close, or `main` to ask for a stop:
  `main.cpp`'s thread may wait for ever in `getline` or for a reply, and
  `StopCompletes` then promises only that `run()` returns. The connections are
  released (`Released`) in `server_main.cpp`, and in `main.cpp` once its thread has
  asked for the stop itself.
  That a descriptor becomes free is up to them too: the code has no timeout that
  ends a silent session.
- `EchoLoop`, `EchoSystem`: the threads go on; the user may pause for ever and the
  echoing server may vanish.
- `PipeStream`: the reader's loop goes on as long as it is in it (`ReadStep`). The
  writer may pause for ever, and nobody has to open or close.
- `NamedPipe`: both processes run on inside their calls; nobody has to call again,
  and whether a call that waits in `open` returns is up to the other side.
- `Convergecast`: `startAsync()` and `start()` are plain calls, so the scheduler's loop
  and the recursion go on.
- The other modules are checked for safety only and assume no fairness.

## 4. What is proved

The proofs hold for every set of connections, lines, transactions and paths, every
limit and every size, from the assumptions named in the modules.

`EchoProofs` is about the server and its client. For `WsServer`, `TypeCorrect` comes first; it
includes that the accept loop waits exactly while an accept is in flight
(`AcceptPhases`), and that a socket that was accepted belongs to one connection
(`AcceptedOnce`). The invariant of the shutdown,
`ShutdownSound`, is inductive relative to it; no part of it alone is: that no
accept is pending on a closed acceptor depends on who may still initiate one, which
depends on how far each stopper has come, which depends on the exchange on `stopped_`
admitting only one of them, and the io thread being in `request_stop()` only for a
session that is in its handler. `ShutdownOrdered` proves it, and `NeverReturnsEarly`,
`ShutdownIsSingle` and `NoAcceptLost` follow. `StopPrompt` is an action property proved
from the type invariant. `LifecycleImplemented` maps the initial state and every step of
the server to `ServerLifecycle`, or to a stutter. That a stop completes, the abstract
module does not say; it is `StopCompletes`, which TLC checks.

For the client, `RepliesInStep` follows from an invariant that ties the lines under way
to the coroutine (`LoopInv`): there is one only while its reply is read, and it is the
line that was sent. `ExitSound` needs both halves of the composed system: where the
main thread is says what it has closed and joined; that nobody is inside
`request_stop()` behind a destroyed server needs `StopperAlive` of `WsServer`, which is
shown again for the composed system, where a client writes and hangs up in ways no
peer of `WsServer` does.

`LoginHandlerProofs`. The invariant is `Consistent`: the four table properties and
`Registered` (every account's uuid is in the table new ones are checked against),
without which a creation could overwrite an account and break all the others.
`TablesConsistent` proves it; each property, and the action property
`CopiesNeverChange`, has a theorem of its own.

`TransactionProofs`. Lemmas about the file (a write that fails, tears a line or is
retried never loses a whole line, and adds no other) carry the invariant `LogInv`,
which ties the lines in the log to flags and phases, for any number of overlapping
transactions: `CommitLineSound` and `OutcomeUnique`. Under `MaxLive = 1`, which is
what `main()` does, `AloneInv` adds that the balance of an open transaction is the one
it saved, and gives `CommitIsLoggedFirst` and `BalanceMovesByCommit`: no step moves the
balance but a commit, by its own modification. `BalanceSound` adds these steps up: the
balance is the initial one and the sum of the modifications of the transactions that
committed, plus that of the one whose COMMIT is being applied (`BalanceInv`).

`ConvergecastProofs`. Three invariants, one on top of the other. `TreeInv`: `parent` and
`children` are the two directions of one forest in the graph, and the queue holds nodes
without children. `DepthInv`: there is a depth of nodes (`Grown`) that is one more than
the parent's, ascends along the queue by at most one in all, and, as long as the graph
has not grown since, goes by edges and never grows by more than one along an edge from
a node that is done (`ByEdges`); it is a ghost the code does not keep,
and it makes `ShortestPathsHold` a statement about every path, by induction over its
length. `CastInv` is about a run:
`WaitsForAnswers` counts the answers a node still waits for, as children that have not
reported and as messages or calls under way; `ParentsWait` says that reports leave from
the leaves upward; `InboxInv` and `CallsInv` say what an inbox and the stack of calls can
look like, which is where the two classes differ. `ValueIsConserved` is a conjunct of
it: the sums held and those under way make up the tree's total at every step.
`OneTotalHolds` follows, for every graph, number of runs and order of the scans.

`FBPlusTreeProofs`. The invariant `Core` has two ghosts the code does not keep: the
rank of a node, its height above the leaves, and its owner, the tree it is in. `Linked`
says that a child is one rank lower and in the same tree, `Rooted` that a node is the
root of its tree or a child, at one place. By induction over ranks they give what the
recursive function `Subtree` returns: the nodes with that owner (`SubtreeOwned`).
`Occupied` bounds the keys of a node from both sides: the halves of a full node are
not too small, which is where the degree matters. `Pending` says that the node the
insertion is at takes one more key, so that a split below it has room in it, and that
free nodes are left for the splits that may come. Each operation is shown to keep all
four for every degree, heap and number of trees, a copy by the bijection between the
nodes of the source and the free ones: `TypeCorrect` and `OneOwnerHolds`.

What the trees contain needs a third ghost, the zone of a node: the keys an insertion
takes there (`MapInv`). A split divides the zone of the node between its halves at the
promoted key, the leaves of a tree have disjoint zones, and the root's has every key;
so the leaf the insertion ends in is the only one that can have its key. With that each
step is mapped to one of `OrderedMaps` or to a stutter: `ImplementsMapsHolds`.

`IterationHolds` says the same of iterators, in the middle of an insertion too. It needs
two more facts about every step. `Chained`: a leaf's `next` is the one whose zone comes
next, or null if no leaf's does. A split keeps it because the new leaf takes the upper
part of the zone and stands behind the old one. A copy keeps it because the leaves
below the root (`Leaves`, a recursive function) are all leaves of the tree in the
order of their zones (`TreeRow`), so the leaf the copy links to is the copy of `next`.
`Sized`: `size_` is the number of keys, because a leaf has the key of an insertion
exactly if the tree has it (`PutPlace`). Then `operator++` goes from each key to
the next larger one or, from the largest, to the end (`AdvancedFacts`); `begin()` is
at the least, the leftmost leaf (`LeftmostFacts`); `find()` goes to the leaf of the key's
zone (`FindLeafFacts`); and a walk that skips none of n numbers takes n steps (`WalkWhole`).

`FiniteFolds` holds the lemmas these modules share: about sums over sets, about
functions defined by recursion down a rank, about walks along a set of numbers, and
about sequences: pieces, insertions, ascending ones and a sequence of sequences
made one (`FlattenSeq`). The community modules define a fold by a recursive function, and say nothing of what it
returns; the lemmas do, and prove it from least elements: of a set of natural numbers,
and of a family of finite subsets (both are instances of the library's theorems on
well-founded relations). Every induction of these proofs has that form: the set of
counterexamples has a least element, which is none.

`RequestRouterProofs`. `Inv` says, for each step the handler may be at, what is on the
disk in terms of what the request found there (`Busy`); it has a step for each call,
and for each way the call ends; it also says that the disk stays a tree. From it come `TypeCorrect`, `AcceptedIsAnswered`,
`MoveKeeps`, and the refinement `ServiceImplemented`: inside a request the service's
files stay those the request found, and the step that ends it is one of the answers
`FileService` allows.

`PipeStreamProofs`. `TypeCorrect`: no buffer holds more than its size, through partial
writes, full pipes and failed flushes. `PipesApart`: bytes of one pipe never get into
another unless a close could not flush, because the put area is empty whenever a
pipe is opened. `ChannelImplemented` is the refinement of `LineChannel`. The abstract
queue is the line the reader has begun, its get area, what is in the pipes one after
another, and the put area. A step changes one pipe, so the proof splits the queue into
what is before that pipe, the pipe, and what is behind (`QueueSides`); laws of
concatenation then say which bytes moved. The invariant `Kept` says where bytes can
be: nothing in the put area of a closed writer whose flush succeeded (`Flushed`), no
pipe left before it was read to its end (`ReadAll`), bytes in a pipe only while a party
has it open (`Held`), and, of the two parties in a pipe, the reader does not leave
first unless it fails (`Together`).
Each step is one of `Accept`, `Deliver`, `DropUnfinished`, `Lose` and `Cut`, or a stutter.

Every invariant, action property and refinement the passing runs check is proved.
Only model-checked are the liveness properties, since fairness and `ENABLED` are out of
the prover's reach: `StopCompletes`, `TerminationStops`, `BacklogServed`,
`RequestReturns`, `EofEnds`, `RejectedLineReturns`, `RunCompletes`, `LinesArrive` and
`ExchangeCompletes`.

## 5. What is not modelled

- Message-bus policies (compile-time selection of a print statement), the
  cryptography samples (single library calls, used by nothing), the monadic
  transaction sample (a chain of functions without state), plain data types and
  helpers, the vendored JSON libraries, which are by far the most lines of the
  repository.
- AF_UNIX sockets: one library call per role. A second server unlinks the path of a
  first one that still waits, which no client reaches any more; nothing in the
  repository says what should happen then, and nothing calls it.
- The directory crawler: sequential, called by nothing, it only reads the file
  system and keeps a list that grows and the last error.
- `simd.hpp` (usage samples of a library); what a JSON line means once it is read.
- The connection setup of the data handler's class `WebSocket`; the renderings of the
  spanning tree; the Windows branch of `durable_flush`; signed overflow of the
  balance and of the sums (the model's integers are unbounded, the programs' amounts
  far from the limit).
- `p2pserve.cpp` is `main.cpp`'s two halves with one fixed line and has no module of
  its own.
