------------------------ MODULE RequestRouterProofs ------------------------
(***************************************************************************)
(* Proofs about RequestRouter and the data handler under it, for every set *)
(* of paths in two levels, every alphabet of blocks and every buffer size. *)
(***************************************************************************)
EXTENDS RequestRouter, SequenceTheorems, TLAPS

-----------------------------------------------------------------------------
(* Paths and contents                                                      *)

\* A path that holds a file holds contents.
LEMMA FileHasContents ==
    ASSUME NEW files \in [Paths -> Nodes], NEW p \in Paths, IsFile(files, p)
    PROVE  files[p] \in Contents
BY DEF IsFile, Nodes

\* Contents are neither of the two other things a path may hold.
LEMMA ContentsAreNodes ==
    /\ Contents \subseteq Nodes
    /\ Absent \in Nodes /\ Directory \in Nodes /\ Absent # Directory
    /\ \A c \in Contents : c # Absent /\ c # Directory
BY FileTreeAssumption DEF NodesAssumption, Nodes

\* Contents one after the other are contents.
LEMMA Appended ==
    ASSUME NEW c \in Contents, NEW d \in Contents
    PROVE  c \o d \in Contents /\ c \o <<>> = c /\ <<>> \in Contents
BY ConcatProperties, ConcatEmptySeq, EmptySeq DEF Contents

\* What a write that fails half way leaves of contents is contents.
LEMMA PartsAreContents ==
    ASSUME NEW c \in Contents, NEW part \in Parts(c)
    PROVE  part \in Contents
<1>1. PICK n \in 0..(Len(c) - 1) : part = SubSeq(c, 1, n)
  BY DEF Parts
<1>2. Len(c) \in Nat /\ \A i \in 1..Len(c) : c[i] \in Blocks
  BY LenProperties, ElementOfSeq DEF Contents
<1>3. n \in Int /\ \A i \in 1..n : c[i] \in Blocks
  BY <1>2
<1> QED BY <1>1, <1>3, SubSeqProperties DEF Contents

\* Of nothing no part can be left.
LEMMA NoParts == Parts(<<>>) = {}
<1>1. Len(<<>>) = 0
  OBVIOUS
<1>2. 0..(Len(<<>>) - 1) = {}
  BY <1>1
<1> QED BY <1>2 DEF Parts

\* The texts of requests are contents too.
LEMMA TextsAreContents == Texts \subseteq Contents /\ <<>> \in Contents
<1>1. \A n \in 0..MaxBlocks : n \in Nat
  BY BoundsAssumption
<1> QED BY <1>1, SeqDef, EmptySeq DEF Texts, Contents

\* The trees are of two levels: a parent has no parent among the paths.
LEMMA TwoLevels ==
    ASSUME NEW p \in Paths
    PROVE  /\ Parent[p] \in Paths \union {Top} /\ Top \notin Paths
           /\ Parent[p] # p
           /\ Parent[p] # Top => Parent[p] \in Paths /\ Parent[Parent[p]] = Top
BY FileTreeAssumption DEF ParentAssumption

-----------------------------------------------------------------------------
(* The file system stays a tree.                                           *)

Tree(files) ==
    /\ files \in [Paths -> Nodes]
    /\ \A p \in Paths : files[p] # Absent /\ Parent[p] # Top => files[Parent[p]] = Directory

\* Making the parent of a path.
LEMMA TreeWithParent ==
    ASSUME NEW files, Tree(files), NEW p \in Paths, CanMakeParent(files, p)
    PROVE  /\ Tree(WithParent(files, p))
           /\ Parent[p] # Top => WithParent(files, p)[Parent[p]] = Directory
           /\ WithParent(files, p)[p] = files[p]
           /\ \A q \in Paths : IsFile(files, q) => WithParent(files, p)[q] = files[q]
BY TwoLevels, ContentsAreNodes DEF Tree, CanMakeParent, WithParent, IsFile, Nodes

\* Writing a file where one can be opened.
LEMMA TreeWithFile ==
    ASSUME NEW files, Tree(files), NEW p \in Paths, CanOpen(files, p), NEW c \in Contents
    PROVE  Tree([files EXCEPT ![p] = c])
<1>1. \A q \in Paths : Parent[q] = p => files[q] = Absent
  BY TwoLevels DEF Tree, CanOpen
<1> QED BY <1>1, ContentsAreNodes, TwoLevels DEF Tree, CanOpen

\* A file that is there can be written to.
LEMMA FileCanBeOpened ==
    ASSUME NEW files, Tree(files), NEW p \in Paths, IsFile(files, p)
    PROVE  CanOpen(files, p)
BY DEF Tree, IsFile, CanOpen

\* Removing what is not a directory, or a directory and all in it, or some of that.
LEMMA TreeWithout ==
    ASSUME NEW files, Tree(files), NEW p \in Paths, NEW some \in SUBSET Below(p),
           p \in some => files[p] # Directory \/ some = Below(p)
    PROVE  Tree([q \in Paths |-> IF q \in some THEN Absent ELSE files[q]])
<1> DEFINE rest == [q \in Paths |-> IF q \in some THEN Absent ELSE files[q]]
<1>1. rest \in [Paths -> Nodes]
  BY ContentsAreNodes DEF Tree
<1>2. ASSUME NEW q \in Paths, rest[q] # Absent, Parent[q] # Top PROVE rest[Parent[q]] = Directory
  <2>1. q \notin some /\ files[q] # Absent
    BY <1>2
  <2>2. files[Parent[q]] = Directory /\ Parent[q] \in Paths /\ Parent[Parent[q]] = Top
    BY <1>2, <2>1, TwoLevels DEF Tree
  <2>3. CASE Parent[q] = p
    BY <2>1, <2>2, <2>3 DEF Below
  <2>4. CASE Parent[q] # p
    <3>1. p \in Paths
      OBVIOUS
    <3>2. Parent[q] \notin Below(p)
      BY <2>2, <2>4, <3>1, TwoLevels DEF Below
    <3> QED BY <2>2, <3>2
  <2> QED BY <2>3, <2>4
<1> QED BY <1>1, <1>2 DEF Tree

-----------------------------------------------------------------------------
(* How far the handler has come                                            *)

\* What a request is to write, where, and after what.
PlaceOf(q) == IF q.cmd \in {"CP", "MV"} THEN q.dest ELSE q.target
DataOf(q)  == IF q.cmd \in {"CP", "MV"} THEN found[q.target]
              ELSE IF q.cmd = "NEW" THEN <<>> ELSE q.data
PriorOf(q) == IF q.cmd = "AP" THEN Old(found, q.target) ELSE <<>>
Stored(q, data, gone) ==
    [p \in Paths |-> IF p \in gone THEN Absent
                     ELSE IF p = PlaceOf(q) THEN PriorOf(q) \o data
                     ELSE WithParent(found, PlaceOf(q))[p]]

\* The transaction under way is the request; a copy's target is its destination
\* once it was read.
SameRequest ==
    /\ tx.target = IF request.cmd = "CP" /\ pc # "read" THEN request.dest ELSE request.target
    /\ tx.status = "PENDING"

\* Until something is opened or deleted the disk is as it was found.
NothingDone ==
    pc \in {"read", "receive", "open", "delete", "nothing", "send"} =>
      disk = found /\ ended = "no" /\ out = Closed /\ ~silent

HasRead ==
    /\ request.cmd \in {"CP", "MV"} /\ pc \in {"open", "write", "remove", "close"}
         => IsFile(found, request.target)
    /\ pc \in {"receive", "open", "write"} => buffer = DataOf(request)
    /\ pc = "send" => buffer = found[request.target]

\* The step belongs to the command.
StepOf(cmd) ==
    CASE cmd = "NOP" -> {"nothing"}
      [] cmd = "DEL" -> {"delete"}
      [] cmd = "TX"  -> {"read", "send"}
      [] cmd = "NEW" -> {"open", "close"}
      [] cmd = "RX"  -> {"receive", "open", "write", "close"}
      [] cmd = "AP"  -> {"open", "write", "close"}
      [] cmd = "CP"  -> {"read", "open", "write", "close"}
      [] cmd = "MV"  -> {"read", "open", "write", "remove", "close"}

\* What was removed when the stream is open: the source of a move, at its end.
GoneNow == IF request.cmd = "MV" /\ pc = "close" /\ ended = "no" THEN {request.target} ELSE {}

\* The data is in the stream's buffer, or in the file, or a part of it is.
Stream ==
    \/ /\ out.good /\ out.pending = DataOf(request)
       /\ disk = Stored(request, <<>>, GoneNow)
    \/ /\ out.good /\ out.pending = <<>>
       /\ disk = Stored(request, DataOf(request), GoneNow)
    \/ /\ ~out.good /\ out.pending = <<>>
       /\ \E part \in Parts(DataOf(request)) : disk = Stored(request, part, GoneNow)

Writing ==
    /\ pc = "write" => /\ disk = Stored(request, <<>>, {})
                       /\ out = Opened(PlaceOf(request)) /\ ended = "no" /\ ~silent
    /\ pc \in {"remove", "close"} =>
         /\ Stream
         /\ out.path = IF PlaceOf(request) \in GoneNow THEN Top ELSE PlaceOf(request)
         /\ ~silent
         /\ ended = "no" \/ (pc = "close" /\ request.cmd = "MV" /\ ended = "threw")

\* The place of a write holds a file, and its directory was there or was made.
Opening ==
    pc \in {"write", "remove", "close"} =>
      /\ CanMakeParent(found, PlaceOf(request))
      /\ CanOpen(WithParent(found, PlaceOf(request)), PlaceOf(request))

Busy ==
    pc # "idle" =>
      /\ Tree(found) /\ pc \in StepOf(request.cmd)
      /\ SameRequest /\ NothingDone /\ HasRead /\ Writing /\ Opening

Inv == TypeOK /\ Tree(disk) /\ Tree(found) /\ Busy

-----------------------------------------------------------------------------
(* Lemmas about requests and what they store                               *)

\* What requests are made of.
LEMMA RequestFields ==
    ASSUME NEW q \in Requests
    PROVE  /\ q.cmd \in Commands /\ q.target \in Paths /\ q.dest \in Paths \union {Top}
           /\ q.data \in Contents
           /\ q.cmd \in {"CP", "MV"} => q.dest \in Paths
           /\ q.cmd \notin {"RX", "AP"} => q.data = <<>>
BY TextsAreContents DEF Requests, Commands

\* What a request writes, and where.
LEMMA RequestPlace ==
    ASSUME NEW q \in Requests, Tree(found)
    PROVE  /\ PlaceOf(q) \in Paths
           /\ PriorOf(q) \in Contents
           /\ (q.cmd \in {"CP", "MV"} => IsFile(found, q.target)) => DataOf(q) \in Contents
<1>1. q.target \in Paths /\ q.data \in Contents /\ (q.cmd \in {"CP", "MV"} => q.dest \in Paths)
  BY RequestFields
<1>2. PlaceOf(q) \in Paths
  BY <1>1 DEF PlaceOf
<1>3. <<>> \in Contents /\ found \in [Paths -> Nodes]
  BY TextsAreContents DEF Tree
<1>4. PriorOf(q) \in Contents
  BY <1>1, <1>3, FileHasContents DEF PriorOf, Old
<1>5. ASSUME q.cmd \in {"CP", "MV"} => IsFile(found, q.target) PROVE DataOf(q) \in Contents
  BY <1>1, <1>3, <1>5, FileHasContents DEF DataOf
<1> QED BY <1>2, <1>4, <1>5

\* What is stored leaves the disk a tree.
LEMMA StoredIsTree ==
    ASSUME NEW q \in Requests, Tree(found), NEW data \in Contents,
           CanMakeParent(found, PlaceOf(q)),
           CanOpen(WithParent(found, PlaceOf(q)), PlaceOf(q))
    PROVE  /\ Tree(Stored(q, data, {}))
           /\ Stored(q, data, {}) = [WithParent(found, PlaceOf(q)) EXCEPT ![PlaceOf(q)] = PriorOf(q) \o data]
           /\ Stored(q, data, {})[PlaceOf(q)] = PriorOf(q) \o data
           /\ PriorOf(q) \o data \in Contents
<1>1. PlaceOf(q) \in Paths /\ PriorOf(q) \o data \in Contents
  BY RequestPlace, Appended
<1>2. Tree(WithParent(found, PlaceOf(q)))
  BY <1>1, TreeWithParent
<1>3. Stored(q, data, {}) = [WithParent(found, PlaceOf(q)) EXCEPT ![PlaceOf(q)] = PriorOf(q) \o data]
  BY <1>1, <1>2 DEF Stored, Tree, WithParent
<1>4. Tree(Stored(q, data, {}))
  <2> DEFINE w == WithParent(found, PlaceOf(q))  place == PlaceOf(q)  c == PriorOf(q) \o data
  <2>1. Tree(w) /\ CanOpen(w, place) /\ place \in Paths /\ c \in Contents
    BY <1>1, <1>2
  <2>2. Stored(q, data, {}) = [w EXCEPT ![place] = c]
    BY <1>3
  <2> HIDE DEF w, place, c
  <2> QED BY <2>1, <2>2, TreeWithFile
<1> QED BY <1>1, <1>3, <1>4 DEF Stored

\* What a file without its source is: the source of a move is a file.
LEMMA StoredAndGone ==
    ASSUME NEW q, NEW data, NEW p \in Paths
    PROVE  Stored(q, data, {p}) = [Stored(q, data, {}) EXCEPT ![p] = Absent]
BY DEF Stored

\* Of a file that is gone, nothing tells what was in it.
LEMMA StoredNowhere ==
    ASSUME NEW q, NEW data, NEW other, NEW gone, PlaceOf(q) \in gone
    PROVE  Stored(q, data, gone) = Stored(q, other, gone)
BY DEF Stored

\* More is written after what was stored.
LEMMA StoredMore ==
    ASSUME request \in Requests, Tree(found), NEW data \in Contents, NEW more \in Contents,
           NEW gone, PlaceOf(request) \notin gone, disk = Stored(request, data, gone),
           disk' = [disk EXCEPT ![PlaceOf(request)] = disk[PlaceOf(request)] \o more]
    PROVE  disk' = Stored(request, data \o more, gone)
<1>1. PlaceOf(request) \in Paths /\ PriorOf(request) \in Contents
  BY RequestPlace
<1>2. (PriorOf(request) \o data) \o more = PriorOf(request) \o (data \o more)
  BY <1>1, ConcatAssociative DEF Contents
<1>3. Stored(request, data, gone)[PlaceOf(request)] = PriorOf(request) \o data
  BY <1>1 DEF Stored
<1> QED BY <1>1, <1>2, <1>3 DEF Stored

\* Nothing written before or after changes nothing.
LEMMA EmptyFirst ==
    ASSUME NEW data \in Contents
    PROVE  <<>> \o data = data /\ data \o <<>> = data
BY ConcatEmptySeq DEF Contents

-----------------------------------------------------------------------------
(* Every step keeps the invariant.                                         *)

Transactions ==
    [cmd : Commands, target : Paths, dest : Paths \union {Top},
     fileResult : Results, status : {"PENDING", "SUCCESS", "FAILURE"}]

\* The disk is a tree at every step.
LEMMA DiskIsTree == Inv => Tree(disk)
BY DEF Inv

\* A transaction starts with the fields of its request.
LEMMA NewTransaction ==
    ASSUME NEW q \in Requests
    PROVE  /\ Transaction(q) \in Transactions
           /\ Transaction(q).cmd = q.cmd /\ Transaction(q).dest = q.dest
           /\ Transaction(q).target = q.target /\ Transaction(q).status = "PENDING"
BY RequestFields DEF Transaction, Transactions, Results

\* What a return changes of the transaction.
LEMMA Returned ==
    ASSUME NEW result \in Results, Return(result), tx \in Transactions
    PROVE  /\ tx' \in Transactions
           /\ tx'.cmd = tx.cmd /\ tx'.dest = tx.dest /\ tx'.target = tx.target
           /\ tx'.fileResult = result /\ tx'.status = StatusOf(tx.cmd, result)
           /\ pc' = "idle" /\ ended' = "returned"
BY DEF Return, StatusOf, Transactions

\* A step that ends the request.
LEMMA EndStep ==
    ASSUME Inv, pc' = "idle", Tree(disk)', UNCHANGED ghosts,
           tx' = tx \/ \E result \in Results : Return(result),
           buffer' \in Contents, silent' \in BOOLEAN, out' = Closed
    PROVE  Inv'
<1>1. tx \in Transactions /\ tx.cmd = request.cmd /\ tx.dest = request.dest
  BY DEF Inv, TypeOK, Transactions
<1>2. tx' \in Transactions /\ tx'.cmd = request'.cmd /\ tx'.dest = request'.dest
  BY <1>1, Returned DEF ghosts
<1>3. out' \in [path : Paths \union {Top}, pending : Contents, good : BOOLEAN]
  BY TextsAreContents DEF Closed
<1>4. found' = found /\ request' = request
  BY DEF ghosts
<1>5. TargetKept' /\ StatusTold'
  BY <1>1, <1>4, Returned DEF Inv, TypeOK, TargetKept, StatusTold
<1> QED BY <1>2, <1>3, <1>4, <1>5 DEF Inv, TypeOK, Tree, Busy, Transactions

\* It holds at the start.
LEMMA InitInv == RouterInit => Inv
<1> SUFFICES ASSUME RouterInit PROVE Inv
  OBVIOUS
<1>1. Tree(disk)
  BY ContentsAreNodes DEF RouterInit, Init, Tree
<1>2. request \in Requests
  BY DEF RouterInit, Init
<1>3. <<>> \in Contents
  BY TextsAreContents
<1>4. TargetKept /\ StatusTold
  BY <1>2, NewTransaction DEF RouterInit, Init, TargetKept, StatusTold
<1> QED BY <1>1, <1>2, <1>3, <1>4, NewTransaction DEF RouterInit, Init, Inv, TypeOK, Tree, Busy, Transactions, Closed

\* A request comes.
LEMMA StartStep ==
    ASSUME Inv, NEW q \in Requests, Start(q)
    PROVE  Inv'
<1>1. Tree(disk)' /\ found' = disk /\ Tree(found)' /\ request' = q /\ out' = Closed /\ tx' = Transaction(q)
  BY DiskIsTree DEF Inv, Start, TypeOK
<1>2. q.cmd \in Commands /\ buffer' = q.data /\ buffer' \in Contents
  BY RequestFields DEF Start
<1>9. TargetKept' /\ StatusTold'
  BY <1>1, NewTransaction DEF TargetKept, StatusTold
<1>3. TypeOK'
  BY <1>1, <1>2, <1>9, NewTransaction DEF Inv, TypeOK, Tree, Start, Transactions
<1>4. pc' = FirstStep(q.cmd)
  BY DEF Start
<1>5. /\ pc' \in StepOf(q.cmd)
      /\ pc' \in {"read", "receive", "open", "delete", "nothing"}
      /\ q.cmd \in {"CP", "MV"} => pc' = "read"
  BY <1>2, <1>4 DEF FirstStep, StepOf, Commands
<1>6. pc' \in {"receive", "open"} => buffer' = DataOf(request)'
  BY <1>1, <1>2, <1>5, RequestFields DEF DataOf
<1>7. Busy'
  BY <1>1, <1>3, <1>5, <1>6, NewTransaction
     DEF Busy, SameRequest, NothingDone, HasRead, Writing, Opening, Start
<1> QED BY <1>1, <1>3, <1>7 DEF Inv

\* The steps that end a request without a look at the disk, or die.
LEMMA FailStep ==
    ASSUME Inv, NoOperation \/ ReadFails \/ ReceiveFails \/ SendFails \/ Send \/ Die
    PROVE  Inv'
<1>1. pc' = "idle" /\ disk' = disk /\ UNCHANGED ghosts
  BY DEF NoOperation, ReadFails, ReceiveFails, SendFails, Send, Die, Return, Throw
<1>2. tx' = tx \/ \E result \in Results : Return(result)
  BY DEF NoOperation, ReadFails, ReceiveFails, SendFails, Send, Die, Throw, Results
<1>3. buffer' \in Contents /\ silent' \in BOOLEAN
  BY TextsAreContents DEF Inv, TypeOK, NoOperation, ReadFails, ReceiveFails, SendFails, Send, Die
<1>4. out' = Closed
  <2>1. CASE Die
    BY <2>1 DEF Die
  <2>2. CASE NoOperation \/ ReadFails \/ ReceiveFails \/ SendFails \/ Send
    <3>1. out' = out /\ pc \in {"nothing", "read", "receive", "send"}
      BY <2>2 DEF NoOperation, ReadFails, ReceiveFails, SendFails, Send
    <3> QED BY <3>1 DEF Inv, Busy, NothingDone
  <2> QED BY <2>1, <2>2
<1>5. Tree(disk)'
  BY <1>1, DiskIsTree DEF Inv, Tree
<1> QED BY <1>1, <1>2, <1>3, <1>4, <1>5, EndStep

\* The request and what was found stay; so does what is to be stored.
LEMMA Still ==
    ASSUME UNCHANGED ghosts
    PROVE  /\ request' = request /\ found' = found
           /\ PlaceOf(request)' = PlaceOf(request) /\ DataOf(request)' = DataOf(request)
           /\ \A data, gone : Stored(request, data, gone)' = Stored(request, data, gone)
BY DEF ghosts, PlaceOf, DataOf, Stored, PriorOf, Old, WithParent, IsFile

\* What a step that writes leaves is one of the three states of a stream.
LEMMA StreamAfter ==
    ASSUME UNCHANGED ghosts, NEW gone, GoneNow' = gone,
           \/ out'.good /\ out'.pending = DataOf(request) /\ disk' = Stored(request, <<>>, gone)
           \/ out'.good /\ out'.pending = <<>> /\ disk' = Stored(request, DataOf(request), gone)
           \/ /\ ~out'.good /\ out'.pending = <<>>
              /\ \E part \in Parts(DataOf(request)) : disk' = Stored(request, part, gone)
    PROVE  Stream'
<1>1. \A data : Stored(request, data, GoneNow)' = Stored(request, data, gone)
  BY DEF ghosts, PlaceOf, Stored, PriorOf, Old, WithParent, IsFile
<1>2. DataOf(request)' = DataOf(request) /\ Parts(DataOf(request))' = Parts(DataOf(request))
  BY Still DEF Parts
<1> QED BY <1>1, <1>2 DEF Stream

\* What a step inside a request has to keep.
LEMMA InnerStep ==
    ASSUME Inv, UNCHANGED ghosts, Tree(disk)', tx' \in Transactions,
           tx'.cmd = tx.cmd, tx'.dest = tx.dest,
           buffer' \in Contents, silent' \in BOOLEAN,
           out' \in [path : Paths \union {Top}, pending : Contents, good : BOOLEAN],
           pc' # "idle", Busy'
    PROVE  Inv'
<1>1. request' = request /\ tx'.cmd = request.cmd /\ SameRequest'
  BY DEF Inv, TypeOK, Busy, ghosts
<1>2. TargetKept' /\ StatusTold'
  BY <1>1 DEF SameRequest, TargetKept, StatusTold
<1> QED BY <1>2 DEF Inv, TypeOK, Tree, ghosts, Transactions

\* The facts of the invariant that the steps below need.
LEMMA BusyFacts ==
    ASSUME Inv, pc # "idle"
    PROVE  /\ Tree(disk) /\ Tree(found) /\ request \in Requests
           /\ tx \in Transactions /\ tx.cmd = request.cmd /\ tx.dest = request.dest
           /\ buffer \in Contents /\ silent \in BOOLEAN
           /\ out \in [path : Paths \union {Top}, pending : Contents, good : BOOLEAN]
           /\ pc \in StepOf(request.cmd) /\ request.cmd \in Commands
           /\ SameRequest /\ NothingDone /\ HasRead /\ Writing /\ Opening
BY DiskIsTree, RequestFields DEF Inv, Busy, TypeOK, Transactions

\* The source of a copy, a move or a send is read.
LEMMA ReadStep == ASSUME Inv, ReadFile PROVE Inv'
<1>1. pc = "read" /\ UNCHANGED <<disk, out, ended, ghosts, sent, silent>> /\ buffer' = disk[tx.target]
  BY DEF ReadFile
<1>2. /\ Tree(disk) /\ Tree(found) /\ request \in Requests /\ tx \in Transactions
      /\ tx.cmd = request.cmd /\ tx.dest = request.dest /\ tx.target = request.target
      /\ tx.status = "PENDING" /\ disk = found /\ ended = "no" /\ out = Closed /\ ~silent
      /\ request.cmd \in {"TX", "CP", "MV"}
  BY <1>1, BusyFacts DEF SameRequest, NothingDone, StepOf, Commands
<1>3. request.target \in Paths /\ (request.cmd = "CP" => request.dest \in Paths)
  BY <1>2, RequestFields
<1>4. /\ tx' \in Transactions /\ tx'.cmd = tx.cmd /\ tx'.dest = tx.dest
      /\ tx'.target = IF request.cmd = "CP" THEN request.dest ELSE request.target
      /\ tx'.status = tx.status
  BY <1>2, <1>3 DEF ReadFile, Retargeted, Transactions, Results
<1>5. pc' = IF request.cmd = "TX" THEN "send" ELSE "open"
  BY <1>2 DEF ReadFile
<1>6. IsFile(found, request.target) /\ buffer' = found[request.target]
  BY <1>1, <1>2 DEF ReadFile
<1>7. buffer' \in Contents
  BY <1>2, <1>3, <1>6, FileHasContents DEF Tree
<1>8. Busy'
  <2>1. pc' \in StepOf(request.cmd)
    BY <1>2, <1>5 DEF StepOf
  <2>2. SameRequest' /\ NothingDone'
    BY <1>1, <1>2, <1>4, <1>5, Still DEF SameRequest, NothingDone
  <2>3. HasRead'
    <3>1. IsFile(found, request.target)'
      BY <1>1, <1>6, Still DEF IsFile
    <3>2. pc' = "open" => buffer' = DataOf(request)
      BY <1>2, <1>5, <1>6 DEF DataOf
    <3> QED BY <1>1, <1>5, <1>6, <3>1, <3>2, Still DEF HasRead
  <2>4. Writing' /\ Opening'
    BY <1>5 DEF Writing, Opening
  <2>5. Tree(found)'
    BY <1>1, <1>2, Still DEF Tree
  <2> QED BY <1>1, <2>1, <2>2, <2>3, <2>4, <2>5, Still DEF Busy
<1>9. Tree(disk)'
  BY <1>1, <1>2 DEF Tree
<1> QED BY <1>1, <1>2, <1>4, <1>5, <1>7, <1>8, <1>9, InnerStep DEF Inv, TypeOK

\* A message is received.
LEMMA ReceiveStep == ASSUME Inv, Receive PROVE Inv'
<1>1. pc = "receive" /\ pc' = "open" /\ UNCHANGED <<disk, buffer, out, ended, ghosts, sent, silent>>
  BY DEF Receive
<1>2. /\ Tree(disk) /\ Tree(found) /\ tx \in Transactions
      /\ disk = found /\ ended = "no" /\ out = Closed /\ ~silent
      /\ request.cmd = "RX" /\ tx.target = request.target /\ tx.status = "PENDING"
  BY <1>1, BusyFacts DEF SameRequest, NothingDone, StepOf, Commands
<1>3. /\ buffer = DataOf(request) /\ DataOf(request)' = DataOf(request)
      /\ request' = request /\ found' = found
  BY <1>1, Still, BusyFacts DEF HasRead
<1>4. /\ tx' \in Transactions /\ tx'.cmd = tx.cmd /\ tx'.dest = tx.dest
      /\ tx'.target = tx.target /\ tx'.status = tx.status
  BY <1>2 DEF Receive, Transactions, Results
<1>5. Busy'
  BY <1>1, <1>2, <1>3, <1>4 DEF Busy, StepOf, SameRequest, NothingDone, HasRead, Writing, Opening, Tree
<1>6. Tree(disk)'
  BY <1>1, <1>2 DEF Tree
<1> QED BY <1>1, <1>2, <1>4, <1>5, <1>6, InnerStep DEF Inv, TypeOK

\* The parent of a file is there.
LEMMA ParentThere ==
    ASSUME NEW files, Tree(files), NEW p \in Paths,
           Parent[p] # Top => files[Parent[p]] = Directory
    PROVE  WithParent(files, p) = files /\ CanMakeParent(files, p)
BY TwoLevels, ContentsAreNodes DEF Tree, WithParent, CanMakeParent, IsFile

\* Whatever directories are made for, they are those of the place of the write.
LEMMA SamePlace ==
    ASSUME Inv, pc = "open"
    PROVE  /\ Place = PlaceOf(request) /\ disk = found /\ tx.target \in Paths
           /\ request.cmd = "MV" => WithParent(disk, tx.target) = disk /\ CanMakeParent(disk, tx.target)
           /\ request.cmd # "MV" => tx.target = PlaceOf(request)
           /\ request.cmd \in {"NEW", "RX", "AP", "CP", "MV"}
<1>1. /\ Tree(disk) /\ disk = found /\ request \in Requests
      /\ tx.cmd = request.cmd /\ tx.dest = request.dest
      /\ tx.target = IF request.cmd = "CP" THEN request.dest ELSE request.target
      /\ request.cmd \in {"NEW", "RX", "AP", "CP", "MV"}
  BY BusyFacts DEF SameRequest, NothingDone, StepOf, Commands
<1>2. Place = PlaceOf(request) /\ (request.cmd # "MV" => tx.target = PlaceOf(request))
  BY <1>1 DEF Place, PlaceOf
<1>3. tx.target \in Paths
  BY <1>1, RequestFields
<1>4. ASSUME request.cmd = "MV"
      PROVE  WithParent(disk, tx.target) = disk /\ CanMakeParent(disk, tx.target)
  <2>1. IsFile(disk, tx.target)
    BY <1>1, <1>4, BusyFacts DEF HasRead
  <2>2. Parent[tx.target] # Top => disk[Parent[tx.target]] = Directory
    BY <1>1, <1>3, <2>1 DEF Tree, IsFile
  <2> QED BY <1>1, <1>3, <2>2, ParentThere
<1> QED BY <1>1, <1>2, <1>3, <1>4

\* The file cannot be opened.
LEMMA OpenFailsStep == ASSUME Inv, OpenFails PROVE Inv'
<1>1. pc = "open" /\ pc' = "idle" /\ UNCHANGED ghosts /\ out' = out /\ buffer' = buffer /\ silent' = silent
  BY DEF OpenFails, Return, Throw
<1>2. Tree(disk) /\ out = Closed /\ buffer \in Contents /\ silent \in BOOLEAN /\ tx.target \in Paths
  BY <1>1, BusyFacts, SamePlace DEF NothingDone
<1>3. tx' = tx \/ \E result \in Results : Return(result)
  BY DEF OpenFails, Throw, Results
<1>4. disk' = disk \/ (CanMakeParent(disk, tx.target) /\ disk' = WithParent(disk, tx.target))
  BY DEF OpenFails
<1>5. Tree(disk)'
  BY <1>2, <1>4, TreeWithParent DEF Tree
<1> QED BY <1>1, <1>2, <1>3, <1>5, EndStep

\* What an open leaves is what is stored of no data.
LEMMA OpenStores ==
    ASSUME Inv, OpenFile
    PROVE  /\ CanMakeParent(found, PlaceOf(request))
           /\ CanOpen(WithParent(found, PlaceOf(request)), PlaceOf(request))
           /\ disk' = Stored(request, <<>>, {})
<1> DEFINE place == PlaceOf(request)
<1>1. /\ pc = "open" /\ CanMakeParent(disk, tx.target)
      /\ CanOpen(WithParent(disk, tx.target), Place)
      /\ disk' = [WithParent(disk, tx.target) EXCEPT ![Place] = OpenedContent(tx.cmd, Old(disk, Place))]
  BY DEF OpenFile
<1>2. /\ Place = place /\ disk = found /\ Tree(found) /\ request \in Requests
      /\ tx.cmd = request.cmd /\ tx.target \in Paths
  BY <1>1, SamePlace, BusyFacts
<1>3. place \in Paths /\ PriorOf(request) \in Contents
  BY <1>2, RequestPlace
<1>4. WithParent(disk, tx.target) = WithParent(found, place) /\ CanMakeParent(found, place)
  <2>1. CASE request.cmd # "MV"
    BY <1>1, <1>2, <2>1, SamePlace
  <2>2. CASE request.cmd = "MV"
    <3>1. WithParent(disk, tx.target) = found
      BY <1>1, <1>2, <2>2, SamePlace
    <3>2. Parent[place] # Top => found[Parent[place]] = Directory
      BY <1>1, <1>2, <3>1 DEF CanOpen
    <3>3. WithParent(found, place) = found /\ CanMakeParent(found, place)
      <4> HIDE DEF place
      <4> QED BY <1>2, <1>3, <3>2, ParentThere
    <3> QED BY <3>1, <3>3
  <2> QED BY <2>1, <2>2
<1>5. OpenedContent(tx.cmd, Old(disk, Place)) = PriorOf(request)
  <2>1. request.cmd = "AP" => place = request.target
    BY DEF PlaceOf
  <2> QED BY <1>2, <2>1 DEF OpenedContent, PriorOf
<1>6. disk' = Stored(request, <<>>, {})
  <2>1. PriorOf(request) \o <<>> = PriorOf(request)
    BY <1>3, Appended
  <2>2. disk' = [WithParent(found, place) EXCEPT ![place] = PriorOf(request)]
    BY <1>1, <1>2, <1>4, <1>5
  <2> QED BY <1>3, <2>1, <2>2 DEF Stored, WithParent
<1> QED BY <1>1, <1>2, <1>4, <1>6

\* The file is opened, and truncated unless it is appended to.
LEMMA OpenStep == ASSUME Inv, OpenFile PROVE Inv'
<1>1. /\ pc = "open" /\ UNCHANGED <<tx, buffer, ended, ghosts, sent, silent>>
      /\ pc' = IF tx.cmd = "NEW" THEN "close" ELSE "write"
      /\ out' = Opened(Place)
  BY DEF OpenFile
<1>2. /\ Tree(found) /\ request \in Requests /\ tx \in Transactions /\ tx.cmd = request.cmd
      /\ SameRequest /\ HasRead /\ ended = "no" /\ ~silent
      /\ Place = PlaceOf(request) /\ request.cmd \in {"NEW", "RX", "AP", "CP", "MV"}
  BY <1>1, SamePlace, BusyFacts DEF NothingDone
<1>3. /\ CanMakeParent(found, PlaceOf(request))
      /\ CanOpen(WithParent(found, PlaceOf(request)), PlaceOf(request))
      /\ disk' = Stored(request, <<>>, {})
  BY OpenStores
<1>4. Tree(disk)' /\ PlaceOf(request) \in Paths
  <2>1. Tree(Stored(request, <<>>, {}))
    BY <1>2, <1>3, StoredIsTree, TextsAreContents
  <2> QED BY <1>2, <1>3, <2>1, RequestPlace DEF Tree
<1>5. out' \in [path : Paths \union {Top}, pending : Contents, good : BOOLEAN]
  BY <1>1, <1>2, <1>4, TextsAreContents DEF Opened
<1>6. Busy'
  <2>1. pc' \in StepOf(request.cmd) /\ pc' \in {"write", "close"}
    BY <1>1, <1>2 DEF StepOf
  <2>2. SameRequest' /\ NothingDone' /\ HasRead'
    BY <1>1, <1>2, <2>1, Still DEF SameRequest, NothingDone, HasRead, IsFile
  <2>3. Opening'
    <3>1. CanMakeParent(found, PlaceOf(request))' /\ CanOpen(WithParent(found, PlaceOf(request)), PlaceOf(request))'
      BY <1>1, <1>3, Still DEF CanMakeParent, IsFile, CanOpen, WithParent
    <3> QED BY <3>1 DEF Opening
  <2>4. Writing'
    <3>1. disk' = Stored(request, <<>>, {})'
      BY <1>1, <1>3, Still
    <3>2. out' = Opened(PlaceOf(request)')
      BY <1>1, <1>2, Still
    <3>3. CASE pc' = "write"
      BY <1>1, <1>2, <3>1, <3>2, <3>3 DEF Writing
    <3>4. CASE pc' = "close"
      <4>1. request.cmd = "NEW" /\ request' = request
        BY <1>1, <1>2, <3>4, Still
      <4>2. GoneNow' = {} /\ DataOf(request)' = <<>>
        BY <4>1 DEF GoneNow, DataOf
      <4>3. Stream'
        BY <3>1, <3>2, <4>2 DEF Stream, Opened
      <4> QED BY <1>1, <1>2, <3>2, <3>4, <4>2, <4>3 DEF Writing, Opened
    <3> QED BY <2>1, <3>3, <3>4
  <2> QED BY <1>1, <1>2, <2>1, <2>2, <2>3, <2>4, Still DEF Busy, Tree
<1>7. buffer' \in Contents /\ silent' \in BOOLEAN /\ pc' # "idle"
  BY <1>1, <1>2, BusyFacts
<1> QED BY <1>1, <1>2, <1>4, <1>5, <1>6, <1>7, InnerStep

\* While a stream is open the disk is what some of the data makes of it.
LEMMA StreamIsTree ==
    ASSUME request \in Requests, Tree(found), Opening, HasRead, pc \in {"write", "remove", "close"},
           NEW data \in Contents, NEW gone \in SUBSET {request.target},
           request.cmd = "MV" \/ gone = {}
    PROVE  /\ Tree(Stored(request, data, gone))
           /\ PlaceOf(request) \in Paths /\ DataOf(request) \in Contents
<1>1. PlaceOf(request) \in Paths /\ DataOf(request) \in Contents
  BY RequestPlace DEF HasRead
<1>2. Tree(Stored(request, data, {}))
  BY StoredIsTree DEF Opening
<1>3. CASE gone = {}
  BY <1>1, <1>2, <1>3
<1>4. CASE gone = {request.target} /\ request.cmd = "MV"
  <2> DEFINE s == Stored(request, data, {})
  <2>1. request.target \in Paths /\ IsFile(found, request.target)
    BY <1>4, RequestFields DEF HasRead
  <2>2. s[request.target] # Directory
    <3>1. CASE request.target = PlaceOf(request)
      <4>1. PriorOf(request) \o data \in Contents /\ s[PlaceOf(request)] = PriorOf(request) \o data
        BY StoredIsTree DEF Opening
      <4> QED BY <3>1, <4>1, ContentsAreNodes
    <3>2. CASE request.target # PlaceOf(request)
      <4>1. WithParent(found, PlaceOf(request))[request.target] = found[request.target]
        BY <1>1, <2>1, TreeWithParent DEF Opening
      <4> QED BY <2>1, <3>2, <4>1 DEF Stored, IsFile
    <3> QED BY <3>1, <3>2
  <2>3. Tree([q \in Paths |-> IF q \in {request.target} THEN Absent ELSE s[q]])
    <3>1. {request.target} \in SUBSET Below(request.target)
      BY DEF Below
    <3> HIDE DEF s
    <3> QED BY <1>2, <2>1, <2>2, <3>1, TreeWithout DEF s
  <2>4. [q \in Paths |-> IF q \in {request.target} THEN Absent ELSE s[q]] = Stored(request, data, gone)
    BY <1>4 DEF Stored
  <2> QED BY <1>1, <2>3, <2>4
<1> QED BY <1>3, <1>4

\* A write brings the data, or a part of it, into the stream or the file.
LEMMA WriteStep == ASSUME Inv, WriteShort \/ WriteLong PROVE Inv'
<1>1. /\ pc = "write" /\ UNCHANGED <<tx, buffer, ended, ghosts, sent, silent>>
      /\ pc' = NextOf(tx.cmd)
  BY DEF WriteShort, WriteLong
<1>2. /\ Tree(found) /\ request \in Requests /\ tx \in Transactions /\ tx.cmd = request.cmd
      /\ SameRequest /\ HasRead /\ Opening /\ buffer = DataOf(request) /\ buffer \in Contents
      /\ disk = Stored(request, <<>>, {}) /\ out = Opened(PlaceOf(request)) /\ ended = "no"
      /\ request.cmd \in {"RX", "AP", "CP", "MV"} /\ Tree(disk) /\ ~silent
      /\ out \in [path : Paths \union {Top}, pending : Contents, good : BOOLEAN]
  <2>1. /\ Writing /\ HasRead /\ pc \in StepOf(request.cmd) /\ request.cmd \in Commands
        /\ tx.cmd = request.cmd /\ tx \in Transactions /\ buffer \in Contents
        /\ out \in [path : Paths \union {Top}, pending : Contents, good : BOOLEAN]
    BY <1>1, BusyFacts
  <2>2. request.cmd \in {"RX", "AP", "CP", "MV"}
    BY <1>1, <2>1 DEF StepOf, Commands
  <2>3. buffer = DataOf(request)
    BY <1>1, <2>1 DEF HasRead
  <2>4. /\ disk = Stored(request, <<>>, {}) /\ out = Opened(PlaceOf(request)) /\ ended = "no" /\ ~silent
    BY <1>1, <2>1 DEF Writing
  <2> QED BY <1>1, <2>1, <2>2, <2>3, <2>4, BusyFacts
<1>3. PlaceOf(request) \in Paths /\ <<>> \in Contents
  BY <1>2, RequestPlace, TextsAreContents
<1>4. /\ pc' = IF request.cmd = "MV" THEN "remove" ELSE "close"
      /\ request' = request /\ found' = found
  BY <1>1, <1>2, Still DEF NextOf
<1>5. GoneNow' = {}
  BY <1>4 DEF GoneNow
<1>6. Stream' /\ Tree(disk)' /\ out'.path = PlaceOf(request) /\ out' \in [path : Paths \union {Top}, pending : Contents, good : BOOLEAN]
  <2>1. ASSUME NEW more \in Contents, disk' = [disk EXCEPT ![out.path] = @ \o more]
        PROVE  disk' = Stored(request, more, {}) /\ Tree(disk)'
    <3>1. disk' = Stored(request, <<>> \o more, {})
      <4>1. out.path = PlaceOf(request)
        BY <1>2 DEF Opened
      <4>2. disk' = [disk EXCEPT ![PlaceOf(request)] = disk[PlaceOf(request)] \o more]
        BY <2>1, <4>1
      <4>3. request \in Requests /\ Tree(found) /\ <<>> \in Contents /\ more \in Contents
        BY <1>2, <1>3, <2>1
      <4>4. disk = Stored(request, <<>>, {}) /\ PlaceOf(request) \notin {}
        BY <1>2
      <4> QED BY ONLY <4>2, <4>3, <4>4, StoredMore
    <3>2. Tree(Stored(request, more, {}))
      BY <1>1, <1>2, StreamIsTree
    <3> QED BY <3>1, <3>2, EmptyFirst DEF Tree
  <2>2. CASE WriteShort
    <3>1. disk' = disk /\ out' = [out EXCEPT !.pending = buffer]
      BY <2>2 DEF WriteShort
    <3>2. /\ out'.good /\ out'.pending = DataOf(request) /\ out'.path = PlaceOf(request)
          /\ out' \in [path : Paths \union {Top}, pending : Contents, good : BOOLEAN]
      BY <1>2, <3>1 DEF Opened
    <3> QED BY <1>1, <1>2, <1>5, <3>1, <3>2, StreamAfter DEF Tree
  <2>3. CASE WriteLong /\ out' = out /\ disk' = [disk EXCEPT ![out.path] = @ \o buffer]
    <3>1. disk' = Stored(request, DataOf(request), {}) /\ Tree(disk)'
      BY <1>2, <2>1, <2>3
    <3> QED BY <1>1, <1>2, <1>5, <2>3, <3>1, StreamAfter DEF Opened
  <2>4. CASE /\ \E part \in Parts(buffer) : disk' = [disk EXCEPT ![out.path] = @ \o part]
             /\ out' = [out EXCEPT !.good = FALSE]
    <3>1. PICK part \in Parts(buffer) : disk' = [disk EXCEPT ![out.path] = @ \o part]
      BY <2>4
    <3>2. disk' = Stored(request, part, {}) /\ Tree(disk)'
      BY <1>2, <2>1, <3>1, PartsAreContents
    <3>3. /\ ~out'.good /\ out'.pending = <<>> /\ out'.path = PlaceOf(request)
          /\ out' \in [path : Paths \union {Top}, pending : Contents, good : BOOLEAN]
      BY <1>2, <2>4 DEF Opened
    <3> QED BY <1>1, <1>2, <1>5, <3>1, <3>2, <3>3, StreamAfter
  <2> QED BY <2>2, <2>3, <2>4 DEF WriteShort, WriteLong
<1>7. Busy'
  <2>1. pc' \in StepOf(request.cmd)
    BY <1>2, <1>4 DEF StepOf
  <2>2. SameRequest' /\ NothingDone' /\ HasRead'
    BY <1>1, <1>2, <1>4 DEF SameRequest, NothingDone, HasRead, IsFile
  <2>3. Opening'
    BY <1>1, <1>2, <1>4, Still DEF Opening, CanMakeParent, CanOpen, WithParent, IsFile
  <2>4. Writing'
    <3>1. PlaceOf(request)' = PlaceOf(request)
      BY <1>1, Still
    <3>2. ~silent' /\ ended' = "no"
      BY <1>1, <1>2
    <3> QED BY <1>4, <1>5, <1>6, <3>1, <3>2 DEF Writing
  <2> QED BY <1>2, <1>4, <2>1, <2>2, <2>3, <2>4 DEF Busy, Tree
<1> QED BY <1>1, <1>2, <1>4, <1>6, <1>7, InnerStep, BusyFacts

\* The source of a move goes, with the destination still open.
LEMMA RemoveStep == ASSUME Inv, RemoveSource \/ RemoveThrows PROVE Inv'
<1>1. /\ pc = "remove" /\ pc' = "close" /\ UNCHANGED <<tx, buffer, ghosts, sent, silent>>
  BY DEF RemoveSource, RemoveThrows
<1>2. /\ Tree(found) /\ request \in Requests /\ tx \in Transactions /\ tx.cmd = request.cmd
      /\ SameRequest /\ HasRead /\ Opening /\ buffer \in Contents /\ silent \in BOOLEAN
      /\ Stream /\ ended = "no" /\ ~silent /\ request.cmd = "MV" /\ Tree(disk)
      /\ tx.target = request.target /\ tx.dest = request.dest
      /\ out \in [path : Paths \union {Top}, pending : Contents, good : BOOLEAN]
  BY <1>1, BusyFacts DEF Writing, StepOf, Commands, SameRequest
<1>3. /\ PlaceOf(request) \in Paths /\ <<>> \in Contents /\ DataOf(request) \in Contents
      /\ request' = request /\ found' = found /\ request.target \in Paths
  BY <1>1, <1>2, StreamIsTree, TextsAreContents, Still, RequestFields
<1>4. GoneNow = {} /\ out.path = PlaceOf(request)
  <2>1. GoneNow = {}
    BY <1>1 DEF GoneNow
  <2> QED BY <1>1, <2>1, BusyFacts DEF Writing
<1>5. /\ Stream' /\ Tree(disk)'
      /\ out'.path = IF PlaceOf(request) \in GoneNow' THEN Top ELSE PlaceOf(request)
      /\ ended' \in {"no", "threw"}
      /\ out' \in [path : Paths \union {Top}, pending : Contents, good : BOOLEAN]
  <2>1. CASE RemoveThrows
    <3>1. GoneNow' = {} /\ ended' = "threw" /\ UNCHANGED <<disk, out>>
      BY <2>1 DEF RemoveThrows, GoneNow
    <3> QED BY <1>1, <1>2, <1>3, <1>4, <3>1, StreamAfter DEF Stream, Tree
  <2>2. CASE RemoveSource
    <3>1. /\ disk' = [disk EXCEPT ![request.target] = Absent] /\ ended' = "no"
          /\ out' = IF out.path = request.target THEN [out EXCEPT !.path = Top] ELSE out
      BY <1>2, <2>2 DEF RemoveSource
    <3>2. GoneNow' = {request.target}
      BY <1>1, <1>2, <1>3, <3>1 DEF GoneNow
    <3>3. ASSUME NEW data \in Contents, disk = Stored(request, data, {})
          PROVE  disk' = Stored(request, data, {request.target}) /\ Tree(disk)'
      <4>1. disk' = Stored(request, data, {request.target})
        BY <1>3, <3>1, <3>3, StoredAndGone
      <4>2. Tree(Stored(request, data, {request.target}))
        BY <1>1, <1>2, StreamIsTree
      <4> QED BY <4>1, <4>2 DEF Tree
    <3>4. /\ out'.good = out.good /\ out'.pending = out.pending
          /\ out'.path = IF PlaceOf(request) \in GoneNow' THEN Top ELSE PlaceOf(request)
          /\ out' \in [path : Paths \union {Top}, pending : Contents, good : BOOLEAN]
      BY <1>2, <1>4, <3>1, <3>2
    <3>5. CASE /\ out.good /\ out.pending = DataOf(request)
               /\ disk = Stored(request, <<>>, GoneNow)
      BY <1>1, <1>3, <1>4, <3>1, <3>2, <3>3, <3>4, <3>5, StreamAfter
    <3>6. CASE /\ out.good /\ out.pending = <<>>
               /\ disk = Stored(request, DataOf(request), GoneNow)
      BY <1>1, <1>3, <1>4, <3>1, <3>2, <3>3, <3>4, <3>6, StreamAfter
    <3>7. CASE /\ ~out.good /\ out.pending = <<>>
               /\ \E part \in Parts(DataOf(request)) : disk = Stored(request, part, GoneNow)
      <4>1. PICK part \in Parts(DataOf(request)) : disk = Stored(request, part, GoneNow)
        BY <3>7
      <4>2. disk' = Stored(request, part, {request.target}) /\ Tree(disk)'
        BY <1>3, <1>4, <3>3, <4>1, PartsAreContents
      <4> QED BY <1>1, <3>1, <3>2, <3>4, <3>7, <4>1, <4>2, StreamAfter
    <3> QED BY <1>2, <3>5, <3>6, <3>7 DEF Stream
  <2> QED BY <2>1, <2>2
<1>6. Busy'
  <2>1. pc' \in StepOf(request.cmd)
    BY <1>1, <1>2 DEF StepOf
  <2>2. SameRequest' /\ NothingDone' /\ HasRead'
    BY <1>1, <1>2, <1>3 DEF SameRequest, NothingDone, HasRead, IsFile
  <2>3. Opening'
    BY <1>1, <1>2, <1>3, Still DEF Opening, CanMakeParent, CanOpen, WithParent, IsFile
  <2>4. Writing'
    BY <1>1, <1>2, <1>3, <1>5, Still DEF Writing
  <2> QED BY <1>1, <1>2, <1>3, <2>1, <2>2, <2>3, <2>4 DEF Busy, Tree
<1> QED BY <1>1, <1>2, <1>5, <1>6, InnerStep

\* What the destructor of the stream leaves: all of the data, unless a write or
\* the flush failed.
LEMMA CloseStores ==
    ASSUME Inv, CloseFile
    PROVE  /\ Tree(disk)'
           /\ \E data \in Contents :
                /\ disk' = Stored(request, data, GoneNow)
                /\ IF out.good /\ ~silent' THEN data = DataOf(request) ELSE data \in Parts(DataOf(request))
<1> DEFINE Fitting(data) ==
             IF out.good /\ ~silent' THEN data = DataOf(request) ELSE data \in Parts(DataOf(request))
<1>1. pc = "close"
  BY DEF CloseFile
<1>2. /\ Tree(found) /\ request \in Requests /\ Opening /\ HasRead /\ Stream /\ ~silent
      /\ out.path = IF PlaceOf(request) \in GoneNow THEN Top ELSE PlaceOf(request)
      /\ out \in [path : Paths \union {Top}, pending : Contents, good : BOOLEAN]
      /\ request.cmd \in Commands /\ silent \in BOOLEAN
  BY <1>1, BusyFacts DEF Writing
<1>3. /\ PlaceOf(request) \in Paths /\ DataOf(request) \in Contents /\ <<>> \in Contents
  BY <1>2, <1>1, RequestPlace, TextsAreContents DEF HasRead
<1>4. PICK written : /\ Flushed(written)
                     /\ \/ written = out.pending /\ silent' = silent
                        \/ written \in Parts(out.pending) /\ silent'
  BY DEF CloseFile
<1>5. written \in Contents
  BY <1>2, <1>4, PartsAreContents
<1>6. ASSUME NEW data \in Contents, disk = Stored(request, data, GoneNow)
      PROVE  disk' = Stored(request, data \o written, GoneNow)
  <2>1. CASE PlaceOf(request) \in GoneNow
    <3>1. disk' = disk
      BY <1>2, <1>4, <2>1 DEF Flushed
    <3> QED BY <1>6, <2>1, <3>1, StoredNowhere
  <2>2. CASE PlaceOf(request) \notin GoneNow
    <3>1. disk' = [disk EXCEPT ![PlaceOf(request)] = disk[PlaceOf(request)] \o written]
      BY <1>2, <1>3, <1>4, <2>2, TwoLevels DEF Flushed
    <3>2. request \in Requests /\ Tree(found) /\ data \in Contents /\ written \in Contents
      BY <1>2, <1>5
    <3> QED BY ONLY <1>6, <2>2, <3>1, <3>2, StoredMore
  <2> QED BY <2>1, <2>2
<1>7. \E data \in Contents : disk' = Stored(request, data, GoneNow) /\ Fitting(data)
  <2>1. CASE /\ out.good /\ out.pending = DataOf(request)
             /\ disk = Stored(request, <<>>, GoneNow)
    <3>1. disk' = Stored(request, <<>> \o written, GoneNow)
      BY <1>3, <1>6, <2>1
    <3>2. disk' = Stored(request, written, GoneNow)
      BY <1>5, <3>1, EmptyFirst
    <3>3. Fitting(written)
      BY <1>2, <1>4, <2>1
    <3> QED BY <1>5, <3>2, <3>3
  <2>2. ASSUME out.pending = <<>>, NEW data \in Contents, disk = Stored(request, data, GoneNow)
        PROVE  disk' = Stored(request, data, GoneNow) /\ ~silent'
    <3>1. written = <<>> /\ ~silent'
      BY <1>2, <1>4, <2>2, NoParts
    <3>2. disk' = Stored(request, data \o <<>>, GoneNow)
      BY <1>6, <2>2, <3>1
    <3> QED BY <2>2, <3>1, <3>2, EmptyFirst
  <2>3. CASE /\ out.good /\ out.pending = <<>>
             /\ disk = Stored(request, DataOf(request), GoneNow)
    <3>1. disk' = Stored(request, DataOf(request), GoneNow) /\ Fitting(DataOf(request))
      BY <1>3, <2>2, <2>3
    <3> QED BY <1>3, <3>1
  <2>4. CASE /\ ~out.good /\ out.pending = <<>>
             /\ \E part \in Parts(DataOf(request)) : disk = Stored(request, part, GoneNow)
    <3>1. PICK part \in Parts(DataOf(request)) : disk = Stored(request, part, GoneNow)
      BY <2>4
    <3>2. part \in Contents
      BY <1>3, PartsAreContents
    <3>3. disk' = Stored(request, part, GoneNow) /\ Fitting(part)
      BY <2>2, <2>4, <3>1, <3>2
    <3> QED BY <3>2, <3>3
  <2> QED BY <1>2, <2>1, <2>3, <2>4 DEF Stream
<1>8. Tree(disk)'
  <2>1. PICK data \in Contents : disk' = Stored(request, data, GoneNow)
    BY <1>7
  <2>2. GoneNow \in SUBSET {request.target} /\ (request.cmd = "MV" \/ GoneNow = {})
    BY DEF GoneNow
  <2>3. Tree(Stored(request, data, GoneNow))
    BY <1>1, <1>2, <2>2, StreamIsTree
  <2> QED BY <2>1, <2>3 DEF Tree
<1> QED BY <1>7, <1>8

\* The stream is closed.
LEMMA CloseStep == ASSUME Inv, CloseFile PROVE Inv'
<1>1. pc' = "idle" /\ UNCHANGED <<buffer, ghosts, sent>> /\ out' = Closed
  BY DEF CloseFile, Return, Throw
<1>2. tx' = tx \/ \E result \in Results : Return(result)
  BY DEF CloseFile, Throw, Results
<1>3. buffer' \in Contents /\ silent' \in BOOLEAN
  BY <1>1 DEF Inv, TypeOK, CloseFile
<1> QED BY <1>1, <1>2, <1>3, CloseStores, EndStep

\* A path is removed, or a part of what is below it.
LEMMA DeleteStep == ASSUME Inv, Delete PROVE Inv'
<1>1. /\ pc = "delete" /\ pc' = "idle" /\ UNCHANGED <<buffer, out, ghosts, sent, silent>>
      /\ tx' = tx \/ \E result \in Results : Return(result)
  BY DEF Delete, Return, Results
<1>2. out = Closed /\ Tree(disk) /\ tx \in Transactions /\ buffer \in Contents /\ silent \in BOOLEAN
  BY <1>1, BusyFacts DEF NothingDone
<1>3. tx.target \in Paths
  BY <1>2 DEF Transactions
<1>4. PICK some \in SUBSET Below(tx.target) :
        /\ some = Below(tx.target) \/ tx.target \notin some
        /\ disk' = [p \in Paths |-> IF p \in some THEN Absent ELSE disk[p]]
  BY DEF Delete
<1>5. Tree([p \in Paths |-> IF p \in some THEN Absent ELSE disk[p]])
  <2>1. tx.target \in some => disk[tx.target] # Directory \/ some = Below(tx.target)
    BY <1>4
  <2> QED BY <1>2, <1>3, <1>4, <2>1, TreeWithout
<1>6. Tree(disk)'
  BY <1>4, <1>5 DEF Tree
<1> QED BY <1>1, <1>2, <1>6, EndStep

\* A request the handler never sees.
LEMMA UntouchedStep ==
    ASSUME Inv, NEW type, NEW payload, NEW code, Untouched(type, payload, code)
    PROVE  Inv'
<1>1. PICK q \in Requests : request' = q /\ tx' = Transaction(q)
  BY DEF Untouched
<1>2. pc' = "idle" /\ disk' = disk /\ found' = disk /\ buffer' = <<>> /\ silent' = FALSE /\ out' = out
  BY DEF Untouched
<1>3. Tree(disk)' /\ Tree(found)'
  BY <1>2, DiskIsTree DEF Inv, Tree
<1>4. TargetKept' /\ StatusTold'
  BY <1>1, NewTransaction DEF TargetKept, StatusTold
<1> QED BY <1>1, <1>2, <1>3, <1>4, NewTransaction, TextsAreContents, RequestFields
        DEF Inv, TypeOK, Tree, Busy, Transactions, Untouched

\* Every step keeps the invariant.
LEMMA InvNext == Inv /\ [Next]_routerVars => Inv'
<1> SUFFICES ASSUME Inv, [Next]_routerVars PROVE Inv'
  OBVIOUS
<1>1. CASE UNCHANGED vars
  <2>1. UNCHANGED ghosts /\ GoneNow' = GoneNow /\ request' = request /\ found' = found
        /\ UNCHANGED <<disk, tx, buffer, out, pc, ended, sent, silent>>
    BY <1>1 DEF vars, ghosts, GoneNow
  <2>2. ASSUME pc # "idle" PROVE Busy'
    <3>1. Tree(found) /\ pc \in StepOf(request.cmd) /\ SameRequest /\ NothingDone /\ HasRead /\ Writing /\ Opening
      BY <2>2 DEF Inv, Busy
    <3>2. SameRequest' /\ NothingDone' /\ HasRead'
      BY <2>1, <3>1, Still DEF SameRequest, NothingDone, HasRead, IsFile
    <3>3. Opening'
      BY <2>1, <3>1, Still DEF Opening, CanMakeParent, CanOpen, WithParent, IsFile
    <3>4. Stream => Stream'
      BY <2>1, StreamAfter DEF Stream
    <3>5. Writing'
      BY <2>1, <3>1, <3>4, Still DEF Writing
    <3> QED BY <2>1, <3>1, <3>2, <3>3, <3>5 DEF Busy, Tree
  <2>3. TargetKept' = TargetKept /\ StatusTold' = StatusTold
    BY <2>1 DEF TargetKept, StatusTold
  <2> QED BY <2>1, <2>2, <2>3 DEF Inv, TypeOK, Tree, Busy
<1>2. CASE DispatchData
  BY <1>2, StartStep DEF DispatchData
<1>3. CASE DispatchMismatch \/ DispatchUnknown
  BY <1>3, UntouchedStep DEF DispatchMismatch, DispatchUnknown
<1>4. CASE Handle
  BY <1>4, FailStep, ReadStep, ReceiveStep, OpenFailsStep, OpenStep, WriteStep, RemoveStep,
     CloseStep, DeleteStep DEF Handle, Step
<1> QED BY <1>1, <1>2, <1>3, <1>4 DEF Next, DispatchLogin, routerVars

\* So it always holds.
LEMMA AlwaysInv == Spec => []Inv
BY InitInv, InvNext, PTL DEF Spec

\* The variables keep their types, the transaction under way is the one that was
\* asked for, at the target it may have, and no stream stays open between requests.
THEOREM TypeCorrect == Spec => []TypeOK
<1>1. Inv => TypeOK
  BY DEF Inv
<1> QED BY <1>1, AlwaysInv, PTL

-----------------------------------------------------------------------------
(* Answers                                                                 *)

\* A call of dispatch() is under way exactly as long as the handler is.
Calling ==
    /\ pc # "idle" => route = Call("DATA", "data", "none")
    /\ AcceptedMeansAnswered

\* A call that returns gives one of the results.
LEMMA ReturnsAnswer ==
    ASSUME Step, pc' = "idle", ended' = "returned"
    PROVE  \E result \in Results : Return(result)
BY DEF Step, NoOperation, ReadFails, ReadFile, ReceiveFails, Receive, OpenFails, OpenFile,
       WriteShort, WriteLong, RemoveSource, RemoveThrows, CloseFile, SendFails, Send, Delete, Die,
       Throw, Results, NextOf

\* Only a request that was begun takes steps, and none changes what was asked.
LEMMA StepIsBusy == Step => pc # "idle" /\ UNCHANGED ghosts
BY DEF Step, NoOperation, ReadFails, ReadFile, ReceiveFails, Receive, OpenFails, OpenFile,
       WriteShort, WriteLong, RemoveSource, RemoveThrows, CloseFile, SendFails, Send, Delete, Die

\* Every step keeps the router and the handler in agreement.
LEMMA CallingNext == Inv /\ Calling /\ [Next]_routerVars => Calling'
<1> SUFFICES ASSUME Inv, Calling, [Next]_routerVars PROVE Calling'
  OBVIOUS
<1> USE DEF Calling, AcceptedMeansAnswered, Call
<1>1. CASE UNCHANGED routerVars
  BY <1>1 DEF routerVars, vars, ghosts, Transaction
<1>2. CASE DispatchLogin
  BY <1>2 DEF DispatchLogin, vars, ghosts, Transaction
<1>3. CASE DispatchData
  BY <1>3 DEF DispatchData
<1>4. CASE DispatchMismatch \/ DispatchUnknown
  BY <1>4 DEF DispatchMismatch, DispatchUnknown, Untouched, Transaction
<1>5. CASE Handle
  <2>1. Step /\ pc # "idle" /\ request' = request
    BY <1>5, StepIsBusy DEF Handle, ghosts
  <2>2. route = Call("DATA", "data", "none")
    BY <2>1
  <2>3. CASE ~(pc' = "idle" /\ ended' = "returned")
    BY <1>5, <2>1, <2>2, <2>3 DEF Handle
  <2>4. CASE pc' = "idle" /\ ended' = "returned"
    <3>1. PICK result \in Results : Return(result)
      BY <2>1, <2>4, ReturnsAnswer
    <3>2. tx'.status = StatusOf(request.cmd, result)
      BY <2>1, <3>1, BusyFacts, Returned
    <3>3. route' = Call("DATA", "data", "EXIT_SUCCESS")
      BY <1>5, <2>2, <2>4 DEF Handle
    <3> QED BY <2>1, <2>4, <3>2, <3>3 DEF StatusOf
  <2> QED BY <2>3, <2>4
<1> QED BY <1>1, <1>2, <1>3, <1>4, <1>5 DEF Next

\* What dispatch() accepted has an answer when it returns, an append excepted.
THEOREM AcceptedIsAnswered == Spec => []AcceptedMeansAnswered
<1>1. RouterInit => Calling
  BY DEF RouterInit, Init, Calling, AcceptedMeansAnswered, Call
<1>2. Calling => AcceptedMeansAnswered
  BY DEF Calling
<1> QED BY <1>1, <1>2, CallingNext, AlwaysInv, PTL DEF Spec

-----------------------------------------------------------------------------
(* Moves                                                                   *)

\* Storing at another path changes no file.
LEMMA StoredElsewhere ==
    ASSUME request \in Requests, Moving, Tree(found), Opening, pc \in {"write", "remove", "close"}, NEW data
    PROVE  /\ Stored(request, data, {})[request.target] = found[request.target]
           /\ \A gone : request.dest \notin gone => Stored(request, data, gone)[request.dest] = <<>> \o data
           /\ DataOf(request) = found[request.target] /\ DataOf(request) \in Contents
<1>1. request.target \in Paths /\ request.dest \in Paths /\ PlaceOf(request) = request.dest
  BY RequestFields DEF Moving, PlaceOf
<1>2. WithParent(found, request.dest)[request.target] = found[request.target]
  BY <1>1, TreeWithParent DEF Opening, Moving
<1>3. DataOf(request) = found[request.target] /\ DataOf(request) \in Contents
  BY <1>1, FileHasContents DEF Moving, DataOf, Tree
<1> QED BY <1>1, <1>2, <1>3 DEF Stored, PriorOf, Moving

\* While a move is under way, its content is somewhere.
LEMMA BusyKeeps == ASSUME Inv, pc # "idle", Moving, Intact PROVE MoveKeepsContent
<1>1. /\ Tree(found) /\ request \in Requests /\ request.cmd = "MV" /\ request.dest # request.target
      /\ pc \in StepOf(request.cmd) /\ NothingDone /\ Writing /\ Opening /\ HasRead
  BY BusyFacts DEF Moving
<1>2. pc \in {"read", "open", "write", "remove", "close"}
  BY <1>1 DEF StepOf
<1>3. CASE pc \in {"read", "open"}
  BY <1>1, <1>3 DEF NothingDone, MoveKeepsContent
<1>4. CASE pc = "write"
  BY <1>1, <1>4, StoredElsewhere DEF Writing, MoveKeepsContent
<1>5. CASE pc \in {"remove", "close"} /\ GoneNow = {}
  <2>1. \E data : disk = Stored(request, data, {})
    BY <1>1, <1>5 DEF Writing, Stream
  <2> QED BY <1>1, <1>5, <2>1, StoredElsewhere DEF MoveKeepsContent
<1>6. CASE pc \in {"remove", "close"} /\ GoneNow = {request.target}
  <2>1. Stream /\ out.path = request.dest /\ out.good
    BY <1>1, <1>6 DEF Writing, PlaceOf, Intact
  <2>2. DataOf(request) = found[request.target] /\ DataOf(request) \in Contents
    BY <1>1, <1>6, StoredElsewhere
  <2>3. \A data \in Contents : Stored(request, data, GoneNow)[request.dest] = data
    BY <1>1, <1>6, StoredElsewhere, EmptyFirst
  <2>4. CASE disk = Stored(request, DataOf(request), GoneNow)
    BY <2>2, <2>3, <2>4 DEF MoveKeepsContent
  <2>5. CASE out.pending = DataOf(request) /\ disk = Stored(request, <<>>, GoneNow)
    <3>1. disk[request.dest] = <<>> /\ <<>> \in Contents
      BY <2>3, <2>5, TextsAreContents
    <3>2. IsFile(disk, request.dest)
      BY <3>1, ContentsAreNodes DEF IsFile
    <3>3. disk[request.dest] \o out.pending = found[request.target]
      BY <2>2, <2>5, <3>1, EmptyFirst
    <3> QED BY <2>1, <3>2, <3>3 DEF MoveKeepsContent
  <2> QED BY <2>1, <2>4, <2>5 DEF Stream
<1> QED BY <1>2, <1>3, <1>4, <1>5, <1>6 DEF GoneNow

\* The steps that end a request leave a moved file at one of its paths.
LEMMA EndKeeps == ASSUME Inv, Step, pc' = "idle" PROVE MoveKeepsContent'
<1> SUFFICES ASSUME Moving', Intact'
             PROVE  disk'[request.target] = found[request.target] \/ disk'[request.dest] = found[request.target]
  BY StepIsBusy DEF MoveKeepsContent, ghosts
<1>1. pc # "idle" /\ request' = request /\ found' = found
  BY StepIsBusy DEF ghosts
<1>2. /\ Tree(found) /\ request \in Requests /\ request.cmd = "MV" /\ Moving
      /\ pc \in {"read", "open", "write", "remove", "close"} /\ NothingDone /\ Writing /\ Opening /\ HasRead
  BY <1>1, BusyFacts DEF Moving, IsFile, StepOf
<1>3. ~Die
  BY DEF Die, Intact
<1>4. CASE CloseFile
  <2>1. pc = "close" /\ (ended = "no" \/ ended = "threw")
    BY <1>2, <1>4 DEF CloseFile, Writing
  <2>2. PICK data \in Contents :
          /\ disk' = Stored(request, data, GoneNow)
          /\ IF out.good /\ ~silent' THEN data = DataOf(request) ELSE data \in Parts(DataOf(request))
    BY <1>4, CloseStores
  <2>3. CASE ended = "threw"
    <3>1. GoneNow = {}
      BY <2>3 DEF GoneNow
    <3> QED BY <1>2, <2>1, <2>2, <3>1, StoredElsewhere
  <2>4. CASE ended = "no"
    <3>1. GoneNow = {request.target}
      BY <1>2, <2>1, <2>4 DEF GoneNow
    <3>2. out.good /\ ~silent'
      <4>1. tx \in Transactions
        BY <1>1, BusyFacts
      <4>2. tx'.fileResult = IF out.good THEN "SUCCESS" ELSE "WRITE_FAILURE"
        BY <1>4, <2>4, <4>1 DEF CloseFile, Return, Transactions
      <4> QED BY <4>2 DEF Intact
    <3>3. disk'[request.dest] = <<>> \o DataOf(request)
      <4>1. disk' = Stored(request, DataOf(request), GoneNow) /\ request.dest \notin GoneNow
        BY <1>2, <2>2, <3>1, <3>2 DEF Moving
      <4>2. Stored(request, DataOf(request), GoneNow)[request.dest] = <<>> \o DataOf(request)
        BY <1>2, <2>1, <4>1, StoredElsewhere
      <4> QED BY <4>1, <4>2
    <3> QED BY <1>2, <2>1, <3>3, StoredElsewhere, EmptyFirst
  <2> QED BY <2>1, <2>3, <2>4
<1>5. CASE ReadFails
  BY <1>2, <1>5 DEF ReadFails, NothingDone
<1>6. CASE OpenFails
  BY <1>2, <1>6, SamePlace DEF OpenFails
<1> QED BY <1>1, <1>2, <1>3, <1>4, <1>5, <1>6
        DEF Step, NoOperation, ReadFile, ReceiveFails, Receive, OpenFile, WriteShort, WriteLong,
            RemoveSource, RemoveThrows, SendFails, Send, Delete, NextOf

Kept == pc # "idle" => MoveKeepsContent

\* The invariant says so of every state inside a request.
LEMMA InvKept == Inv => Kept
BY BusyKeeps DEF Kept, MoveKeepsContent

\* Every step keeps the content of a move.
LEMMA MoveNext == Inv /\ Kept' /\ MoveKeepsContent /\ [Next]_routerVars => MoveKeepsContent'
<1> SUFFICES ASSUME Inv, Kept', MoveKeepsContent, [Next]_routerVars PROVE MoveKeepsContent'
  OBVIOUS
<1>1. CASE UNCHANGED vars
  BY <1>1 DEF vars, ghosts, MoveKeepsContent, Moving, Intact, IsFile
<1>2. CASE DispatchData
  BY <1>2 DEF DispatchData, Start, MoveKeepsContent
<1>3. CASE DispatchMismatch \/ DispatchUnknown
  BY <1>3 DEF DispatchMismatch, DispatchUnknown, Untouched, MoveKeepsContent
<1>4. CASE Handle /\ pc' = "idle"
  BY <1>4, EndKeeps DEF Handle
<1>5. CASE pc' # "idle"
  BY <1>5 DEF Kept
<1> QED BY <1>1, <1>2, <1>3, <1>4, <1>5 DEF Next, DispatchLogin, routerVars

\* A move to another path never loses the content while no write fails.
THEOREM MoveKeeps == Spec => []MoveKeepsContent
<1>1. RouterInit => MoveKeepsContent
  BY DEF RouterInit, Init, MoveKeepsContent
<1> QED BY <1>1, InvKept, MoveNext, AlwaysInv, PTL DEF Spec

-----------------------------------------------------------------------------
(* The handler implements the abstract service.                            *)

\* While a request is served the service's files are those it found.
LEMMA ServiceTerms ==
    ASSUME pc # "idle"
    PROVE  /\ \A data, gone : Service!After(request, data, gone) = Stored(request, data, gone)
           /\ Service!Data(request) = DataOf(request) /\ Service!Place(request) = PlaceOf(request)
           /\ \A data : Service!Parts(data) = Parts(data)
           /\ \A p : Service!Below(p) = Below(p)
           /\ \A p : Service!WithParent(found, p) = WithParent(found, p)
BY DEF Service!After, Service!Prior, Service!Old, Service!IsFile, Service!WithParent, Service!Data,
       Service!Place, Service!Parts, Service!Below,
       Stored, PriorOf, Old, IsFile, WithParent, DataOf, PlaceOf, Parts, Below

\* Between requests, and at the steps inside one, the service asks or stutters.
LEMMA OpenService ==
    ASSUME Inv, [Next]_routerVars, ~(Step /\ pc' = "idle")
    PROVE  [Service!Next]_Service!vars
<1> USE DEF Service!vars
<1>1. CASE UNCHANGED vars
  BY <1>1 DEF vars, ghosts
<1>2. CASE DispatchData
  <2>1. PICK q \in Requests : Start(q)
    BY <1>2 DEF DispatchData
  <2>2. pc = "idle" /\ pc' # "idle" /\ request' = q /\ found' = disk
    BY <2>1, RequestFields DEF Start, FirstStep, Commands
  <2>3. Service!Ask
    BY <2>1, <2>2, NoneAssumption DEF Service!Ask
  <2> QED BY <2>3 DEF Service!Next
<1>3. CASE DispatchMismatch \/ DispatchUnknown
  <2>1. pc = "idle" /\ pc' = "idle" /\ ended' = "no" /\ disk' = disk
    BY <1>3 DEF DispatchMismatch, DispatchUnknown, Untouched
  <2> QED BY <2>1 DEF Service!Next, Service!Ignore
<1>4. CASE Handle
  <2>1. pc # "idle" /\ pc' # "idle" /\ request' = request /\ found' = found
    BY <1>4, StepIsBusy DEF Handle, ghosts
  <2> QED BY <2>1
<1> QED BY <1>1, <1>2, <1>3, <1>4 DEF Next, DispatchLogin, routerVars

\* The answer a step gives when it ends the request.
Given(result) ==
    /\ pc' = "idle" /\ ended' = "returned"
    /\ tx'.fileResult = result /\ tx'.status = StatusOf(request.cmd, result)
Told(result) ==
    [result |-> result, status |-> StatusOf(request.cmd, result), ended |-> "returned",
     sent |-> sent', silent |-> silent']

\* An answer that one of the ends of the service allows ends the request there.
LEMMA GivenAnswer ==
    ASSUME NEW result, Given(result), UNCHANGED ghosts, pc # "idle", request \in Requests,
           \/ Service!Succeed(request, Told(result)) \/ Service!Refuse(request, Told(result))
           \/ Service!FailToWrite(request, Told(result)) \/ Service!FailToDelete(request, Told(result))
    PROVE  Service!End
BY NoneAssumption DEF Told, Given, StatusOf, Service!End, Service!Answer

\* A return gives the answer with that result.
LEMMA ReturnGives ==
    ASSUME NEW result, Return(result), Inv, pc # "idle"
    PROVE  Given(result)
BY BusyFacts DEF Return, Given, Transactions

\* The files stay, and the handler throws.
LEMMA ThrowNothing ==
    ASSUME Inv, pc # "idle", Throw, UNCHANGED ghosts, disk' = found
    PROVE  Service!End
<1>1. request \in Requests /\ tx.status = "PENDING"
  BY BusyFacts DEF SameRequest
<1> QED BY <1>1, NoneAssumption DEF Throw, Service!End, Service!Throw

\* The files stay, and the handler refuses or could not send.
LEMMA RefuseNothing ==
    ASSUME Inv, pc # "idle", UNCHANGED ghosts, disk' = found, NEW result, Return(result),
           \/ result \in {"NOT_FOUND", "OPEN_FAILURE", "READ_FAILED"}
           \/ result = "WRITE_FAILURE" /\ request.cmd = "TX"
    PROVE  Service!End
<1>1. Given(result) /\ request \in Requests
  BY ReturnGives, BusyFacts
<1>2. Service!Refuse(request, Told(result)) \/ Service!FailToWrite(request, Told(result))
  BY <1>1 DEF Given, Told, Service!Refuse, Service!FailToWrite
<1> QED BY <1>1, <1>2, GivenAnswer

\* Calls that change no file.
LEMMA FailServes ==
    ASSUME Inv, NoOperation \/ ReadFails \/ ReceiveFails \/ SendFails \/ Send
    PROVE  Service!End
<1>1. /\ pc \in {"nothing", "read", "receive", "send"} /\ UNCHANGED ghosts /\ disk' = disk
  BY DEF NoOperation, ReadFails, ReceiveFails, SendFails, Send
<1>2. /\ request \in Requests /\ disk = found /\ HasRead
      /\ pc \in StepOf(request.cmd) /\ request.cmd \in Commands
  BY <1>1, BusyFacts DEF NothingDone
<1>3. CASE NoOperation
  <2>1. Given("SUCCESS") /\ pc = "nothing" /\ pc' = "idle"
    BY <1>3, ReturnGives DEF NoOperation, Return
  <2>2. request.cmd = "NOP"
    BY <1>2, <2>1 DEF StepOf, Commands
  <2>3. Service!Succeed(request, Told("SUCCESS"))
    BY <1>1, <1>2, <2>1, <2>2 DEF Told, Service!Succeed
  <2> QED BY <1>1, <1>2, <2>1, <2>3, GivenAnswer
<1>4. CASE Send
  <2>1. Given("SUCCESS") /\ pc = "send" /\ pc' = "idle" /\ sent' = buffer
    BY <1>4, ReturnGives DEF Send, Return
  <2>2. request.cmd = "TX" /\ buffer = found[request.target]
    BY <1>2, <2>1 DEF StepOf, Commands, HasRead
  <2>3. Service!Succeed(request, Told("SUCCESS"))
    BY <1>1, <1>2, <2>1, <2>2 DEF Told, Service!Succeed
  <2> QED BY <1>1, <1>2, <2>1, <2>3, GivenAnswer
<1>5. CASE ReadFails \/ ReceiveFails
  BY <1>1, <1>2, <1>5, ThrowNothing, RefuseNothing DEF ReadFails, ReceiveFails
<1>6. CASE SendFails
  <2>1. request.cmd = "TX"
    BY <1>2, <1>6 DEF SendFails, StepOf, Commands
  <2> QED BY <1>1, <1>2, <1>6, <2>1, ThrowNothing, RefuseNothing DEF SendFails
<1> QED BY <1>3, <1>4, <1>5, <1>6

\* A refusal may leave new directories.
LEMMA OpenFailsServes == ASSUME Inv, OpenFails PROVE Service!End
<1>1. pc = "open" /\ UNCHANGED ghosts
  BY DEF OpenFails
<1>2. disk = found /\ request \in Requests /\ request.cmd \in {"NEW", "RX", "AP", "CP", "MV"}
  BY <1>1, SamePlace, BusyFacts
<1>3. CASE Throw /\ UNCHANGED disk
  BY <1>1, <1>2, <1>3, ThrowNothing
<1>4. CASE disk' = WithParent(disk, tx.target) /\ Return("OPEN_FAILURE")
  <2>1. CASE request.cmd = "MV"
    BY <1>1, <1>2, <1>4, <2>1, SamePlace, RefuseNothing
  <2>2. CASE request.cmd # "MV"
    <3>1. Given("OPEN_FAILURE") /\ pc' = "idle"
      BY <1>1, <1>4, ReturnGives DEF Return
    <3>2. disk' = WithParent(found, PlaceOf(request))
      BY <1>1, <1>2, <1>4, <2>2, SamePlace
    <3>3. disk' = Service!WithParent(found, Service!Place(request))
      BY <1>1, <3>2, ServiceTerms
    <3>4. Service!Refuse(request, Told("OPEN_FAILURE"))
      BY <1>1, <1>2, <2>2, <3>1, <3>3 DEF Told, Service!Refuse, Service!Writes, Service!WithParent
    <3> QED BY <1>1, <1>2, <3>1, <3>4, GivenAnswer
  <2> QED BY <2>1, <2>2
<1> QED BY <1>3, <1>4 DEF OpenFails

\* A removal, whole or not.
LEMMA DeleteServes == ASSUME Inv, Delete PROVE Service!End
<1>1. pc = "delete" /\ UNCHANGED ghosts
  BY DEF Delete
<1>2. /\ disk = found /\ request \in Requests /\ request.cmd = "DEL" /\ tx.target = request.target
  BY <1>1, BusyFacts DEF NothingDone, SameRequest, StepOf, Commands
<1>3. Below(request.target) = Service!Below(request.target)
  BY <1>1, ServiceTerms
<1>4. CASE /\ disk' = [p \in Paths |-> IF p \in Below(tx.target) THEN Absent ELSE disk[p]]
           /\ Return("SUCCESS")
  <2>1. Given("SUCCESS") /\ pc' = "idle"
    BY <1>1, <1>4, ReturnGives DEF Return
  <2>2. Service!Succeed(request, Told("SUCCESS"))
    BY <1>1, <1>2, <1>3, <1>4, <2>1 DEF Told, Service!Succeed
  <2> QED BY <1>1, <1>2, <2>1, <2>2, GivenAnswer
<1>5. CASE /\ \E some \in SUBSET (Below(tx.target) \ {tx.target}) :
                disk' = [p \in Paths |-> IF p \in some THEN Absent ELSE disk[p]]
           /\ Return("UNKNOWN_ERROR")
  <2>1. Given("UNKNOWN_ERROR") /\ pc' = "idle"
    BY <1>1, <1>5, ReturnGives DEF Return
  <2>2. PICK some \in SUBSET (Below(tx.target) \ {tx.target}) :
          disk' = [p \in Paths |-> IF p \in some THEN Absent ELSE disk[p]]
    BY <1>5
  <2>3. some \in SUBSET Service!Below(request.target)
    BY <1>2, <1>3, <2>2
  <2>4. Service!FailToDelete(request, Told("UNKNOWN_ERROR"))
    BY <1>1, <1>2, <2>1, <2>2, <2>3 DEF Told, Service!FailToDelete
  <2> QED BY <1>1, <1>2, <2>1, <2>4, GivenAnswer
<1> QED BY <1>4, <1>5 DEF Delete

\* The end of a write is one step of the service, whatever its parts were.
LEMMA CloseServes == ASSUME Inv, CloseFile PROVE Service!End
<1>1. pc = "close" /\ pc' = "idle" /\ UNCHANGED ghosts
  BY DEF CloseFile, Return, Throw
<1>2. /\ request \in Requests /\ request.cmd \in {"NEW", "RX", "AP", "CP", "MV"} /\ tx.status = "PENDING"
      /\ Writing /\ (ended = "no" \/ (request.cmd = "MV" /\ ended = "threw"))
  BY <1>1, BusyFacts DEF StepOf, Commands, SameRequest, Writing
<1>3. PICK data \in Contents :
        /\ disk' = Stored(request, data, GoneNow)
        /\ IF out.good /\ ~silent' THEN data = DataOf(request) ELSE data \in Parts(DataOf(request))
  BY CloseStores
<1>4. CASE ended = "threw"
  <2>1. GoneNow = {} /\ request.cmd = "MV" /\ Throw
    BY <1>2, <1>4 DEF GoneNow, CloseFile
  <2>2. data \in Service!Parts(Service!Data(request)) \union {Service!Data(request)}
    BY <1>1, <1>3, ServiceTerms
  <2>3. disk' = Service!After(request, data, {})
    BY <1>1, <1>3, <2>1, ServiceTerms
  <2>4. Service!Throw(request)
    BY <1>1, <1>2, <2>1, <2>2, <2>3 DEF Throw, Service!Throw
  <2> QED BY <1>1, <1>2, <2>4, NoneAssumption DEF Service!End
<1>5. CASE ended = "no"
  <2>1. GoneNow = Service!Gone(request) /\ Service!Writes(request)
    BY <1>1, <1>2, <1>5 DEF GoneNow, Service!Gone, Service!Writes
  <2>2. disk' = Service!After(request, data, Service!Gone(request))
    BY <1>1, <1>3, <2>1, ServiceTerms
  <2>3. ~(out.good /\ ~silent') => data \in Service!Parts(Service!Data(request))
    BY <1>1, <1>3, ServiceTerms
  <2>4. CASE out.good
    <3>1. Return("SUCCESS")
      BY <1>5, <2>4 DEF CloseFile
    <3>2. Given("SUCCESS")
      BY <1>1, <3>1, ReturnGives
    <3>3. ~silent' => data = Service!Data(request)
      BY <1>1, <1>3, <2>4, ServiceTerms
    <3>4. Service!Succeed(request, Told("SUCCESS"))
      <4>1. CASE silent'
        BY <1>1, <2>1, <2>2, <2>3, <4>1 DEF Told, Service!Succeed
      <4>2. CASE ~silent'
        BY <1>1, <2>1, <2>2, <3>3, <4>2 DEF Told, Service!Succeed
      <4> QED BY <4>1, <4>2
    <3> QED BY <1>1, <1>2, <3>2, <3>4, GivenAnswer
  <2>5. CASE ~out.good
    <3>1. Return("WRITE_FAILURE")
      BY <1>5, <2>5 DEF CloseFile
    <3>2. Given("WRITE_FAILURE")
      BY <1>1, <3>1, ReturnGives
    <3>3. Service!FailToWrite(request, Told("WRITE_FAILURE"))
      BY <1>1, <2>1, <2>2, <2>3, <2>5 DEF Told, Service!FailToWrite
    <3> QED BY <1>1, <1>2, <3>2, <3>3, GivenAnswer
  <2> QED BY <2>4, <2>5
<1> QED BY <1>2, <1>4, <1>5

\* A process that dies leaves everything alone that the request does not name.
LEMMA DieServes == ASSUME Inv, Die PROVE Service!End
<1>1. pc # "idle" /\ pc' = "idle" /\ UNCHANGED ghosts /\ disk' = disk /\ ended' = "died"
  BY DEF Die
<1>2. /\ request \in Requests /\ pc \in StepOf(request.cmd) /\ request.cmd \in Commands
      /\ NothingDone /\ Writing
  BY <1>1, BusyFacts
<1>3. \/ disk = found
      \/ \E data : \E gone \in SUBSET {request.target} : disk = Stored(request, data, gone)
  <2>1. CASE pc \in {"read", "receive", "open", "delete", "nothing", "send"}
    BY <1>2, <2>1 DEF NothingDone
  <2>2. CASE pc = "write"
    <3>1. disk = Stored(request, <<>>, {}) /\ {} \in SUBSET {request.target}
      BY <1>2, <2>2 DEF Writing
    <3> QED BY <3>1
  <2>3. CASE pc \in {"remove", "close"}
    <3>1. GoneNow \in SUBSET {request.target}
      BY DEF GoneNow
    <3>2. \E data : disk = Stored(request, data, GoneNow)
      BY <1>2, <2>3 DEF Writing, Stream
    <3> QED BY <3>1, <3>2
  <2> QED BY <1>2, <2>1, <2>2, <2>3 DEF StepOf, Commands
<1>4. ASSUME NEW p \in Paths \ (Below(request.target) \union {PlaceOf(request), Parent[PlaceOf(request)]})
      PROVE  disk'[p] = found[p]
  <2>1. request.target \in Below(request.target)
    BY DEF Below
  <2>2. \A data : \A gone \in SUBSET {request.target} : Stored(request, data, gone)[p] = found[p]
    BY <1>4, <2>1 DEF Stored, WithParent
  <2> QED BY <1>1, <1>3, <2>2
<1>5. Service!Die(request)
  BY <1>1, <1>4, ServiceTerms DEF Service!Die
<1> QED BY <1>1, <1>2, <1>5, NoneAssumption DEF Service!End

\* handleDataSync() under dispatch() does what the results of the requests say:
\* what was stored, sent or deleted is what the answer tells, a refusal changed no
\* file, and nothing but the paths named was touched, whatever failed.
THEOREM ServiceImplemented == Spec => ImplementsService
<1>1. RouterInit => Service!Init
  BY ContentsAreNodes DEF RouterInit, Init, Service!Init, Service!Nodes, Service!Contents, Nodes, Contents
<1>2. Inv /\ [Next]_routerVars => [Service!Next]_Service!vars
  <2> SUFFICES ASSUME Inv, [Next]_routerVars PROVE [Service!Next]_Service!vars
    OBVIOUS
  <2>1. CASE Step /\ pc' = "idle"
    <3>1. Service!End
      BY <2>1, FailServes, OpenFailsServes, DeleteServes, CloseServes, DieServes
         DEF Step, ReadFile, Receive, OpenFile, WriteShort, WriteLong, RemoveSource, RemoveThrows, NextOf
    <3> QED BY <3>1 DEF Service!Next
  <2>2. CASE ~(Step /\ pc' = "idle")
    BY <2>2, OpenService
  <2> QED BY <2>1, <2>2
<1> QED BY <1>1, <1>2, AlwaysInv, PTL DEF Spec, ImplementsService, Service!Spec
=============================================================================
