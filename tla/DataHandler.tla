---------------------------- MODULE DataHandler ----------------------------
(***************************************************************************)
(* The data handler of src/src/RequestRouter/datahandler.cpp:              *)
(* handleDataSync() serves one transaction over the file system and a      *)
(* WebSocket.  One step is one call that may fail, or where the process    *)
(* may die: read, create_directories and open, write, remove, close, send. *)
(*                                                                         *)
(* An ofstream keeps a short text in its buffer and hands a long one to    *)
(* the operating system at once; good() is asked before the buffer is      *)
(* flushed, and the destructor that flushes it reports nothing.            *)
(***************************************************************************)
EXTENDS FileTree

CONSTANTS BufLen,      \* texts of this length and above are written through
          MaxBlocks    \* bound: blocks of a file

ASSUME BoundsAssumption == BufLen \in Nat \ {0} /\ MaxBlocks \in Nat

Texts == UNION {[1..n -> Blocks] : n \in 0..MaxBlocks}

VARIABLES disk,        \* Paths -> what is there
          tx,          \* the dataTransaction, as the handler changes it
          buffer,      \* *tx.data.buffer
          out,         \* the open ofstream: path, text in its buffer, good()
          pc,          \* the step the handler is at; "idle": none
          ended,       \* how the last call ended: "returned", "threw", "died"
          request,     \* ghost: the transaction as it came
          found,       \* ghost: the disk as it was then
          sent,        \* ghost: what was written to the WebSocket, or Absent
          silent       \* ghost: the flush of the destructor lost a part

ghosts == <<request, found>>
vars   == <<disk, tx, buffer, out, pc, ended, ghosts, sent, silent>>

Commands == {"NOP", "TX", "RX", "NEW", "CP", "MV", "DEL", "AP"}

\* Only a copy and a move have a destination; an append brings its text with it,
\* and an RX finds one at the peer.
Requests ==
    [cmd : {"NOP", "TX", "NEW", "DEL"}, target : Paths, dest : {Top}, data : {<<>>}]
      \union [cmd : {"CP", "MV"}, target : Paths, dest : Paths, data : {<<>>}]
      \union [cmd : {"RX", "AP"}, target : Paths, dest : {Top}, data : Texts]

Closed == [path |-> Top, pending |-> <<>>, good |-> TRUE]
Opened(p) == [path |-> p, pending |-> <<>>, good |-> TRUE]

Transaction(q) ==
    [cmd |-> q.cmd, target |-> q.target, dest |-> q.dest, fileResult |-> "PENDING", status |-> "PENDING"]

Init ==
    /\ disk \in [Paths -> {Absent, Directory}]
    /\ \A p \in Paths : disk[p] = Directory => Parent[p] = Top /\ Below(p) # {p}
    /\ request \in {q \in Requests : q.cmd = "NOP"}
    /\ found = disk
    /\ tx = Transaction(request)
    /\ buffer = <<>> /\ out = Closed
    /\ pc = "idle" /\ ended = "no"
    /\ sent = Absent /\ silent = FALSE

-----------------------------------------------------------------------------
(* How a call ends                                                         *)

\* Faulty variant: a failed request keeps the status it came with.
StatusLost(cmd, result) == IF result = "SUCCESS" THEN "SUCCESS" ELSE "PENDING"

\* The status an operation derives from its result; an append sets none.
StatusOf(cmd, result) ==
    IF cmd = "AP" THEN "PENDING" ELSE IF result = "SUCCESS" THEN "SUCCESS" ELSE "FAILURE"

Return(result) ==
    /\ pc' = "idle" /\ ended' = "returned"
    /\ tx' = [tx EXCEPT !.fileResult = result, !.status = StatusOf(tx.cmd, result)]

Throw == pc' = "idle" /\ ended' = "threw" /\ UNCHANGED tx

-----------------------------------------------------------------------------
(* The steps                                                               *)

\* The switch over OP, which has these eight values and is never cast to another.
FirstStep(cmd) ==
    CASE cmd \in {"TX", "CP", "MV"} -> "read"
      [] cmd \in {"NEW", "AP"} -> "open"
      [] cmd = "RX" -> "receive"
      [] cmd = "DEL" -> "delete"
      [] cmd = "NOP" -> "nothing"

Start(q) ==
    /\ pc = "idle"
    /\ q.cmd = "AP" => Len(Old(disk, q.target)) + Len(q.data) <= MaxBlocks
    /\ request' = q /\ found' = disk
    /\ tx' = Transaction(q)
    /\ buffer' = q.data
    /\ pc' = FirstStep(q.cmd)
    /\ ended' = "no" /\ sent' = Absent /\ silent' = FALSE
    /\ UNCHANGED <<disk, out>>

NoOperation == pc = "nothing" /\ Return("SUCCESS") /\ UNCHANGED <<disk, buffer, out, ghosts, sent, silent>>

\* readBinaryFile() fails.  If the size cannot be had, resize() throws before the
\* error code is looked at.
ReadFails ==
    /\ pc = "read"
    /\ \/ ~IsFile(disk, tx.target) /\ Return("NOT_FOUND")
       \/ Throw
       \/ /\ IsFile(disk, tx.target) /\ disk[tx.target] # <<>>
          /\ Return("OPEN_FAILURE") \/ Return("READ_FAILED")
    /\ UNCHANGED <<disk, buffer, out, ghosts, sent, silent>>

\* Faulty variant: a move is retargeted as a copy is, and removes what it has written.
RetargetedMove(t) == IF t.cmd \in {"CP", "MV"} THEN [t EXCEPT !.target = t.dest] ELSE t

\* A copy is written by the function that writes to the target.
Retargeted(t) == IF t.cmd = "CP" THEN [t EXCEPT !.target = t.dest] ELSE t

\* Faulty variant: moveFile() removes the source before the destination is opened.
ReadFileRemoving ==
    /\ pc = "read" /\ IsFile(disk, tx.target)
    /\ buffer' = disk[tx.target]
    /\ disk' = IF tx.cmd = "MV" THEN [disk EXCEPT ![tx.target] = Absent] ELSE disk
    /\ pc' = IF tx.cmd = "TX" THEN "send" ELSE "open"
    /\ tx' = Retargeted(IF tx.cmd = "MV" THEN tx ELSE [tx EXCEPT !.fileResult = "SUCCESS"])
    /\ UNCHANGED <<out, ended, ghosts, sent, silent>>

ReadFile ==
    /\ pc = "read" /\ IsFile(disk, tx.target)
    /\ buffer' = disk[tx.target]
    /\ pc' = IF tx.cmd = "TX" THEN "send" ELSE "open"
    /\ tx' = Retargeted(IF tx.cmd = "MV" THEN tx ELSE [tx EXCEPT !.fileResult = "SUCCESS"])
    /\ UNCHANGED <<disk, out, ended, ghosts, sent, silent>>

ReceiveFails ==
    /\ pc = "receive"
    /\ Return("READ_FAILED") \/ Throw
    /\ UNCHANGED <<disk, buffer, out, ghosts, sent, silent>>

Receive ==
    /\ pc = "receive"
    /\ tx' = [tx EXCEPT !.fileResult = "SUCCESS"]
    /\ pc' = "open"
    /\ UNCHANGED <<disk, buffer, out, ended, ghosts, sent, silent>>

\* The path an operation opens.
Place == IF tx.cmd = "MV" THEN tx.dest ELSE tx.target

\* Directories are made for the target, whatever is opened then.
OpenFails ==
    /\ pc = "open"
    /\ \/ Parent[tx.target] # Top /\ disk[Parent[tx.target]] # Directory /\ Throw /\ UNCHANGED disk
       \/ /\ CanMakeParent(disk, tx.target)
          /\ disk' = WithParent(disk, tx.target)
          /\ Return("OPEN_FAILURE")
    /\ UNCHANGED <<buffer, out, ghosts, sent, silent>>

\* Faulty variant: an append truncates.
OpenedTruncated(cmd, content) == <<>>

\* What is left of a file when it is opened.
OpenedContent(cmd, content) == IF cmd = "AP" THEN content ELSE <<>>

OpenFile ==
    /\ pc = "open"
    /\ CanMakeParent(disk, tx.target) /\ CanOpen(WithParent(disk, tx.target), Place)
    /\ disk' = [WithParent(disk, tx.target) EXCEPT ![Place] = OpenedContent(tx.cmd, Old(disk, Place))]
    /\ out' = Opened(Place)
    /\ pc' = IF tx.cmd = "NEW" THEN "close" ELSE "write"
    /\ UNCHANGED <<tx, buffer, ended, ghosts, sent, silent>>

NextOf(cmd) == IF cmd = "MV" THEN "remove" ELSE "close"

WriteShort ==
    /\ pc = "write" /\ Len(buffer) < BufLen
    /\ out' = [out EXCEPT !.pending = buffer]
    /\ pc' = NextOf(tx.cmd)
    /\ UNCHANGED <<disk, tx, buffer, ended, ghosts, sent, silent>>

WriteLong ==
    /\ pc = "write" /\ Len(buffer) >= BufLen
    /\ \/ disk' = [disk EXCEPT ![out.path] = @ \o buffer] /\ UNCHANGED out
       \/ /\ \E part \in Parts(buffer) : disk' = [disk EXCEPT ![out.path] = @ \o part]
          /\ out' = [out EXCEPT !.good = FALSE]
    /\ pc' = NextOf(tx.cmd)
    /\ UNCHANGED <<tx, buffer, ended, ghosts, sent, silent>>

\* The end of moveFile(): the target goes whatever became of the write, with the
\* destination still open; a file moved to itself is unlinked while it is written.
RemoveSource ==
    /\ pc = "remove"
    /\ disk' = [disk EXCEPT ![tx.target] = Absent]
    /\ out' = IF out.path = tx.target THEN [out EXCEPT !.path = Top] ELSE out
    /\ pc' = "close"
    /\ UNCHANGED <<tx, buffer, ended, ghosts, sent, silent>>

\* remove_all() throws, and the stream is closed on the way out.
RemoveThrows ==
    /\ pc = "remove"
    /\ pc' = "close" /\ ended' = "threw"
    /\ UNCHANGED <<disk, tx, buffer, out, ghosts, sent, silent>>

\* What the destructor of the stream leaves of the file it wrote to.
Flushed(written) ==
    disk' = IF out.path = Top THEN disk ELSE [disk EXCEPT ![out.path] = @ \o written]

CloseFile ==
    /\ pc = "close"
    /\ \/ Flushed(out.pending) /\ UNCHANGED silent
       \/ \E part \in Parts(out.pending) : Flushed(part) /\ silent' = TRUE
    /\ out' = Closed
    /\ IF ended = "threw" THEN Throw
       ELSE Return(IF out.good THEN "SUCCESS" ELSE "WRITE_FAILURE")
    /\ UNCHANGED <<buffer, ghosts, sent>>

SendFails ==
    /\ pc = "send"
    /\ Return("WRITE_FAILURE") \/ Throw
    /\ UNCHANGED <<disk, buffer, out, ghosts, sent, silent>>

Send ==
    /\ pc = "send"
    /\ sent' = buffer
    /\ Return("SUCCESS")
    /\ UNCHANGED <<disk, buffer, out, ghosts, silent>>

\* remove_all() with an error code: what it had removed before it failed is gone.
Delete ==
    /\ pc = "delete"
    /\ \/ /\ disk' = [p \in Paths |-> IF p \in Below(tx.target) THEN Absent ELSE disk[p]]
          /\ Return("SUCCESS")
       \/ /\ \E some \in SUBSET (Below(tx.target) \ {tx.target}) :
               disk' = [p \in Paths |-> IF p \in some THEN Absent ELSE disk[p]]
          /\ Return("UNKNOWN_ERROR")
    /\ UNCHANGED <<buffer, out, ghosts, sent, silent>>

\* The process dies in the middle of a request, and a new one begins with what is
\* on the disk.
Die ==
    /\ pc # "idle"
    /\ pc' = "idle" /\ ended' = "died"
    /\ out' = Closed /\ buffer' = <<>>
    /\ UNCHANGED <<disk, tx, ghosts, sent, silent>>

Step ==
    \/ NoOperation \/ ReadFails \/ ReadFile \/ ReceiveFails \/ Receive
    \/ OpenFails \/ OpenFile \/ WriteShort \/ WriteLong
    \/ RemoveSource \/ RemoveThrows \/ CloseFile
    \/ SendFails \/ Send \/ Delete \/ Die
=============================================================================
