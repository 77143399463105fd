----------------------------- MODULE PipeStream -----------------------------
(***************************************************************************)
(* Text over a named pipe: BasicPipeBuf of                                 *)
(* src/src/MessageBus/policyprotocols/pstream.hpp on the writing side, and *)
(* on the reading side a PipeStream under SyncJsonParser or the descriptor *)
(* of NamedPipe() (src/src/MessageBus/dispatcher.cpp) under                *)
(* AsyncJsonParser (src/src/include/parser/asio_json_parser.hpp).  Both    *)
(* sides open one path after the other with the same stream object.        *)
(*                                                                         *)
(* The kernel: an open for writing waits for a reader, an open for reading *)
(* for a writer unless it is O_NONBLOCK.  A write of up to PipeBuf bytes   *)
(* is atomic; one that waits for room may be interrupted and fail.  A      *)
(* write that no reader is there for kills the process.                    *)
(***************************************************************************)
EXTENDS Naturals, SequencesExt

CONSTANTS Sessions,    \* bound: paths opened one after the other
          TextLen,     \* bound: bytes written to each
          LineLen,     \* every LineLen-th byte is a newline
          PipeBuf,     \* PIPE_BUF, 4096
          FifoSize     \* the kernel's buffer

ASSUME SizesAssumption ==
    /\ {Sessions, TextLen, LineLen, PipeBuf, FifoSize} \subseteq Nat \ {0}
    /\ PipeBuf <= FifoSize

\* Faulty variant: a buffer of which a write may take only a part.
BufferOversize == PipeBuf + 1

\* buffer_size_, 1024: it must not exceed PIPE_BUF, and here is as large as it may be.
BufferSize == PipeBuf

VARIABLES wpc, wn,     \* the writer: "closed", "opening", "open", "dead"; its path
          next,        \* the next byte of its text
          wbad,        \* badbit or failbit of its stream
          put,         \* the put area: pbase to pptr
          rpc, rn,     \* the reader and its path
          async,       \* it is a NamedPipe() under AsyncJsonParser
          rend,        \* the line loop met the end of the file
          get,         \* the get area: gptr to egptr
          line, lines, \* the line being read, and those parsed
          fifo,        \* path -> bytes in the kernel
          failed,      \* ghost: the reader left early, or the writer died
          stuck        \* ghost: a close could not flush

writer == <<wpc, wn, next, wbad, put>>
reader == <<rpc, rn, rend, get, line, lines>>
vars   == <<writer, reader, async, fifo, failed, stuck>>

Byte(s, i) == <<s, i>>
IsEnd(b) == b[2] % LineLen = 0
Bytes == {Byte(s, i) : s \in 1..Sessions, i \in 1..TextLen}

Init ==
    /\ wpc = "closed" /\ wn = 0 /\ next = 1 /\ wbad = FALSE /\ put = <<>>
    /\ rpc = "closed" /\ rn = 0 /\ rend = FALSE /\ get = <<>>
    /\ line = <<>> /\ lines = <<>>
    /\ async \in BOOLEAN
    /\ fifo = [s \in 1..Sessions |-> <<>>]
    /\ failed = FALSE /\ stuck = FALSE

WriterHas(s) == wn = s /\ wpc = "open"
ReaderHas(s) == rn = s /\ rpc = "open"

\* What is in a pipe is gone when nobody has it open any more.
Emptied(s, kept) == IF kept THEN fifo ELSE [fifo EXCEPT ![s] = <<>>]

-----------------------------------------------------------------------------
(* The writer                                                              *)

\* open(): the two sides meet in their open calls.  On a stream that is open it is
\* CloseWriter first.
OpenWriter ==
    /\ wpc = "closed" /\ wn < Sessions
    /\ wn' = wn + 1 /\ next' = 1 /\ wbad' = FALSE
    /\ IF rn = wn' /\ rpc \in {"opening", "open"}
       THEN wpc' = "open" /\ rpc' = "open"
       ELSE wpc' = "opening" /\ UNCHANGED rpc
    /\ UNCHANGED <<put, rn, rend, get, line, lines, async, fifo, failed, stuck>>

\* open() fails, at once or when the wait is interrupted: the stream has its failbit
\* until it is opened again, and takes nothing.
WriterOpenFails ==
    /\ \/ wpc = "closed" /\ wn < Sessions /\ wn' = wn + 1
       \/ wpc = "opening" /\ UNCHANGED wn
    /\ wpc' = "closed" /\ wbad' = TRUE /\ next' = 1
    /\ UNCHANGED <<put, reader, async, fifo, failed, stuck>>

\* What sync() may write of the put area without failing.
Writable == {n \in 1..Len(put) : /\ Len(fifo[wn]) + n <= FifoSize
                                 /\ n = Len(put) \/ Len(put) > PipeBuf}

\* sync() with success: whatever was written, the put area starts afresh.
Synced ==
    /\ ReaderHas(wn)
    /\ \E n \in Writable : fifo' = [fifo EXCEPT ![wn] = @ \o SubSeq(put, 1, n)]

\* A write that waits is interrupted.
SyncFails == ReaderHas(wn) /\ put # <<>> /\ Len(fifo[wn]) + Len(put) > FifoSize /\ UNCHANGED fifo

\* The stream takes the next byte.
PutByte ==
    /\ wpc = "open" /\ ~wbad /\ next <= TextLen
    /\ \/ Len(put) < BufferSize /\ put' = Append(put, Byte(wn, next)) /\ UNCHANGED fifo
       \/ Len(put) = BufferSize /\ Synced /\ put' = <<Byte(wn, next)>>
    /\ next' = next + 1
    /\ UNCHANGED <<wpc, wn, wbad, reader, async, failed, stuck>>

Flush ==
    /\ wpc = "open" /\ ~wbad /\ Synced
    /\ put' = <<>>
    /\ UNCHANGED <<wpc, wn, next, wbad, reader, async, failed, stuck>>

\* overflow() or a flush fails: the byte at hand is dropped, the stream is bad, and
\* what the put area holds stays there.
Spoil ==
    /\ wpc = "open" /\ ~wbad
    /\ SyncFails
    /\ wbad' = TRUE
    /\ UNCHANGED <<wpc, wn, next, put, reader, async, failed, stuck>>

\* Faulty variant: the descriptor is closed without a flush.
CloseUnflushed ==
    /\ wpc = "open"
    /\ fifo' = Emptied(wn, ReaderHas(wn))
    /\ wpc' = "closed"
    /\ UNCHANGED <<wn, next, wbad, put, reader, async, failed, stuck>>

\* close_pipe(): whether sync() succeeded is not asked, and what it could not write
\* waits in the put area for the next pipe that is opened.
CloseWriter ==
    /\ wpc = "open"
    /\ \/ Synced /\ put' = <<>> /\ UNCHANGED stuck
       \/ put = <<>> /\ fifo' = Emptied(wn, ReaderHas(wn)) /\ UNCHANGED <<put, stuck>>
       \/ SyncFails /\ stuck' = TRUE /\ UNCHANGED put
    /\ wpc' = "closed"
    /\ UNCHANGED <<wn, next, wbad, reader, async, failed>>

\* SIGPIPE.
DieWriting ==
    /\ wpc = "open" /\ put # <<>> /\ ~ReaderHas(wn)
    /\ wpc' = "dead" /\ put' = <<>> /\ failed' = TRUE
    /\ fifo' = Emptied(wn, FALSE)
    /\ UNCHANGED <<wn, next, wbad, reader, async, stuck>>

-----------------------------------------------------------------------------
(* The reader                                                              *)

OpenReader ==
    /\ rpc = "closed" /\ rn < Sessions
    /\ rn' = rn + 1 /\ rend' = FALSE
    /\ LET met == wn = rn' /\ wpc \in {"opening", "open"}
       IN  /\ wpc' = IF met THEN "open" ELSE wpc
           /\ rpc' = IF met \/ async THEN "open" ELSE "opening"
    /\ UNCHANGED <<wn, next, wbad, put, get, line, lines, async, fifo, failed, stuck>>

\* The same on the reading side: the line loop has nothing to read from.
ReaderOpenFails ==
    /\ \/ rpc = "closed" /\ rn < Sessions /\ rn' = rn + 1
       \/ rpc = "opening" /\ UNCHANGED rn
    /\ rpc' = "closed" /\ rend' = TRUE
    /\ UNCHANGED <<writer, get, line, lines, async, fifo, failed, stuck>>

Reading == rpc = "open" /\ ~rend /\ get = <<>>

\* underflow() of an empty get area.
Underflow ==
    /\ Reading /\ fifo[rn] # <<>>
    /\ LET n == IF Len(fifo[rn]) < BufferSize THEN Len(fifo[rn]) ELSE BufferSize
       IN  /\ get' = SubSeq(fifo[rn], 1, n)
           /\ fifo' = [fifo EXCEPT ![rn] = SubSeq(@, n + 1, Len(@))]
    /\ UNCHANGED <<writer, rpc, rn, rend, line, lines, async, failed, stuck>>

\* Faulty variant: what was read of a line is forgotten when the next part comes.
ConsumeForgetful ==
    /\ rpc = "open" /\ ~rend /\ get # <<>>
    /\ line' = <<>> /\ lines' = Append(lines, get) /\ get' = <<>>
    /\ UNCHANGED <<writer, rpc, rn, rend, async, fifo, failed, stuck>>

\* getline() takes a line, or all there is of one.
Consume ==
    /\ rpc = "open" /\ ~rend /\ get # <<>>
    /\ LET ends == {i \in DOMAIN get : IsEnd(get[i])}
       IN  IF ends = {}
           THEN line' = line \o get /\ get' = <<>> /\ UNCHANGED lines
           ELSE \E n \in ends :
                  /\ \A m \in ends : n <= m
                  /\ lines' = Append(lines, line \o SubSeq(get, 1, n))
                  /\ line' = <<>>
                  /\ get' = SubSeq(get, n + 1, Len(get))
    /\ UNCHANGED <<writer, rpc, rn, rend, async, fifo, failed, stuck>>

\* read() gave nothing: the synchronous loop takes what it has for the last line, the
\* asynchronous one leaves it in its buffer and calls the handler.
LoopEnds ==
    /\ rend' = TRUE
    /\ IF async \/ line = <<>> THEN UNCHANGED <<line, lines>>
       ELSE lines' = Append(lines, line) /\ line' = <<>>
    /\ UNCHANGED <<writer, rpc, rn, get, async, fifo, stuck>>

\* No writer has the pipe open.  A reader that did not wait for one meets the end
\* before there was a beginning.
EndOfFile ==
    /\ Reading /\ fifo[rn] = <<>> /\ ~WriterHas(rn)
    /\ failed' = (failed \/ wn < rn)
    /\ LoopEnds

\* A read that waits is interrupted, which underflow() takes for the end; asio's
\* reactor does not wait in read().
ReadInterrupted ==
    /\ Reading /\ fifo[rn] = <<>> /\ WriterHas(rn) /\ ~async
    /\ failed' = TRUE
    /\ LoopEnds

\* The reader's program closes the pipe after the loop, or leaves it earlier: between
\* two lines, or when it likes if it reads asynchronously.  The get area of a
\* PipeStream survives; a parser and its buffer go.
CloseReader ==
    /\ rpc = "open"
    /\ line = <<>> \/ async
    /\ rpc' = "closed"
    /\ failed' = (failed \/ ~rend)
    /\ get' = IF async THEN <<>> ELSE get
    /\ line' = <<>>
    /\ fifo' = Emptied(rn, WriterHas(rn))
    /\ UNCHANGED <<writer, rn, rend, lines, async, stuck>>

WriterStep == OpenWriter \/ WriterOpenFails \/ PutByte \/ Flush \/ Spoil \/ CloseWriter \/ DieWriting
ReadStep == Underflow \/ Consume \/ EndOfFile
ReaderStep == OpenReader \/ ReaderOpenFails \/ ReadStep \/ ReadInterrupted \/ CloseReader

Next == WriterStep \/ ReaderStep

\* The reader's loop goes on as long as it is in it.
Spec == Init /\ [][Next]_vars /\ WF_vars(ReadStep)

-----------------------------------------------------------------------------
(* Properties                                                              *)

TypeOK ==
    /\ put \in Seq(Bytes) /\ Len(put) <= BufferSize /\ get \in Seq(Bytes)
    /\ fifo \in [1..Sessions -> Seq(Bytes)]
    /\ \A s \in 1..Sessions : Len(fifo[s]) <= FifoSize
    /\ wn \in 0..Sessions /\ rn \in 0..Sessions
    /\ wpc \in {"closed", "opening", "open", "dead"} /\ rpc \in {"closed", "opening", "open"}

\* The put area, the kernel and the get area together are one channel of lines:
\* nothing is lost, repeated or reordered by full buffers and failed flushes.
Channel == INSTANCE LineChannel WITH
    queue <- line \o get \o FlattenSeq(fifo) \o put, cut <- failed \/ stuck
ImplementsLineChannel == Channel!Spec

\* A pipe carries only what was written to it, unless a close could not flush.
OwnPipe == ~stuck => \A s \in 1..Sessions : \A b \in ToSet(fifo[s]) : b[1] = s

\* A newline that is in the pipe ends a line that is parsed, unless a party failed;
\* and a reader whose writer is gone leaves its loop.
Parsed(b) == \E i \in DOMAIN lines : Last(lines[i]) = b
LinesArrive ==
    /\ \A s \in 1..Sessions : \A b \in {c \in Bytes : IsEnd(c)} :
         b \in ToSet(fifo[s]) ~> Parsed(b) \/ failed
    /\ rpc = "open" /\ ~WriterHas(rn) ~> rend \/ rpc # "open" \/ WriterHas(rn)
=============================================================================
