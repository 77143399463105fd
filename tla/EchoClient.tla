----------------------------- MODULE EchoClient -----------------------------
(***************************************************************************)
(* The line client: AsyncEchoClient (src/src/web/client.cpp), driven by    *)
(* main() of main.cpp (inProcess: the server runs in the same process) or  *)
(* of client_main.cpp.  The main thread blocks on the future of each       *)
(* coroutine; a second thread runs the client's io_context.  The actions   *)
(* say nothing of the far end: EchoLoop and EchoSystem conjoin each one    *)
(* that touches the connection with what it does there.                    *)
(***************************************************************************)
CONSTANTS Lines,          \* the non-empty lines a user types
          ShutdownLine    \* "/shutdown"

ASSUME ShutdownLineAssumption == ShutdownLine \in Lines

VARIABLES inProcess,  \* the program is main.cpp, as against client_main.cpp
          pc,         \* the main thread
          line,       \* the line it read last
          reply,      \* the reply it got last
          co,         \* the coroutine: its operation in flight, or its outcome
          sock,       \* socket_: "none", "open" or "closed"
          clientIo,   \* the io_context: "working", "draining" (guard reset), "stopped"
          ioReturned  \* the io thread came back from run()

clientVars == <<inProcess, pc, line, reply, co, sock, clientIo, ioReturned>>

NoLine == "no line"

ClientInit ==
    /\ inProcess \in BOOLEAN
    /\ pc = "connecting"
    /\ line = NoLine /\ reply = NoLine
    /\ co = "connect"
    /\ sock = "none"
    /\ clientIo = "working"
    /\ ioReturned = FALSE

-----------------------------------------------------------------------------
(* The coroutines, on the client's io thread                               *)

\* An operation in flight completes only while the io_context runs.
InFlight(op) == co = op /\ clientIo # "stopped" /\ ~ioReturned

ConnectDone ==
    /\ InFlight("connect")
    /\ co' = "value"
    /\ sock' = "open"
    /\ UNCHANGED <<inProcess, pc, line, reply, clientIo, ioReturned>>

\* Faulty variant: the reply is not waited for.
WriteAndForget ==
    /\ InFlight("write")
    /\ co' = "value"
    /\ UNCHANGED <<inProcess, pc, line, reply, sock, clientIo, ioReturned>>

WriteDone ==
    /\ InFlight("write")
    /\ co' = "read"
    /\ UNCHANGED <<inProcess, pc, line, reply, sock, clientIo, ioReturned>>

ReadDone(r) ==
    /\ InFlight("read")
    /\ co' = "value"
    /\ reply' = r
    /\ UNCHANGED <<inProcess, pc, line, sock, clientIo, ioReturned>>

\* Faulty variant: the error code is not looked at, and the operation retried.
FailsSilently(op) == InFlight(op) /\ UNCHANGED clientVars

\* Every failed operation throws out of its coroutine, into the future.
Fails(op) ==
    /\ InFlight(op)
    /\ co' = "exception"
    /\ UNCHANGED <<inProcess, pc, line, reply, sock, clientIo, ioReturned>>

\* run() returns when it was stopped, or out of work once the guard is gone.
ClientIoReturn ==
    /\ ~ioReturned
    /\ clientIo = "stopped" \/ (clientIo = "draining" /\ co = "none")
    /\ ioReturned' = TRUE
    /\ UNCHANGED <<inProcess, pc, line, reply, co, sock, clientIo>>

-----------------------------------------------------------------------------
(* The main thread                                                         *)

Goto(p) == pc' = p /\ UNCHANGED <<inProcess, line, reply, co, sock, clientIo, ioReturned>>

Connected ==
    /\ pc = "connecting" /\ co = "value"
    /\ pc' = "prompt" /\ co' = "none"
    /\ UNCHANGED <<inProcess, line, reply, sock, clientIo, ioReturned>>

\* An empty line is skipped; the next one starts a request.
GetLine(l) ==
    /\ pc = "prompt"
    /\ line' = l /\ co' = "write" /\ pc' = "awaiting"
    /\ UNCHANGED <<inProcess, reply, sock, clientIo, ioReturned>>

GetEof == pc = "prompt" /\ Goto("closing")

GetReply ==
    /\ pc = "awaiting" /\ co = "value"
    /\ pc' = IF line = ShutdownLine THEN "closing" ELSE "prompt"
    /\ co' = "none"
    /\ UNCHANGED <<inProcess, line, reply, sock, clientIo, ioReturned>>

\* get() rethrows.  client_main.cpp unwinds, which destroys the client and its
\* socket, and shuts down in its handler; in main.cpp nobody catches and
\* std::terminate ends the process.
GetException ==
    /\ pc \in {"connecting", "awaiting"} /\ co = "exception"
    /\ pc' = IF inProcess THEN "aborted" ELSE "reset"
    /\ co' = "none"
    /\ sock' = "closed"
    /\ UNCHANGED <<inProcess, line, reply, clientIo, ioReturned>>

Close ==
    /\ pc = "closing"
    /\ sock' = "closed" /\ pc' = "reset"
    /\ UNCHANGED <<inProcess, line, reply, co, clientIo, ioReturned>>

ResetWork ==
    /\ pc = "reset"
    /\ clientIo' = "draining" /\ pc' = "stop"
    /\ UNCHANGED <<inProcess, line, reply, co, sock, ioReturned>>

StopClientIo ==
    /\ pc = "stop"
    /\ clientIo' = "stopped"
    /\ pc' = IF inProcess THEN "stop server" ELSE "join"
    /\ UNCHANGED <<inProcess, line, reply, co, sock, ioReturned>>

JoinClient ==
    /\ pc = "join" /\ ioReturned
    /\ Goto(IF inProcess THEN "join server" ELSE "exited")

-----------------------------------------------------------------------------
\* What the client does on its own, without the far end.
ClientStep ==
    \/ ClientIoReturn
    \/ Connected \/ GetReply
    \/ ResetWork \/ StopClientIo \/ JoinClient

\* The user types a line or ends the input, when he likes.
UserStep == GetEof \/ \E l \in Lines : GetLine(l)
=============================================================================
