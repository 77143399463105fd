----------------------------- MODULE EchoSystem -----------------------------
(***************************************************************************)
(* The line client and the WebSocket server connected by TCP.  inProcess   *)
(* is main.cpp, one process whose main thread drives the client and stops  *)
(* the server; otherwise client_main.cpp and server_main.cpp, two          *)
(* processes.  The client's connection is Me; other peers are WebSocket    *)
(* clients that do what WsServer lets a peer do.                           *)
(*                                                                         *)
(* The client writes raw lines where the server expects an HTTP upgrade: a *)
(* line is either rejected by the handshake, or, when it has the shape of  *)
(* a request line (Phrases), taken for the beginning of a request.         *)
(***************************************************************************)
EXTENDS EchoClient, WsServer

CONSTANTS Me,        \* the connection of the client
          Phrases    \* lines the handshake finds incomplete

ASSUME MeAssumption      == Me \in Conns
ASSUME PhrasesAssumption == Phrases \subseteq Lines

loopVars   == <<stopped, acceptor, acceptPc, acceptOp, ioStopped, ioThread, stopPc>>
serverVars == <<loopVars, conn, wire, peer, sent>>
systemVars == <<clientVars, serverVars>>

\* server_main.cpp's main thread runs the io_context; main.cpp's drives the client.
SystemInit == ClientInit /\ Init /\ (inProcess <=> stopPc["main"] = "idle")

-----------------------------------------------------------------------------
(* The client's connection                                                 *)

Payload(l) == IF l \in Phrases THEN "partial" ELSE "text"

ServerClosed == conn[Me] \in {"refused", "ended", "dropped"}

Connect ==
    /\ PeerConnect(Me)
    /\ IF acceptor = "open" THEN ConnectDone ELSE Fails("connect")

Write ==
    \/ /\ Reachable(Me)
       /\ WriteDone
       /\ wire' = [wire EXCEPT ![Me] = Append(@, Payload(line))]
       /\ UNCHANGED <<loopVars, conn, peer, sent>>
    \/ /\ ServerClosed
       /\ WriteDone \/ Fails("write")
       /\ UNCHANGED serverVars

\* The server writes no reply: a read ends with the connection, or never.
Read == ServerClosed /\ Fails("read") /\ UNCHANGED serverVars

\* The client's socket is closed by close(), by its destructor when an exception
\* unwinds, or with the process.
Hangup ==
    /\ Close \/ GetException
    /\ peer' = [peer EXCEPT ![Me] = IF @ = "open" THEN "closed" ELSE @]
    /\ UNCHANGED <<loopVars, conn, wire, sent>>

-----------------------------------------------------------------------------
(* The main thread of main.cpp and its server                              *)

\* Faulty variant: the client's io_context is stopped and the server forgotten.
ServerForgotten == pc = "stop server" /\ Goto("join") /\ UNCHANGED serverVars

RequestServerStop ==
    \/ pc = "stop server" /\ MainRequestStop /\ UNCHANGED clientVars
    \/ /\ pc = "stop server" /\ stopPc["main"] = "returned"
       /\ Goto("join") /\ UNCHANGED serverVars

\* Faulty variant: main() returns without joining the server's thread.
JoinServerSkipped == pc = "join server" /\ Goto("exited") /\ UNCHANGED serverVars

JoinServer == pc = "join server" /\ Teardown /\ Goto("exited")

\* The server's threads run as long as their process does.
OnServer(step) == pc # "aborted" /\ step /\ UNCHANGED clientVars

ServerStep ==
    OnServer(
       \/ AcceptHandler \/ InHandler \/ IoReturn
       \/ \E t \in Stoppers : StopStep(t)
       \/ \E c \in Conns : SessionStep(c)
       \/ Teardown /\ ~inProcess)

OtherPeers == \E c \in Conns \ {Me} : PeerStep(c) /\ UNCHANGED clientVars

ClientIo   == Connect \/ Write \/ Read
ClientMain == Hangup \/ RequestServerStop \/ JoinServer \/ (ClientStep /\ UNCHANGED serverVars)

SystemNext ==
    \/ ClientIo \/ ClientMain \/ ServerStep \/ OtherPeers
    \/ UserStep /\ UNCHANGED serverVars

\* As in WsServer: threads go on, ready handlers are run in the end.
SystemFairness ==
    /\ WF_systemVars(ClientIo) /\ WF_systemVars(ClientMain)
    /\ WF_systemVars(ServerStep)
    /\ SF_systemVars(OnServer(AcceptHandler))
    /\ \A c \in Conns : SF_systemVars(OnServer(SessionStep(c)))
    /\ \A t \in Stoppers : WF_systemVars(OnServer(StopStep(t)))

SystemSpec == SystemInit /\ [][SystemNext]_systemVars /\ SystemFairness

-----------------------------------------------------------------------------
(* Properties                                                              *)

\* A program that has returned left no thread behind: its io threads are joined,
\* and the server, when it ran in the same process, is gone with its sessions.
ExitJoinsAll ==
    pc = "exited" =>
      /\ ioReturned /\ sock = "closed" /\ co = "none"
      /\ inProcess => /\ ioThread = "destroyed"
                      /\ \A t \in Stoppers : ~InShutdown(t)

\* The end of the input ends the program, whatever the server and the other
\* peers are doing: in main.cpp that takes a stop of the server and two joins.
EofEnds == pc = "closing" ~> pc = "exited"

\* Another peer's termination command stopped the io_context of the process: the
\* client's connection is open and unserved, and the main thread, which would
\* destroy it, waits for the reply.
Forsaken == inProcess /\ ioThread = "returned" /\ Me \in OpenSockets

\* The client is in the backlog of a server that may have no descriptor for it, and
\* peers who need not send or close anything hold the others.
Starved == conn[Me] = "backlog" /\ Cardinality(OpenSockets) >= FdSure

\* A line the handshake rejects does not leave the client waiting for a reply that
\* never comes, whatever the server, its accept loop and the other peers do; there
\* are two ways to wait for ever, and in each one the situation is final.
RejectedLineReturns ==
    \/ []<>(pc # "awaiting" \/ line \in Phrases)
    \/ <>[](Forsaken \/ Starved)

\* "Sends a request and waits for the server's echoed reply."
\* (src/src/web/client.cpp:56): every request is answered.
EchoArrives == pc = "awaiting" ~> (co = "value" \/ pc = "prompt")
=============================================================================
