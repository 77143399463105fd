------------------------------ MODULE WsServer ------------------------------
(***************************************************************************)
(* AsyncEchoServer (src/src/web/server.cpp): the accept loop, one session  *)
(* coroutine per connection, request_stop() called by a session or by the  *)
(* main thread, the io_context that runs all handlers on ONE thread, and   *)
(* the peers.  A coroutine's code between two suspension points is a       *)
(* handler: it starts only when the io thread is free, and other threads   *)
(* interleave with it wherever it touches what they share (stopped_, the   *)
(* acceptor, the io_context).                                              *)
(***************************************************************************)
EXTENDS Naturals, Sequences, FiniteSets

CONSTANTS Conns,      \* the connections peers may open
          FdLimit,    \* sockets with which the process has no descriptor left
          FdSure,     \* sockets with which it may have none, when others hold some
          MaxFrames   \* bound: frames all peers together send

ASSUME FdLimitAssumption   == FdSure \in Nat \ {0} /\ FdLimit \in Nat /\ FdSure <= FdLimit
ASSUME MaxFramesAssumption == MaxFrames \in Nat
ASSUME ConnsAssumption     == IsFiniteSet(Conns)

\* What a peer puts on the wire: an HTTP upgrade request, a text message, the
\* text message that equals options_.termination_command, or a piece of data
\* that is not yet a whole request or frame.
Frames == {"upgrade", "text", "term", "partial"}

\* The threads that may run request_stop(): the main thread, and the io thread
\* on behalf of the session that read the termination command.
Stoppers == {"main", "io"}

VARIABLES stopped,    \* stopped_
          acceptor,   \* acceptor_: "open" or "closed"
          acceptPc,   \* accept_loop: where the coroutine is
          acceptOp,   \* the asynchronous accept in flight, and its outcome
          ioStopped,  \* io_.stop() was called
          ioThread,   \* io_.run(): "running", "returned"; "destroyed" with io_
          stopPc,     \* request_stop(), per calling thread; "absent" for a main thread
                      \* that runs io_.run() itself and makes no call (server_main.cpp)
          conn,       \* each connection, from the backlog to its session's end
          wire,       \* what the peer sent and the session has not consumed
          peer,       \* the peer's end of the connection
          sent        \* frames sent so far, bounded by MaxFrames

acceptVars == <<acceptor, acceptPc, acceptOp>>
ioVars     == <<ioStopped, ioThread>>
stopVars   == <<stopped, stopPc>>
peerVars   == <<wire, peer, sent>>
vars       == <<acceptVars, ioVars, stopVars, conn, peerVars>>

ConnStates == {"new", "refused", "backlog", "accepted", "spawned",
               "handshake", "reading", "stopping", "ended", "dropped"}

\* Connections whose socket the process holds.
OpenSockets ==
    {c \in Conns : conn[c] \in {"accepted", "spawned", "handshake", "reading", "stopping"}}

\* Connections that have a session coroutine.
Sessions ==
    {c \in Conns : conn[c] \in {"spawned", "handshake", "reading", "stopping"}}

\* The one io thread is between two handlers.
IoIdle == acceptPc # "initiate" /\ \A c \in Conns : conn[c] # "stopping"

\* A handler starts only from io_.run(), and none starts after io_.stop().
CanDispatch == ioThread = "running" /\ ~ioStopped /\ IoIdle

-----------------------------------------------------------------------------
(* Construction: open, bind, listen; start() spawns the accept loop.       *)

Init ==
    /\ stopped = FALSE
    /\ acceptor = "open"
    /\ acceptPc = "spawned"
    /\ acceptOp = "none"
    /\ ioStopped = FALSE
    /\ ioThread = "running"
    /\ \E m \in {"idle", "absent"} :
          stopPc = [t \in Stoppers |-> IF t = "main" THEN m ELSE "idle"]
    /\ conn = [c \in Conns |-> "new"]
    /\ wire = [c \in Conns |-> <<>>]
    /\ peer = [c \in Conns |-> "none"]
    /\ sent = 0

-----------------------------------------------------------------------------
(* accept_loop()                                                           *)

\* Faulty variant: a loop that accepts a single connection.
LoopTestOnce == acceptPc' = "done"

\* while (!is_stopped()): go round again or leave the loop.
LoopTest == acceptPc' = IF stopped THEN "done" ELSE "initiate"

AcceptStart ==
    /\ CanDispatch
    /\ acceptPc = "spawned"
    /\ LoopTest
    /\ UNCHANGED <<acceptor, acceptOp, ioVars, stopVars, conn, peerVars>>

\* Faulty variant: the accept is started without co_await, and the loop goes on.
AcceptUnawaited ==
    /\ acceptPc = "initiate"
    /\ acceptOp' = IF acceptor = "open" THEN "pending" ELSE "error"
    /\ LoopTest
    /\ UNCHANGED <<acceptor, ioVars, stopVars, conn, peerVars>>

\* acceptor_.async_accept(): on a closed acceptor it completes with an error.
\* The main thread may have closed the acceptor since the loop test.
AcceptInitiate ==
    /\ acceptPc = "initiate"
    /\ acceptOp' = IF acceptor = "open" THEN "pending" ELSE "error"
    /\ acceptPc' = "waiting"
    /\ UNCHANGED <<acceptor, ioVars, stopVars, conn, peerVars>>

\* The operation completes with a connection from the backlog, or, when the
\* process has no descriptor left, with an error and the backlog as it was.
AcceptReady(c) ==
    /\ CanDispatch
    /\ acceptOp = "pending"
    /\ conn[c] = "backlog"
    /\ \/ /\ Cardinality(OpenSockets) < FdLimit
          /\ acceptOp' = "accepted"
          /\ conn' = [conn EXCEPT ![c] = "accepted"]
       \/ /\ Cardinality(OpenSockets) >= FdSure
          /\ acceptOp' = "error"
          /\ UNCHANGED conn
    /\ UNCHANGED <<acceptor, acceptPc, ioVars, stopVars, peerVars>>

\* The coroutine resumes with a socket: it spawns the session whether or not a
\* stop was requested meanwhile, and then tests the loop condition.
AcceptResumeSocket(c) ==
    /\ CanDispatch
    /\ acceptPc = "waiting"
    /\ acceptOp = "accepted"
    /\ conn[c] = "accepted"
    /\ acceptOp' = "none"
    /\ conn' = [conn EXCEPT ![c] = "spawned"]
    /\ LoopTest
    /\ UNCHANGED <<acceptor, ioVars, stopVars, peerVars>>

\* Faulty variant: every error of accept leaves the loop.
AnyErrorEndsLoop == TRUE

\* An aborted operation leaves the loop, whatever stopped_ says.
ErrorEndsLoop == acceptOp = "aborted"

\* It resumes with an error: an aborted operation or a stop ends the loop, any
\* other error is ignored and the loop goes on.
AcceptResumeError ==
    /\ CanDispatch
    /\ acceptPc = "waiting"
    /\ acceptOp \in {"aborted", "error"}
    /\ acceptOp' = "none"
    /\ IF ErrorEndsLoop THEN acceptPc' = "done" ELSE LoopTest
    /\ UNCHANGED <<acceptor, ioVars, stopVars, conn, peerVars>>

-----------------------------------------------------------------------------
(* request_stop()                                                          *)

\* Faulty variant: stopped_.store(true), with no early return.
StopStore(t) ==
    /\ stopped' = TRUE
    /\ stopPc' = [stopPc EXCEPT ![t] = "cancel"]

\* stopped_.exchange(true): only the first caller goes on.
StopExchange(t) ==
    /\ stopped' = TRUE
    /\ stopPc' = [stopPc EXCEPT ![t] = IF stopped THEN "returned" ELSE "cancel"]

\* An operation already completed is not affected by cancel() or close().
AbortPending == IF acceptOp = "pending" THEN "aborted" ELSE acceptOp

\* Faulty variant: the acceptor is cancelled and not closed.
StopCancelOnly(t) ==
    /\ stopPc[t] = "cancel"
    /\ acceptOp' = AbortPending
    /\ stopPc' = [stopPc EXCEPT ![t] = "iostop"]
    /\ UNCHANGED <<acceptor, acceptPc, ioVars, stopped, conn, peerVars>>

StopCancel(t) ==
    /\ stopPc[t] = "cancel"
    /\ acceptOp' = AbortPending
    /\ stopPc' = [stopPc EXCEPT ![t] = "close"]
    /\ UNCHANGED <<acceptor, acceptPc, ioVars, stopped, conn, peerVars>>

\* Closing the listening socket aborts what is pending on it and resets the
\* connections that still wait in its backlog.
StopClose(t) ==
    /\ stopPc[t] = "close"
    /\ acceptor' = "closed"
    /\ acceptOp' = AbortPending
    /\ conn' = [c \in Conns |-> IF conn[c] = "backlog" THEN "dropped" ELSE conn[c]]
    /\ stopPc' = [stopPc EXCEPT ![t] = "iostop"]
    /\ UNCHANGED <<acceptPc, ioVars, stopped, peerVars>>

\* Faulty variant: the acceptor is closed and the io_context left running.
StopIoForgotten(t) ==
    /\ stopPc[t] = "iostop"
    /\ stopPc' = [stopPc EXCEPT ![t] = "returned"]
    /\ UNCHANGED <<acceptVars, ioVars, stopped, conn, peerVars>>

StopIo(t) ==
    /\ stopPc[t] = "iostop"
    /\ ioStopped' = TRUE
    /\ stopPc' = [stopPc EXCEPT ![t] = "returned"]
    /\ UNCHANGED <<acceptVars, ioThread, stopped, conn, peerVars>>

StopStep(t) == StopCancel(t) \/ StopClose(t) \/ StopIo(t)

\* The program's main thread asks for the stop, at any time of its own.
MainRequestStop ==
    /\ ioThread # "destroyed"
    /\ stopPc["main"] = "idle"
    /\ StopExchange("main")
    /\ UNCHANGED <<acceptVars, ioVars, conn, peerVars>>

-----------------------------------------------------------------------------
(* session_loop()                                                          *)

\* The peer's data does not yet complete what the session waits for.
Incomplete(w) == w = <<>> \/ w = <<"partial">>

PeerGone(c) == peer[c] \in {"closed", "reset"}

SetConn(c, s) == conn' = [conn EXCEPT ![c] = s]

\* Faulty variant: the session reads on without testing stopped_.
ReadAlways(c) == SetConn(c, "reading")

\* while (!is_stopped()) around the next read.
ReadUnlessStopped(c) == SetConn(c, IF stopped THEN "ended" ELSE "reading")

SessionStart(c) ==
    /\ CanDispatch
    /\ conn[c] = "spawned"
    /\ SetConn(c, "handshake")
    /\ UNCHANGED <<acceptVars, ioVars, stopVars, peerVars>>

\* The WebSocket handshake succeeds on a whole upgrade request only.
HandshakeDone(c) ==
    /\ CanDispatch
    /\ conn[c] = "handshake"
    /\ ~Incomplete(wire[c])
    /\ Head(wire[c]) = "upgrade"
    /\ wire' = [wire EXCEPT ![c] = Tail(@)]
    /\ ReadUnlessStopped(c)
    /\ UNCHANGED <<acceptVars, ioVars, stopVars, peer, sent>>

\* An operation of the session fails: the peer is gone and its data is used up,
\* or the data is not what the protocol asks for.  The coroutine ends and its
\* socket is closed.
SessionFail(c) ==
    /\ CanDispatch
    /\ \/ /\ conn[c] \in {"handshake", "reading"}
          /\ Incomplete(wire[c])
          /\ PeerGone(c)
       \/ /\ conn[c] = "handshake"
          /\ ~Incomplete(wire[c])
          /\ Head(wire[c]) # "upgrade"
       \/ /\ conn[c] = "reading"
          /\ ~Incomplete(wire[c])
          /\ Head(wire[c]) \in {"upgrade", "partial"}
    /\ SetConn(c, "ended")
    /\ UNCHANGED <<acceptVars, ioVars, stopVars, peerVars>>

\* An ordinary message is read and dropped: no reply is written.
ReadText(c) ==
    /\ CanDispatch
    /\ conn[c] = "reading"
    /\ wire[c] # <<>> /\ Head(wire[c]) = "text"
    /\ wire' = [wire EXCEPT ![c] = Tail(@)]
    /\ ReadUnlessStopped(c)
    /\ UNCHANGED <<acceptVars, ioVars, stopVars, peer, sent>>

\* Faulty variant: the session leaves its loop without stopping the server.
ReadTerminationBreak(c) ==
    /\ CanDispatch
    /\ conn[c] = "reading"
    /\ wire[c] # <<>> /\ Head(wire[c]) = "term"
    /\ wire' = [wire EXCEPT ![c] = Tail(@)]
    /\ SetConn(c, "ended")
    /\ UNCHANGED <<acceptVars, ioVars, stopVars, peer, sent>>

\* The termination command: the session calls request_stop() in its handler.
ReadTermination(c) ==
    /\ CanDispatch
    /\ conn[c] = "reading"
    /\ wire[c] # <<>> /\ Head(wire[c]) = "term"
    /\ wire' = [wire EXCEPT ![c] = Tail(@)]
    /\ SetConn(c, "stopping")
    /\ StopExchange("io")
    /\ UNCHANGED <<acceptVars, ioVars, peer, sent>>

\* request_stop() returned to the session, which leaves its loop.
SessionStopped(c) ==
    /\ conn[c] = "stopping"
    /\ stopPc["io"] = "returned"
    /\ SetConn(c, "ended")
    /\ UNCHANGED <<acceptVars, ioVars, stopVars, peerVars>>

SessionStep(c) ==
    SessionStart(c) \/ HandshakeDone(c) \/ SessionFail(c) \/ ReadText(c)
      \/ ReadTermination(c)

-----------------------------------------------------------------------------
(* io_.run() and the end of the program                                    *)

\* run() returns when it was stopped, or when no coroutine is left to wait for.
IoReturn ==
    /\ ioThread = "running"
    /\ IoIdle
    /\ ioStopped \/ (acceptPc = "done" /\ Sessions = {})
    /\ ioThread' = "returned"
    /\ UNCHANGED <<acceptVars, ioStopped, stopVars, conn, peerVars>>

\* The program destroys the server and the io_context, and with them every
\* suspended coroutine and its socket.  server_main.cpp does so when run() returns
\* to it; main.cpp joins the io thread only after its own request_stop(), which
\* comes after the user's last line and the reply to it, or never.
Teardown ==
    /\ ioThread = "returned"
    /\ stopPc["main"] \in {"absent", "returned"}
    /\ ioThread' = "destroyed"
    /\ acceptor' = "closed"
    /\ acceptOp' = "none"
    /\ acceptPc' = "done"
    /\ conn' = [c \in Conns |-> IF conn[c] \in {"new", "refused", "ended"}
                                  THEN conn[c] ELSE "dropped"]
    /\ UNCHANGED <<ioStopped, stopVars, peerVars>>

-----------------------------------------------------------------------------
(* The peers, over TCP (external)                                          *)

PeerConnect(c) ==
    /\ conn[c] = "new"
    /\ conn' = [conn EXCEPT ![c] = IF acceptor = "open" THEN "backlog" ELSE "refused"]
    /\ peer' = [peer EXCEPT ![c] = "open"]
    /\ UNCHANGED <<acceptVars, ioVars, stopVars, wire, sent>>

\* What is sent to a socket the server has closed changes nothing.
Reachable(c) == conn[c] = "backlog" \/ c \in OpenSockets

PeerSend(c, f) ==
    /\ peer[c] = "open"
    /\ Reachable(c)
    /\ sent < MaxFrames
    /\ sent' = sent + 1
    /\ wire' = [wire EXCEPT ![c] = Append(@, f)]
    /\ UNCHANGED <<acceptVars, ioVars, stopVars, conn, peer>>

\* An orderly close leaves the data to be read, a reset discards it.
PeerClose(c) ==
    /\ peer[c] = "open"
    /\ Reachable(c)
    /\ \/ peer' = [peer EXCEPT ![c] = "closed"] /\ UNCHANGED wire
       \/ peer' = [peer EXCEPT ![c] = "reset"] /\ wire' = [wire EXCEPT ![c] = <<>>]
    /\ UNCHANGED <<acceptVars, ioVars, stopVars, conn, sent>>

PeerStep(c) == PeerConnect(c) \/ PeerClose(c) \/ \E f \in Frames : PeerSend(c, f)

-----------------------------------------------------------------------------
\* The handlers that run accept_loop or complete its operation.
AcceptHandler ==
    \/ AcceptStart
    \/ AcceptResumeError
    \/ \E c \in Conns : AcceptReady(c) \/ AcceptResumeSocket(c)

\* What the io thread does inside a handler it has started.
InHandler == AcceptInitiate \/ \E c \in Conns : SessionStopped(c)

ProgramEnd == IoReturn \/ Teardown

Next ==
    \/ AcceptHandler
    \/ InHandler
    \/ MainRequestStop
    \/ \E t \in Stoppers : StopStep(t)
    \/ \E c \in Conns : SessionStep(c) \/ PeerStep(c)
    \/ ProgramEnd

\* A thread that is inside a handler or inside request_stop() goes on, and the
\* program does return from run().  Completed operations are run from the
\* io_context's FIFO queue, so one that is ready again and again is run in the
\* end: strong fairness, because the io thread is busy in between.  Nothing
\* obliges a peer to send or close, or main.cpp's thread to ask for a stop: it
\* may read from the terminal, or wait for a reply, for ever.
Fairness ==
    /\ WF_vars(InHandler)
    /\ \A t \in Stoppers : WF_vars(StopStep(t))
    /\ WF_vars(ProgramEnd)
    /\ SF_vars(AcceptHandler)
    /\ \A c \in Conns : SF_vars(SessionStep(c))

Spec == Init /\ [][Next]_vars /\ Fairness

-----------------------------------------------------------------------------
(* Properties                                                              *)

\* The accept coroutine waits exactly while it has an accept in flight, and the
\* socket of an accept that has completed is the only one no session owns: no
\* second accept is ever started over the first, and no socket falls between the
\* accept and its session.
AcceptPhases == acceptPc = "waiting" <=> acceptOp # "none"
AcceptedOnce ==
    /\ acceptOp = "accepted" <=> \E c \in Conns : conn[c] = "accepted"
    /\ \A c, d \in Conns : conn[c] = "accepted" /\ conn[d] = "accepted" => c = d

\* Every variable keeps its type, and the accept loop, the accept in flight and
\* the connection it delivers agree.
TypeOK ==
    /\ stopped \in BOOLEAN
    /\ acceptor \in {"open", "closed"}
    /\ acceptPc \in {"spawned", "initiate", "waiting", "done"}
    /\ acceptOp \in {"none", "pending", "accepted", "aborted", "error"}
    /\ ioStopped \in BOOLEAN
    /\ ioThread \in {"running", "returned", "destroyed"}
    /\ stopPc \in [Stoppers -> {"absent", "idle", "cancel", "close", "iostop", "returned"}]
    /\ stopPc["io"] # "absent"
    /\ conn \in [Conns -> ConnStates]
    /\ wire \in [Conns -> Seq(Frames)]
    /\ peer \in [Conns -> {"none", "open", "closed", "reset"}]
    /\ sent \in 0..MaxFrames
    /\ AcceptPhases
    /\ AcceptedOnce

\* The server outlives every connection, every error of accept and every pause
\* without peers: run() returns only after somebody asked for the stop.  It is
\* the accept loop that keeps run() going, so each way out of it must be a stop.
\* (A consequence of ShutdownOrder below.)
ReturnedOnlyAfterStop == ioThread # "running" => stopped

\* However the calls of request_stop() by a session and by the main thread
\* interleave, one thread at a time shuts the acceptor down.
InShutdown(t) == stopPc[t] \in {"cancel", "close", "iostop"}
SingleShutdown == \A t, u \in Stoppers : InShutdown(t) /\ InShutdown(u) => t = u

\* The accept loop may test stopped_ just before the exchange and initiate an
\* accept just after the cancel, or after the close; no accept is left pending
\* on a closed acceptor, and none in a stopped io_context.
NoAcceptLeftPending == (acceptor = "closed" \/ ioStopped) => acceptOp # "pending"

\* The inductive invariant behind the three: how far the shutdown has come is
\* reflected in the acceptor, in the accept in flight and in the io_context.
StopEvidence    == \/ acceptPc = "done" \/ acceptOp = "aborted" \/ acceptor = "closed"
                   \/ ioStopped \/ ioThread # "running" \/ \E t \in Stoppers : InShutdown(t)
StoppedFirst    == StopEvidence => stopped
CloseBeforeStop == ((\E t \in Stoppers : stopPc[t] = "iostop") \/ ioStopped)
                     => acceptor = "closed"
DestroyedIsClosed == ioThread = "destroyed" => acceptor = "closed"
ClosedIsQuiet   == acceptor = "closed" => acceptOp # "pending"
ShutdownOrder ==
    /\ StoppedFirst
    /\ CloseBeforeStop
    /\ DestroyedIsClosed
    /\ ClosedIsQuiet
    /\ SingleShutdown

\* The io thread is inside request_stop() only on behalf of a session that is
\* inside its handler, and run() does not return under such a session.
StopperAlive ==
    /\ InShutdown("io") => \E c \in Conns : conn[c] = "stopping"
    /\ (\E c \in Conns : conn[c] = "stopping") => ioThread = "running"

\* However the stop requests, the accept loop and the sessions interleave, the
\* shutdown keeps its order and its one caller stays alive until it is through.
ShutdownSound == ShutdownOrder /\ StopperAlive

\* A session spawned after the stop request is the last one: the accept that
\* completed while the stop was under way is served, and the loop ends with it.
LastSession ==
    [][(stopped /\ \E c \in Conns : conn[c] = "accepted" /\ conn'[c] = "spawned")
         => acceptPc' = "done"]_vars

\* After the stop request a session takes at most one more message off the wire
\* and never waits for another one.
LastMessage ==
    [][\A c \in Conns :
         (stopped /\ conn[c] = "reading" /\ wire'[c] # wire[c] /\ peer'[c] = peer[c]
            /\ sent' = sent) => conn'[c] # "reading"]_vars

\* After the stop request there is no new work but what was already under way:
\* one session, and one message of each session.
StopIsPrompt == LastSession /\ LastMessage

\* Nothing of the server is left: every connection, be it waiting, in a handshake
\* or in a session whose peer stays silent, is released.
Released ==
    /\ ioThread = "destroyed"
    /\ \A c \in Conns : conn[c] \in {"new", "refused", "ended", "dropped"}

\* A stop request is never lost: whoever makes it, run() returns, and then the
\* server is destroyed with its connections -- by server_main.cpp always, by main.cpp
\* once its main thread asks for the stop too.  That thread may never come to it: it
\* waits for the terminal (src/src/main.cpp:48) or for a reply (line 58), and until
\* then the sessions of a stopped server stay open.
StopCompletes ==
    stopped ~> /\ ioThread # "running"
               /\ stopPc["main"] = "idle" \/ Released

\* A termination command that a session has before it stops the server, unless
\* its peer resets the connection first.
TerminationStops ==
    \A c \in Conns :
      (conn[c] = "reading" /\ wire[c] # <<>> /\ Head(wire[c]) = "term")
        ~> (stopped \/ peer[c] = "reset")

\* Running out of descriptors does not end the service: however many accepts have
\* failed, it does not remain so that a connection waits in the backlog and a
\* descriptor is free, unless a stop was asked for.  (Silent peers are never timed
\* out: that a descriptor is freed is up to them.)
Waiting ==
    /\ Cardinality(OpenSockets) < FdSure
    /\ \E c \in Conns : conn[c] = "backlog"
BacklogServed == Waiting ~> (stopped \/ (~Waiting /\ ioThread = "running"))

-----------------------------------------------------------------------------
(* WsServer implements ServerLifecycle                                     *)

phaseBar == CASE ~stopped -> "up"
              [] stopped /\ ioThread = "running" -> "stopping"
              [] stopped /\ ioThread = "returned" -> "down"
              [] stopped /\ ioThread = "destroyed" -> "destroyed"
waitingBar == {c \in Conns : conn[c] \in {"backlog", "accepted"}}
overBar    == {c \in Conns : conn[c] \in {"refused", "ended", "dropped"}}

Lifecycle == INSTANCE ServerLifecycle WITH
    phase <- phaseBar, waiting <- waitingBar, serving <- Sessions, over <- overBar

\* The server keeps the promises of ServerLifecycle: whatever a step of a coroutine,
\* a stopper or a peer does is one of its steps, or nothing that it can see.
ImplementsLifecycle == Lifecycle!Spec
=============================================================================
