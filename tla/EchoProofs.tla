----------------------------- MODULE EchoProofs -----------------------------
(***************************************************************************)
(* Proofs about the echo server and its client, for every set of lines and *)
(* of connections, every descriptor limit and every number of frames:      *)
(* WsServer by itself, the client against a server that echoes (EchoLoop), *)
(* and the client with WsServer (EchoSystem).                              *)
(***************************************************************************)
EXTENDS EchoLoop, EchoSystem, TLAPS

USE DEF Stoppers, Frames, ConnStates

-----------------------------------------------------------------------------
(* Type correctness                                                        *)

\* The helpers of the session handlers keep conn a function into ConnStates.
LEMMA SetConnType ==
    ASSUME NEW c, NEW s \in ConnStates, TypeOK, SetConn(c, s)
    PROVE  conn' \in [Conns -> ConnStates]
BY DEF TypeOK, SetConn

\* Consuming the first frame of a connection keeps every wire a sequence of
\* frames.
LEMMA ConsumeType ==
    ASSUME NEW c \in Conns, TypeOK, wire[c] # <<>>,
           wire' = [wire EXCEPT ![c] = Tail(@)]
    PROVE  wire' \in [Conns -> Seq(Frames)]
<1>1. wire[c] \in Seq(Frames)
  BY DEF TypeOK
<1>2. Tail(wire[c]) \in Seq(Frames)
  BY <1>1
<1> QED
  BY <1>2 DEF TypeOK

\* Nothing on the wire is a sequence of frames too.
LEMMA NoFrames == <<>> \in Seq(Frames)
OBVIOUS

\* A step that leaves the accept loop and the accepted connections alone, or
\* drops both, keeps them in agreement.
LEMMA AgreeFrame ==
    ASSUME AcceptPhases, AcceptedOnce, acceptPc' = acceptPc, acceptOp' = AbortPending \/ acceptOp' = acceptOp,
           \A c \in Conns : conn'[c] = "accepted" <=> conn[c] = "accepted"
    PROVE  AcceptPhases' /\ AcceptedOnce'
BY DEF AcceptPhases, AcceptedOnce, AbortPending

\* Every step keeps the accept loop, the accept in flight and the connection it
\* delivers in agreement.
LEMMA AgreeStep == ASSUME TypeOK, [Next]_vars PROVE AcceptPhases' /\ AcceptedOnce'
<1> USE DEF TypeOK
<1>1. CASE AcceptHandler
  <2> USE DEF AcceptPhases, AcceptedOnce
  <2>1. CASE AcceptStart \/ AcceptResumeError
    BY <2>1 DEF AcceptStart, AcceptResumeError, LoopTest
  <2>2. ASSUME NEW c \in Conns, AcceptReady(c) PROVE AcceptPhases' /\ AcceptedOnce'
    BY <2>2 DEF AcceptReady
  <2>3. ASSUME NEW c \in Conns, AcceptResumeSocket(c) PROVE AcceptPhases' /\ AcceptedOnce'
    BY <2>3 DEF AcceptResumeSocket, LoopTest
  <2> QED
    BY <1>1, <2>1, <2>2, <2>3 DEF AcceptHandler
<1>2. CASE InHandler
  <2>1. CASE AcceptInitiate
    BY <2>1 DEF AcceptInitiate, AcceptPhases, AcceptedOnce
  <2>2. ASSUME NEW c \in Conns, SessionStopped(c) PROVE AcceptPhases' /\ AcceptedOnce'
    BY <2>2, AgreeFrame DEF SessionStopped, SetConn, acceptVars
  <2> QED
    BY <1>2, <2>1, <2>2 DEF InHandler
<1>3. CASE MainRequestStop
  BY <1>3, AgreeFrame DEF MainRequestStop, acceptVars
<1>4. ASSUME NEW t \in Stoppers, StopStep(t) PROVE AcceptPhases' /\ AcceptedOnce'
  BY <1>4, AgreeFrame DEF StopStep, StopCancel, StopClose, StopIo, acceptVars
<1>5. ASSUME NEW c \in Conns, SessionStep(c) PROVE AcceptPhases' /\ AcceptedOnce'
  BY <1>5, AgreeFrame DEF SessionStep, SessionStart, HandshakeDone, SessionFail, ReadText,
                          ReadTermination, SetConn, ReadUnlessStopped, acceptVars
<1>6. ASSUME NEW c \in Conns, PeerStep(c) PROVE AcceptPhases' /\ AcceptedOnce'
  BY <1>6, AgreeFrame DEF PeerStep, PeerConnect, PeerClose, PeerSend, acceptVars
<1>7. CASE ProgramEnd
  <2>1. CASE IoReturn
    BY <2>1, AgreeFrame DEF IoReturn, acceptVars
  <2>2. CASE Teardown
    BY <2>2 DEF Teardown, AcceptPhases, AcceptedOnce
  <2> QED
    BY <1>7, <2>1, <2>2 DEF ProgramEnd
<1>8. CASE UNCHANGED vars
  BY <1>8, AgreeFrame DEF vars, acceptVars
<1> QED
  BY <1>1, <1>2, <1>3, <1>4, <1>5, <1>6, <1>7, <1>8 DEF Next

\* Every step keeps the types.
LEMMA TypeStep == ASSUME TypeOK, [Next]_vars PROVE TypeOK'
<1>0. AcceptPhases' /\ AcceptedOnce'
  BY AgreeStep
<1> USE <1>0 DEF TypeOK
<1>1. CASE AcceptHandler
  <2>1. CASE AcceptStart
    BY <2>1 DEF AcceptStart, LoopTest, ioVars, stopVars, peerVars
  <2>2. CASE AcceptResumeError
    BY <2>2 DEF AcceptResumeError, LoopTest, ErrorEndsLoop, ioVars, stopVars, peerVars
  <2>3. ASSUME NEW c \in Conns, AcceptReady(c) PROVE TypeOK'
    BY <2>3 DEF AcceptReady, ioVars, stopVars, peerVars
  <2>4. ASSUME NEW c \in Conns, AcceptResumeSocket(c) PROVE TypeOK'
    BY <2>4 DEF AcceptResumeSocket, LoopTest, ioVars, stopVars, peerVars
  <2> QED
    BY <1>1, <2>1, <2>2, <2>3, <2>4 DEF AcceptHandler
<1>2. CASE InHandler
  <2>1. CASE AcceptInitiate
    BY <2>1 DEF AcceptInitiate, ioVars, stopVars, peerVars
  <2>2. ASSUME NEW c \in Conns, SessionStopped(c) PROVE TypeOK'
    BY <2>2, SetConnType DEF SessionStopped, acceptVars, ioVars, stopVars, peerVars
  <2> QED
    BY <1>2, <2>1, <2>2 DEF InHandler
<1>3. CASE MainRequestStop
  BY <1>3 DEF MainRequestStop, StopExchange, acceptVars, ioVars, peerVars
<1>4. ASSUME NEW t \in Stoppers, StopStep(t) PROVE TypeOK'
  <2>1. CASE StopCancel(t)
    BY <2>1 DEF StopCancel, AbortPending, ioVars, peerVars
  <2>2. CASE StopClose(t)
    <3>1. conn' \in [Conns -> ConnStates]
      BY <2>2 DEF StopClose
    <3> QED
      BY <2>2, <3>1 DEF StopClose, AbortPending, ioVars, peerVars
  <2>3. CASE StopIo(t)
    BY <2>3 DEF StopIo, acceptVars, peerVars
  <2> QED
    BY <1>4, <2>1, <2>2, <2>3 DEF StopStep
<1>5. ASSUME NEW c \in Conns, SessionStep(c) PROVE TypeOK'
  <2>1. CASE SessionStart(c)
    BY <2>1, SetConnType DEF SessionStart, acceptVars, ioVars, stopVars, peerVars
  <2>2. CASE HandshakeDone(c)
    <3>1. conn' \in [Conns -> ConnStates]
      BY <2>2, SetConnType DEF HandshakeDone, ReadUnlessStopped
    <3>2. wire' \in [Conns -> Seq(Frames)]
      BY <2>2, ConsumeType DEF HandshakeDone, Incomplete
    <3> QED
      BY <2>2, <3>1, <3>2 DEF HandshakeDone, acceptVars, ioVars, stopVars
  <2>3. CASE SessionFail(c)
    BY <2>3, SetConnType DEF SessionFail, acceptVars, ioVars, stopVars, peerVars
  <2>4. CASE ReadText(c)
    <3>1. conn' \in [Conns -> ConnStates]
      BY <2>4, SetConnType DEF ReadText, ReadUnlessStopped
    <3>2. wire' \in [Conns -> Seq(Frames)]
      BY <2>4, ConsumeType DEF ReadText
    <3> QED
      BY <2>4, <3>1, <3>2 DEF ReadText, acceptVars, ioVars, stopVars
  <2>5. CASE ReadTermination(c)
    <3>1. conn' \in [Conns -> ConnStates]
      BY <2>5, SetConnType DEF ReadTermination
    <3>2. wire' \in [Conns -> Seq(Frames)]
      BY <2>5, ConsumeType DEF ReadTermination
    <3> QED
      BY <2>5, <3>1, <3>2 DEF ReadTermination, StopExchange, acceptVars, ioVars
  <2> QED
    BY <1>5, <2>1, <2>2, <2>3, <2>4, <2>5 DEF SessionStep
<1>6. ASSUME NEW c \in Conns, PeerStep(c) PROVE TypeOK'
  <2>1. CASE PeerConnect(c)
    BY <2>1 DEF PeerConnect, acceptVars, ioVars, stopVars
  <2>2. CASE PeerClose(c)
    BY <2>2, NoFrames DEF PeerClose, acceptVars, ioVars, stopVars
  <2>3. ASSUME NEW f \in Frames, PeerSend(c, f) PROVE TypeOK'
    <3>1. wire' \in [Conns -> Seq(Frames)]
      BY <2>3 DEF PeerSend
    <3>2. sent' \in 0..MaxFrames
      BY <2>3, MaxFramesAssumption DEF PeerSend
    <3> QED
      BY <2>3, <3>1, <3>2 DEF PeerSend, acceptVars, ioVars, stopVars
  <2> QED
    BY <1>6, <2>1, <2>2, <2>3 DEF PeerStep
<1>7. CASE ProgramEnd
  BY <1>7 DEF ProgramEnd, IoReturn, Teardown, acceptVars, stopVars, peerVars
<1>8. CASE UNCHANGED vars
  BY <1>8 DEF vars, acceptVars, ioVars, stopVars, peerVars
<1> QED
  BY <1>1, <1>2, <1>3, <1>4, <1>5, <1>6, <1>7, <1>8 DEF Next

\* The initial state is well typed.
LEMMA InitType == Init => TypeOK
<1> SUFFICES ASSUME Init PROVE TypeOK
  OBVIOUS
<1>1. wire \in [Conns -> Seq(Frames)]
  BY NoFrames DEF Init
<1>2. sent \in 0..MaxFrames
  BY MaxFramesAssumption DEF Init
<1>3. /\ stopPc \in [Stoppers -> {"absent", "idle", "cancel", "close", "iostop", "returned"}]
      /\ stopPc["io"] # "absent"
      /\ conn \in [Conns -> ConnStates]
      /\ peer \in [Conns -> {"none", "open", "closed", "reset"}]
  BY DEF Init
<1>4. AcceptPhases /\ AcceptedOnce
  BY DEF Init, AcceptPhases, AcceptedOnce
<1> QED
  BY <1>1, <1>2, <1>3, <1>4 DEF Init, TypeOK

\* The variables of the server keep their types, no accept is started over another
\* and no accepted socket is left between the accept and its session.
THEOREM TypeCorrect == Spec => []TypeOK
<1>1. Init => TypeOK
  BY InitType
<1>2. TypeOK /\ [Next]_vars => TypeOK'
  BY TypeStep
<1> QED
  BY <1>1, <1>2, PTL DEF Spec

-----------------------------------------------------------------------------
(* The shutdown                                                            *)

\* Nothing has been stopped in the initial state.
LEMMA InitOrder == Init => ShutdownOrder
BY DEF Init, ShutdownOrder, StoppedFirst, StopEvidence,
       CloseBeforeStop, DestroyedIsClosed, ClosedIsQuiet, SingleShutdown, InShutdown

\* A step that touches neither the acceptor, the accept in flight, the
\* io_context nor request_stop() cannot disturb the order of the shutdown.
LEMMA OrderFrame ==
    ASSUME ShutdownOrder, UNCHANGED <<acceptVars, ioVars, stopVars>>
    PROVE  ShutdownOrder'
BY DEF ShutdownOrder, StoppedFirst, StopEvidence, CloseBeforeStop,
       DestroyedIsClosed, ClosedIsQuiet, SingleShutdown, InShutdown, acceptVars, ioVars, stopVars

\* The exchange lets a thread into the shutdown only if no thread was in it.
LEMMA ExchangeOrder ==
    ASSUME TypeOK, ShutdownOrder, NEW t \in Stoppers, StopExchange(t),
           ~InShutdown(t), UNCHANGED <<acceptVars, ioVars>>
    PROVE  ShutdownOrder'
<1> USE DEF TypeOK, ShutdownOrder, acceptVars, ioVars, StopExchange
<1>1. stopped' = TRUE
  OBVIOUS
<1>2. \A u \in Stoppers : InShutdown(u)' => IF u = t THEN ~stopped ELSE InShutdown(u)
  BY DEF InShutdown
<1>3. SingleShutdown'
  <2>1. CASE stopped
    BY <2>1, <1>2 DEF SingleShutdown
  <2>2. CASE ~stopped
    <3>1. \A u \in Stoppers : ~InShutdown(u)
      BY <2>2 DEF StoppedFirst, StopEvidence
    <3> QED
      BY <3>1, <1>2 DEF SingleShutdown
  <2> QED
    BY <2>1, <2>2
<1>4. \A u \in Stoppers : stopPc'[u] = "iostop" => stopPc[u] = "iostop"
  OBVIOUS
<1>5. CloseBeforeStop'
  BY <1>4 DEF CloseBeforeStop
<1> QED
  BY <1>1, <1>3, <1>5 DEF StoppedFirst, DestroyedIsClosed, ClosedIsQuiet

\* A step that leaves the sessions inside request_stop(), the call itself and
\* run() alone keeps the stopper alive.
LEMMA StopperFrame ==
    ASSUME StopperAlive, stopPc'["io"] = stopPc["io"], ioThread' = ioThread,
           \A c \in Conns : conn'[c] = "stopping" <=> conn[c] = "stopping"
    PROVE  StopperAlive'
BY DEF StopperAlive, InShutdown

\* Every step keeps the stopper alive.
LEMMA StopperStep ==
    ASSUME TypeOK, StopperAlive, [Next]_vars PROVE StopperAlive'
<1> USE DEF TypeOK
<1>1. CASE AcceptHandler
  BY <1>1, StopperFrame DEF AcceptHandler, AcceptStart, AcceptResumeError, AcceptReady,
                            AcceptResumeSocket, ioVars, stopVars
<1>2. CASE InHandler
  <2>1. CASE AcceptInitiate
    BY <2>1, StopperFrame DEF AcceptInitiate, ioVars, stopVars
  <2>2. ASSUME NEW c \in Conns, SessionStopped(c) PROVE StopperAlive'
    BY <2>2 DEF SessionStopped, SetConn, StopperAlive, InShutdown, ioVars, stopVars
  <2> QED
    BY <1>2, <2>1, <2>2 DEF InHandler
<1>3. CASE MainRequestStop
  BY <1>3, StopperFrame DEF MainRequestStop, StopExchange, ioVars
<1>4. ASSUME NEW t \in Stoppers, StopStep(t) PROVE StopperAlive'
  <2>1. ioThread' = ioThread
    BY <1>4 DEF StopStep, StopCancel, StopClose, StopIo, ioVars
  <2>2. InShutdown("io")' => InShutdown("io")
    BY <1>4 DEF StopStep, StopCancel, StopClose, StopIo, InShutdown
  <2>3. \A c \in Conns : conn'[c] = "stopping" <=> conn[c] = "stopping"
    BY <1>4 DEF StopStep, StopCancel, StopClose, StopIo
  <2> QED
    BY <2>1, <2>2, <2>3 DEF StopperAlive
<1>5. ASSUME NEW c \in Conns, SessionStep(c) PROVE StopperAlive'
  <2>1. CASE ReadTermination(c)
    <3>1. conn'[c] = "stopping" /\ ioThread' = "running"
      BY <2>1 DEF ReadTermination, SetConn, CanDispatch, ioVars
    <3> QED
      BY <3>1 DEF StopperAlive
  <2>2. CASE SessionStart(c) \/ HandshakeDone(c) \/ SessionFail(c) \/ ReadText(c)
    BY <2>2, StopperFrame DEF SessionStart, HandshakeDone, SessionFail, ReadText, SetConn,
                              ReadUnlessStopped, ioVars, stopVars
  <2> QED
    BY <1>5, <2>1, <2>2 DEF SessionStep
<1>6. ASSUME NEW c \in Conns, PeerStep(c) PROVE StopperAlive'
  BY <1>6, StopperFrame DEF PeerStep, PeerConnect, PeerClose, PeerSend, ioVars, stopVars
<1>7. CASE ProgramEnd
  <2>1. CASE IoReturn
    BY <2>1 DEF IoReturn, IoIdle, StopperAlive, InShutdown, stopVars
  <2>2. CASE Teardown
    BY <2>2 DEF Teardown, StopperAlive, InShutdown, stopVars
  <2> QED
    BY <1>7, <2>1, <2>2 DEF ProgramEnd
<1>8. CASE UNCHANGED vars
  BY <1>8, StopperFrame DEF vars, ioVars, stopVars
<1> QED
  BY <1>1, <1>2, <1>3, <1>4, <1>5, <1>6, <1>7, <1>8 DEF Next

\* Every step keeps the order of the shutdown.
LEMMA OrderStep ==
    ASSUME TypeOK, ShutdownOrder, StopperAlive, [Next]_vars PROVE ShutdownOrder'
<1>1. CASE AcceptHandler
  <2> USE DEF ShutdownOrder, AcceptPhases, StoppedFirst, StopEvidence,
              CloseBeforeStop, DestroyedIsClosed, ClosedIsQuiet, SingleShutdown, InShutdown, TypeOK
  <2>1. CASE AcceptStart
    BY <2>1 DEF AcceptStart, LoopTest, ioVars, stopVars
  <2>2. CASE AcceptResumeError
    BY <2>2 DEF AcceptResumeError, LoopTest, ErrorEndsLoop, ioVars, stopVars
  <2>3. ASSUME NEW c \in Conns, AcceptReady(c) PROVE ShutdownOrder'
    BY <2>3 DEF AcceptReady, ioVars, stopVars
  <2>4. ASSUME NEW c \in Conns, AcceptResumeSocket(c) PROVE ShutdownOrder'
    BY <2>4 DEF AcceptResumeSocket, LoopTest, ioVars, stopVars
  <2> QED
    BY <1>1, <2>1, <2>2, <2>3, <2>4 DEF AcceptHandler
<1>2. CASE InHandler
  <2>1. CASE AcceptInitiate
    BY <2>1 DEF AcceptInitiate, ioVars, stopVars, ShutdownOrder, AcceptPhases,
                StoppedFirst, StopEvidence, CloseBeforeStop, DestroyedIsClosed, ClosedIsQuiet,
                SingleShutdown, InShutdown, TypeOK
  <2>2. ASSUME NEW c \in Conns, SessionStopped(c) PROVE ShutdownOrder'
    BY <2>2, OrderFrame DEF SessionStopped
  <2> QED
    BY <1>2, <2>1, <2>2 DEF InHandler
<1>3. CASE MainRequestStop
  BY <1>3, ExchangeOrder DEF MainRequestStop, InShutdown
<1>4. ASSUME NEW t \in Stoppers, StopStep(t) PROVE ShutdownOrder'
  <2> USE DEF TypeOK, ShutdownOrder
  <2>1. stopped /\ stopped'
    BY <1>4 DEF StopStep, StopCancel, StopClose, StopIo, StoppedFirst, StopEvidence, InShutdown
  <2>2. SingleShutdown'
    BY <1>4 DEF StopStep, StopCancel, StopClose, StopIo, SingleShutdown, InShutdown
  <2>3. ClosedIsQuiet' /\ DestroyedIsClosed'
    BY <1>4 DEF StopStep, StopCancel, StopClose, StopIo, AbortPending,
                ClosedIsQuiet, DestroyedIsClosed, acceptVars, ioVars
  <2>4. CloseBeforeStop'
    BY <1>4 DEF StopStep, StopCancel, StopClose, StopIo, CloseBeforeStop, acceptVars, ioVars
  <2> QED
    BY <2>1, <2>2, <2>3, <2>4 DEF StoppedFirst
<1>5. ASSUME NEW c \in Conns, SessionStep(c) PROVE ShutdownOrder'
  <2>1. CASE ReadTermination(c)
    <3>1. ~InShutdown("io")
      BY <2>1 DEF ReadTermination, CanDispatch, IoIdle, StopperAlive
    <3> QED
      BY <2>1, <3>1, ExchangeOrder DEF ReadTermination
  <2>2. CASE SessionStart(c) \/ HandshakeDone(c) \/ SessionFail(c) \/ ReadText(c)
    BY <2>2, OrderFrame DEF SessionStart, HandshakeDone, SessionFail, ReadText
  <2> QED
    BY <1>5, <2>1, <2>2 DEF SessionStep
<1>6. ASSUME NEW c \in Conns, PeerStep(c) PROVE ShutdownOrder'
  BY <1>6, OrderFrame DEF PeerStep, PeerConnect, PeerClose, PeerSend
<1>7. CASE ProgramEnd
  BY <1>7 DEF ProgramEnd, IoReturn, Teardown, acceptVars, stopVars, ShutdownOrder,
              StoppedFirst, StopEvidence, CloseBeforeStop,
              DestroyedIsClosed, ClosedIsQuiet, SingleShutdown, InShutdown
<1>8. CASE UNCHANGED vars
  BY <1>8, OrderFrame DEF vars
<1> QED
  BY <1>1, <1>2, <1>3, <1>4, <1>5, <1>6, <1>7, <1>8 DEF Next

\* The shutdown keeps its order however the callers of request_stop(), the
\* accept loop and the sessions interleave.
THEOREM ShutdownOrdered == Spec => []ShutdownSound
<1>1. Init => TypeOK /\ ShutdownOrder /\ StopperAlive
  BY InitType, InitOrder DEF Init, StopperAlive, InShutdown
<1>2. (TypeOK /\ ShutdownOrder /\ StopperAlive) /\ [Next]_vars
        => (TypeOK /\ ShutdownOrder /\ StopperAlive)'
  BY TypeStep, OrderStep, StopperStep
<1> QED
  BY <1>1, <1>2, PTL DEF Spec, ShutdownSound

\* run() never returns before a stop was requested: no error of accept, no
\* descriptor shortage and no end of a session makes the server go away.
THEOREM NeverReturnsEarly == Spec => []ReturnedOnlyAfterStop
<1>1. ShutdownSound => ReturnedOnlyAfterStop
  BY DEF ShutdownSound, ShutdownOrder, StoppedFirst, StopEvidence, ReturnedOnlyAfterStop
<1> QED
  BY <1>1, ShutdownOrdered, PTL

\* Two threads are never inside the shutdown of the acceptor together.
THEOREM ShutdownIsSingle == Spec => []SingleShutdown
<1>1. ShutdownSound => SingleShutdown
  BY DEF ShutdownSound, ShutdownOrder
<1> QED
  BY <1>1, ShutdownOrdered, PTL

\* No accept stays pending behind a closed acceptor or a stopped io_context,
\* although the loop tests stopped_ and initiates the accept in two steps.
THEOREM NoAcceptLost == Spec => []NoAcceptLeftPending
<1>1. ShutdownSound => NoAcceptLeftPending
  BY DEF ShutdownSound, ShutdownOrder, CloseBeforeStop, DestroyedIsClosed, ClosedIsQuiet,
         NoAcceptLeftPending
<1> QED
  BY <1>1, ShutdownOrdered, PTL

-----------------------------------------------------------------------------
(* What happens after the stop request                                     *)

\* The accept loop ends with the first session it spawns after the request.
LEMMA LastSessionOnly == Spec => LastSession
<1> DEFINE Step == (stopped /\ \E c \in Conns : conn[c] = "accepted" /\ conn'[c] = "spawned")
                     => acceptPc' = "done"
<1>1. TypeOK /\ [Next]_vars => [Step]_vars
  <2> SUFFICES ASSUME TypeOK, Next, stopped,
                      NEW c \in Conns, conn[c] = "accepted", conn'[c] = "spawned"
               PROVE  acceptPc' = "done"
    OBVIOUS
  <2> USE DEF TypeOK
  <2>1. CASE AcceptHandler
    BY <2>1 DEF AcceptHandler, AcceptStart, AcceptResumeError, AcceptReady,
                AcceptResumeSocket, LoopTest
  <2>2. CASE InHandler
    BY <2>2 DEF InHandler, AcceptInitiate, SessionStopped, SetConn
  <2>3. CASE MainRequestStop
    BY <2>3 DEF MainRequestStop
  <2>4. ASSUME NEW t \in Stoppers, StopStep(t) PROVE FALSE
    BY <2>4 DEF StopStep, StopCancel, StopClose, StopIo
  <2>5. ASSUME NEW d \in Conns, SessionStep(d) PROVE FALSE
    BY <2>5 DEF SessionStep, SessionStart, HandshakeDone, SessionFail, ReadText,
                ReadTermination, SetConn, ReadUnlessStopped
  <2>6. ASSUME NEW d \in Conns, PeerStep(d) PROVE FALSE
    BY <2>6 DEF PeerStep, PeerConnect, PeerClose, PeerSend
  <2>7. CASE ProgramEnd
    BY <2>7 DEF ProgramEnd, IoReturn, Teardown
  <2> QED
    BY <2>1, <2>2, <2>3, <2>4, <2>5, <2>6, <2>7 DEF Next
<1> QED
  BY <1>1, TypeCorrect, PTL DEF Spec, LastSession

\* A session that was reading when the stop was requested reads once more at most.
LEMMA LastMessageOnly == Spec => LastMessage
<1> DEFINE Took(c) == stopped /\ conn[c] = "reading" /\ wire'[c] # wire[c]
                        /\ peer'[c] = peer[c] /\ sent' = sent
           Step == \A c \in Conns : Took(c) => conn'[c] # "reading"
<1>1. TypeOK /\ [Next]_vars => [Step]_vars
  <2> SUFFICES ASSUME TypeOK, Next, NEW c \in Conns, Took(c)
               PROVE  conn'[c] # "reading"
    OBVIOUS
  <2> USE DEF TypeOK
  <2>1. CASE AcceptHandler
    BY <2>1 DEF AcceptHandler, AcceptStart, AcceptResumeError, AcceptReady,
                AcceptResumeSocket, peerVars
  <2>2. CASE InHandler \/ MainRequestStop
    BY <2>2 DEF InHandler, AcceptInitiate, SessionStopped, MainRequestStop, peerVars
  <2>3. ASSUME NEW t \in Stoppers, StopStep(t) PROVE FALSE
    BY <2>3 DEF StopStep, StopCancel, StopClose, StopIo, peerVars
  <2>4. ASSUME NEW d \in Conns, SessionStep(d) PROVE conn'[c] # "reading"
    BY <2>4 DEF SessionStep, SessionStart, HandshakeDone, SessionFail, ReadText,
                ReadTermination, SetConn, ReadUnlessStopped, peerVars
  <2>5. ASSUME NEW d \in Conns, PeerStep(d) PROVE FALSE
    <3>1. CASE PeerConnect(d)
      BY <3>1 DEF PeerConnect
    <3>2. CASE PeerClose(d)
      BY <3>2 DEF PeerClose
    <3>3. ASSUME NEW f \in Frames, PeerSend(d, f) PROVE FALSE
      BY <3>3, MaxFramesAssumption DEF PeerSend
    <3> QED
      BY <2>5, <3>1, <3>2, <3>3 DEF PeerStep
  <2>6. CASE ProgramEnd
    BY <2>6 DEF ProgramEnd, IoReturn, Teardown, peerVars
  <2> QED
    BY <2>1, <2>2, <2>3, <2>4, <2>5, <2>6 DEF Next
<1> QED
  BY <1>1, TypeCorrect, PTL DEF Spec, LastMessage

\* After the stop request the accept loop ends with the next session it spawns, and
\* each session with the next message it takes.
THEOREM StopPrompt == Spec => StopIsPrompt
BY LastSessionOnly, LastMessageOnly, PTL DEF StopIsPrompt

-----------------------------------------------------------------------------
(* The server implements ServerLifecycle                                   *)

\* What the refinement needs of the invariant.
LEMMA Evidence ==
    ASSUME ShutdownOrder
    PROVE  /\ acceptPc = "done" \/ ioStopped \/ ioThread # "running" => stopped
           /\ acceptor = "closed" => stopped
           /\ \A t \in Stoppers : InShutdown(t) => stopped
           /\ ioThread = "destroyed" => acceptor = "closed"
BY DEF ShutdownOrder, StoppedFirst, StopEvidence, DestroyedIsClosed

\* phaseBar, one case at a time.
LEMMA Phases ==
    ASSUME TypeOK, ShutdownOrder
    PROVE  /\ phaseBar = "up" <=> ~stopped
           /\ phaseBar = "stopping" <=> stopped /\ ioThread = "running"
           /\ phaseBar = "down" <=> ioThread = "returned"
           /\ phaseBar = "destroyed" <=> ioThread = "destroyed"
           /\ phaseBar \in {"up", "stopping"} <=> ioThread = "running"
BY Evidence DEF phaseBar, TypeOK

\* A step that leaves every connection where it is on the abstract level, and
\* the phase too, is a stutter.
LEMMA Stutter ==
    ASSUME stopped' = stopped, ioThread' = ioThread,
           \/ conn' = conn
           \/ /\ waitingBar' = waitingBar /\ Sessions' = Sessions /\ overBar' = overBar
    PROVE  UNCHANGED Lifecycle!vars
BY DEF Lifecycle!vars, phaseBar, waitingBar, Sessions, overBar

\* A session that ends leaves the service.
LEMMA LeaveStep ==
    ASSUME TypeOK, ShutdownOrder, NEW c \in Conns, c \in Sessions,
           ioThread = "running", SetConn(c, "ended"), UNCHANGED <<stopped, ioThread>>
    PROVE  Lifecycle!Leave(c)
<1>1. phaseBar \in {"up", "stopping"} /\ phaseBar' = phaseBar
  BY Phases DEF phaseBar
<1>2. Sessions' = Sessions \ {c} /\ overBar' = overBar \union {c} /\ waitingBar' = waitingBar
  BY DEF SetConn, TypeOK, Sessions, overBar, waitingBar
<1> QED
  BY <1>1, <1>2 DEF Lifecycle!Leave

\* A session that moves from one stage to another is still served.
LEMMA StageStep ==
    ASSUME TypeOK, NEW c \in Conns, c \in Sessions,
           NEW s \in {"handshake", "reading", "stopping"}, SetConn(c, s)
    PROVE  waitingBar' = waitingBar /\ Sessions' = Sessions /\ overBar' = overBar
BY DEF SetConn, TypeOK, Sessions, overBar, waitingBar

\* The exchange is the abstract stop request, or a stutter for a later caller.
LEMMA ExchangeStep ==
    ASSUME TypeOK, ShutdownOrder, NEW t \in Stoppers, StopExchange(t), ioThread' = ioThread,
           waitingBar' = waitingBar, Sessions' = Sessions, overBar' = overBar
    PROVE  Lifecycle!RequestStop \/ UNCHANGED Lifecycle!vars
<1>1. CASE stopped
  BY <1>1, Stutter DEF StopExchange
<1>2. CASE ~stopped
  <2>1. phaseBar = "up" /\ phaseBar' = "stopping"
    BY <1>2, Evidence DEF phaseBar, StopExchange, TypeOK
  <2> QED
    BY <2>1 DEF Lifecycle!RequestStop
<1> QED
  BY <1>1, <1>2

\* Every step of the server is a step of the lifecycle or a stutter.
LEMMA LifecycleStep ==
    ASSUME TypeOK, ShutdownOrder, StopperAlive, [Next]_vars
    PROVE  [Lifecycle!Next]_(Lifecycle!vars)
<1>1. CASE AcceptHandler
  <2>1. CASE AcceptStart \/ AcceptResumeError
    BY <2>1, Stutter DEF AcceptStart, AcceptResumeError, ioVars, stopVars
  <2>2. ASSUME NEW c \in Conns, AcceptReady(c) PROVE [Lifecycle!Next]_(Lifecycle!vars)
    <3>1. conn' = conn \/ (waitingBar' = waitingBar /\ Sessions' = Sessions /\ overBar' = overBar)
      BY <2>2 DEF AcceptReady, TypeOK, waitingBar, Sessions, overBar
    <3> QED
      BY <2>2, <3>1, Stutter DEF AcceptReady, ioVars, stopVars
  <2>3. ASSUME NEW c \in Conns, AcceptResumeSocket(c) PROVE Lifecycle!Admit(c)
    <3>1. phaseBar \in {"up", "stopping"} /\ phaseBar' = phaseBar
      BY <2>3, Phases DEF AcceptResumeSocket, CanDispatch, ioVars, stopVars, phaseBar
    <3>2. c \in waitingBar /\ waitingBar' = waitingBar \ {c}
      BY <2>3 DEF AcceptResumeSocket, TypeOK, waitingBar
    <3>3. Sessions' = Sessions \union {c} /\ overBar' = overBar
      BY <2>3 DEF AcceptResumeSocket, TypeOK, Sessions, overBar
    <3> QED
      BY <3>1, <3>2, <3>3 DEF Lifecycle!Admit
  <2> QED
    BY <1>1, <2>1, <2>2, <2>3 DEF AcceptHandler, Lifecycle!Next
<1>2. CASE InHandler
  <2>1. CASE AcceptInitiate
    BY <2>1, Stutter DEF AcceptInitiate, ioVars, stopVars
  <2>2. ASSUME NEW c \in Conns, SessionStopped(c) PROVE Lifecycle!Leave(c)
    BY <2>2, LeaveStep DEF SessionStopped, StopperAlive, Sessions, ioVars, stopVars
  <2> QED
    BY <1>2, <2>1, <2>2 DEF InHandler, Lifecycle!Next
<1>3. CASE MainRequestStop
  <2>1. waitingBar' = waitingBar /\ Sessions' = Sessions /\ overBar' = overBar
    BY <1>3 DEF MainRequestStop, waitingBar, Sessions, overBar
  <2> QED
    BY <1>3, <2>1, ExchangeStep DEF MainRequestStop, ioVars, Lifecycle!Next
<1>4. ASSUME NEW t \in Stoppers, StopStep(t) PROVE [Lifecycle!Next]_(Lifecycle!vars)
  <2>1. CASE StopCancel(t) \/ StopIo(t)
    BY <2>1, Stutter DEF StopCancel, StopIo, ioVars
  <2>2. CASE StopClose(t)
    <3> DEFINE D == {c \in Conns : conn[c] = "backlog"}
    <3>1. D \in SUBSET Conns /\ D \subseteq waitingBar
      BY DEF waitingBar
    <3>2. phaseBar # "up" /\ phaseBar' = phaseBar
      BY <2>2, Phases, Evidence DEF StopClose, InShutdown, ioVars, phaseBar
    <3>3. waitingBar' = waitingBar \ D /\ overBar' = overBar \union D /\ Sessions' = Sessions
      BY <2>2 DEF StopClose, TypeOK, waitingBar, overBar, Sessions
    <3>4. CASE D = {}
      BY <3>2, <3>3, <3>4 DEF Lifecycle!vars
    <3>5. CASE D # {}
      <4>1. Lifecycle!DropWaiting(D)
        BY <3>1, <3>2, <3>3, <3>5 DEF Lifecycle!DropWaiting
      <4> QED
        BY <3>1, <4>1 DEF Lifecycle!Next
    <3> QED
      BY <3>4, <3>5
  <2> QED
    BY <1>4, <2>1, <2>2 DEF StopStep
<1>5. ASSUME NEW c \in Conns, SessionStep(c) PROVE [Lifecycle!Next]_(Lifecycle!vars)
  <2>1. ioThread = "running" /\ ioThread' = ioThread /\ c \in Sessions
    BY <1>5 DEF SessionStep, SessionStart, HandshakeDone, SessionFail, ReadText,
                ReadTermination, CanDispatch, Sessions, ioVars
  <2>2. CASE ReadTermination(c)
    <3>1. waitingBar' = waitingBar /\ Sessions' = Sessions /\ overBar' = overBar
      BY <2>1, <2>2, StageStep DEF ReadTermination
    <3> QED
      BY <2>1, <2>2, <3>1, ExchangeStep DEF ReadTermination, Lifecycle!Next
  <2>3. CASE SessionStart(c) \/ HandshakeDone(c) \/ SessionFail(c) \/ ReadText(c)
    <3>1. /\ stopped' = stopped
          /\ SetConn(c, "ended") \/ SetConn(c, "handshake") \/ SetConn(c, "reading")
      BY <2>3 DEF SessionStart, HandshakeDone, SessionFail, ReadText, ReadUnlessStopped, stopVars
    <3>2. CASE SetConn(c, "ended")
      <4>1. Lifecycle!Leave(c)
        BY <2>1, <3>1, <3>2, LeaveStep
      <4> QED
        BY <4>1 DEF Lifecycle!Next
    <3>3. CASE SetConn(c, "handshake") \/ SetConn(c, "reading")
      <4>1. waitingBar' = waitingBar /\ Sessions' = Sessions /\ overBar' = overBar
        BY <2>1, <3>3, StageStep
      <4> QED
        BY <2>1, <3>1, <4>1, Stutter
    <3> QED
      BY <3>1, <3>2, <3>3
  <2> QED
    BY <1>5, <2>2, <2>3 DEF SessionStep
<1>6. ASSUME NEW c \in Conns, PeerStep(c) PROVE [Lifecycle!Next]_(Lifecycle!vars)
  <2>1. stopped' = stopped /\ ioThread' = ioThread
    BY <1>6 DEF PeerStep, PeerConnect, PeerClose, PeerSend, ioVars, stopVars
  <2>2. CASE PeerConnect(c)
    <3>1. c \in Lifecycle!Fresh /\ phaseBar' = phaseBar /\ Sessions' = Sessions
      BY <2>1, <2>2 DEF PeerConnect, TypeOK, Lifecycle!Fresh, phaseBar, waitingBar, Sessions, overBar
    <3>2. CASE acceptor = "open"
      <4>1. waitingBar' = waitingBar \union {c} /\ overBar' = overBar
        BY <2>2, <3>2 DEF PeerConnect, TypeOK, waitingBar, overBar
      <4>2. phaseBar # "destroyed"
        BY <3>2, Phases, Evidence
      <4> QED
        BY <3>1, <4>1, <4>2 DEF Lifecycle!Arrive, Lifecycle!Next
    <3>3. CASE acceptor # "open"
      <4>1. overBar' = overBar \union {c} /\ waitingBar' = waitingBar
        BY <2>2, <3>3 DEF PeerConnect, TypeOK, waitingBar, overBar
      <4>2. phaseBar # "up"
        BY <3>3, Phases, Evidence DEF TypeOK
      <4> QED
        BY <3>1, <4>1, <4>2 DEF Lifecycle!Refuse, Lifecycle!Next
    <3> QED
      BY <3>2, <3>3
  <2>3. CASE PeerClose(c) \/ \E f \in Frames : PeerSend(c, f)
    BY <2>1, <2>3, Stutter DEF PeerClose, PeerSend
  <2> QED
    BY <1>6, <2>2, <2>3 DEF PeerStep
<1>7. CASE ProgramEnd
  <2>1. CASE IoReturn
    <3>1. waitingBar' = waitingBar /\ Sessions' = Sessions /\ overBar' = overBar
      BY <2>1 DEF IoReturn, waitingBar, Sessions, overBar
    <3>2. stopped /\ stopped'
      BY <2>1, Evidence DEF IoReturn, stopVars
    <3>3. phaseBar = "stopping" /\ phaseBar' = "down"
      BY <2>1, <3>2 DEF IoReturn, phaseBar
    <3> QED
      BY <3>1, <3>3 DEF Lifecycle!GoDown, Lifecycle!Next
  <2>2. CASE Teardown
    <3>1. stopped /\ stopped'
      BY <2>2, Evidence DEF Teardown, stopVars
    <3>2. phaseBar = "down" /\ phaseBar' = "destroyed"
      BY <2>2, <3>1 DEF Teardown, phaseBar
    <3>3. waitingBar' = {} /\ Sessions' = {}
      BY <2>2 DEF Teardown, TypeOK, waitingBar, Sessions
    <3>4. overBar' = overBar \union waitingBar \union Sessions
      BY <2>2 DEF Teardown, TypeOK, waitingBar, Sessions, overBar
    <3> QED
      BY <3>2, <3>3, <3>4 DEF Lifecycle!Destroy, Lifecycle!Next
  <2> QED
    BY <1>7, <2>1, <2>2 DEF ProgramEnd
<1>8. CASE UNCHANGED vars
  BY <1>8, Stutter DEF vars, ioVars, stopVars
<1> QED
  BY <1>1, <1>2, <1>3, <1>4, <1>5, <1>6, <1>7, <1>8 DEF Next

\* The server implements ServerLifecycle: while nobody asked
\* for a stop no connection is refused or dropped, whatever the peers and the
\* descriptor limit do, and a server that is down serves nobody.
THEOREM LifecycleImplemented == Spec => ImplementsLifecycle
<1>1. Init => Lifecycle!Init
  BY DEF Init, Lifecycle!Init, phaseBar, waitingBar, Sessions, overBar
<1>2. TypeOK /\ ShutdownOrder /\ StopperAlive /\ [Next]_vars
        => [Lifecycle!Next]_(Lifecycle!vars)
  BY LifecycleStep
<1> QED
  BY <1>1, <1>2, TypeCorrect, ShutdownOrdered, PTL
     DEF Spec, ShutdownSound, ImplementsLifecycle, Lifecycle!Spec

-----------------------------------------------------------------------------
(* The client against a server that echoes                                 *)

\* Lines under way: none unless the client waits for the reply to the one it sent.
Quiet == toServer = <<>> /\ toClient = <<>>
OneUnderWay ==
    \/ Quiet
    \/ toServer = <<line>> /\ toClient = <<>>
    \/ toServer = <<>> /\ toClient = <<line>>

\* The coroutine belongs to what the main thread waits for.
LoopInPlace ==
    /\ pc \in {"connecting", "awaiting"} <=> co # "none"
    /\ co = "connect" => pc = "connecting"
    /\ co \in {"write", "read"} => pc = "awaiting"

\* A line is under way only while its reply is read, and an echo that was taken is
\* the one of the line that was sent.
LoopInv ==
    /\ LoopInPlace
    /\ IF co = "read" THEN OneUnderWay ELSE Quiet
    /\ pc = "awaiting" /\ co = "value" => reply = line
    /\ ~serverUp => toServer = <<>>

\* What a queue of at most one line does.
LEMMA OneLine ==
    ASSUME NEW l
    PROVE  Append(<<>>, l) = <<l>> /\ Head(<<l>>) = l /\ Tail(<<l>>) = <<>> /\ <<l>> # <<>>
OBVIOUS

\* Nothing is under way before the connection is made.
LEMMA LoopInitInv == LoopInit => LoopInv
BY DEF LoopInit, ClientInit, LoopInv, LoopInPlace, Quiet

\* Every step of the client, the connection and the server keeps it.
LEMMA LoopStepInv == LoopInv /\ [LoopNext]_echoVars => LoopInv'
<1> SUFFICES ASSUME LoopInv, [LoopNext]_echoVars PROVE LoopInv'
  OBVIOUS
<1> USE DEF LoopInv, LoopInPlace, Quiet, OneUnderWay, linkVars, InFlight
<1>1. CASE LoopConnect
  BY <1>1 DEF LoopConnect, ConnectDone, Fails
<1>2. CASE LoopWrite
  <2>1. CASE /\ WriteDone /\ serverUp
             /\ toServer' = Append(toServer, line) /\ UNCHANGED <<toClient, serverUp>>
    <3>1. Quiet /\ pc = "awaiting" /\ co' = "read" /\ pc' = pc /\ line' = line
      BY <2>1 DEF WriteDone
    <3>2. toServer' = <<line>> /\ toClient' = <<>>
      BY <2>1, <3>1, OneLine
    <3> QED
      BY <2>1, <3>1, <3>2
  <2>2. CASE WriteDone /\ UNCHANGED linkVars
    BY <2>2 DEF WriteDone
  <2>3. CASE Fails("write") /\ UNCHANGED linkVars
    BY <2>3 DEF Fails
  <2> QED
    BY <1>2, <2>1, <2>2, <2>3 DEF LoopWrite
<1>3. CASE LoopRead
  <2>1. CASE toClient = <<>>
    BY <1>3, <2>1 DEF LoopRead, Fails
  <2>2. CASE toClient # <<>>
    <3>1. co = "read" /\ toServer = <<>> /\ toClient = <<line>>
      BY <1>3, <2>2 DEF LoopRead, ReadDone
    <3>2. ReadDone(line) /\ toClient' = <<>> /\ UNCHANGED toServer
      BY <1>3, <2>2, <3>1, OneLine DEF LoopRead
    <3> QED
      BY <3>1, <3>2 DEF ReadDone
  <2> QED
    BY <2>1, <2>2
<1>4. CASE MainStep
  BY <1>4 DEF MainStep, ClientStep, ClientIoReturn, Connected, GetReply, ResetWork,
              StopClientIo, JoinClient, GetException, Close, Goto
<1>5. CASE Echo
  BY <1>5, OneLine DEF Echo, clientVars
<1>6. CASE UserStep /\ UNCHANGED linkVars
  BY <1>6 DEF UserStep, GetEof, GetLine, Goto
<1>7. CASE ServerGone
  BY <1>7 DEF ServerGone, clientVars
<1>8. CASE UNCHANGED echoVars
  BY <1>8 DEF echoVars, clientVars
<1> QED
  BY <1>1, <1>2, <1>3, <1>4, <1>5, <1>6, <1>7, <1>8 DEF LoopNext, IoStep

\* Requests and replies stay in step: whatever the server and the user do, no late
\* reply is left for the next request.
THEOREM RepliesInStep == LoopSpec => []InStep
<1>1. LoopInv => InStep
  BY DEF LoopInv, LoopInPlace, Quiet, InStep
<1> QED
  BY <1>1, LoopInitInv, LoopStepInv, PTL DEF LoopSpec

-----------------------------------------------------------------------------
(* The client and this repository's server                                 *)

\* What the main thread has done when it is at a place.
CoInPlace ==
    /\ pc \in {"connecting", "awaiting"} <=> co # "none"
    /\ co = "connect" => pc = "connecting"
Hungup == pc \in {"reset", "stop", "stop server", "join", "join server", "exited"} => sock = "closed"
Joined == pc \in {"join server", "exited"} => ioReturned
ClientInv == CoInPlace /\ Hungup /\ Joined

\* The types of what request_stop() and the sessions share.
ServerTypes ==
    /\ stopPc \in [Stoppers -> {"absent", "idle", "cancel", "close", "iostop", "returned"}]
    /\ conn \in [Conns -> ConnStates]

\* In one process, the server was stopped before the first thread is joined.
ServerInv ==
    /\ StopperAlive
    /\ inProcess /\ pc \in {"join", "join server", "exited"} => stopPc["main"] = "returned"
    /\ inProcess /\ pc = "exited" => ioThread = "destroyed"

Inv == ClientInv /\ ServerTypes /\ ServerInv

\* Nothing is joined and nothing stopped at the start.
LEMMA InitInv == SystemInit => Inv
BY DEF SystemInit, ClientInit, Init, Inv, ClientInv, CoInPlace, Hungup, Joined, ServerTypes, ServerInv,
       StopperAlive, InShutdown, Stoppers, ConnStates

-----------------------------------------------------------------------------
(* The client                                                              *)

\* The client's own places depend on its own steps only.
LEMMA ClientStepInv == ClientInv /\ [SystemNext]_systemVars => ClientInv'
<1> SUFFICES ASSUME ClientInv, [SystemNext]_systemVars PROVE ClientInv'
  OBVIOUS
<1> USE DEF ClientInv, CoInPlace, Hungup, Joined, InFlight
<1>1. CASE UNCHANGED clientVars
  BY <1>1 DEF clientVars
<1>2. CASE ClientIo
  BY <1>1, <1>2 DEF ClientIo, Connect, Write, Read, ConnectDone, WriteDone, Fails
<1>3. CASE ClientStep
  BY <1>3 DEF ClientStep, ClientIoReturn, Connected, GetReply, ResetWork, StopClientIo, JoinClient, Goto
<1>4. CASE Hangup
  BY <1>4 DEF Hangup, Close, GetException
<1>5. CASE RequestServerStop \/ JoinServer
  BY <1>1, <1>5 DEF RequestServerStop, JoinServer, Goto
<1>6. CASE UserStep
  BY <1>6 DEF UserStep, GetEof, GetLine, Goto
<1> QED
  BY <1>1, <1>2, <1>3, <1>4, <1>5, <1>6
     DEF SystemNext, ClientMain, ServerStep, OnServer, OtherPeers, systemVars

-----------------------------------------------------------------------------
(* The server                                                              *)

\* What a step of the program must not disturb of the server.
Settled == stopPc["main"] = "returned" => stopPc'["main"] = "returned"
Gone == ioThread = "destroyed" => ioThread' = "destroyed"
Steady == ServerTypes' /\ StopperAlive' /\ Settled /\ Gone

\* A step that leaves run(), request_stop() and the sessions in it alone.
LEMMA Aside ==
    ASSUME ServerTypes, StopperAlive, ServerTypes', UNCHANGED <<ioThread, stopPc>>,
           \A c \in Conns : conn'[c] = "stopping" <=> conn[c] = "stopping"
    PROVE  Steady
BY DEF Steady, Settled, Gone, StopperAlive, InShutdown

\* The same of a step that leaves the sessions alone altogether.
LEMMA StillSteady ==
    ASSUME ServerTypes, StopperAlive, UNCHANGED <<ioThread, stopPc, conn>>
    PROVE  Steady
BY DEF Steady, Settled, Gone, StopperAlive, InShutdown, ServerTypes

\* The accept loop.
LEMMA AcceptSteady ==
    ASSUME ServerTypes, StopperAlive, AcceptHandler \/ AcceptInitiate PROVE Steady
<1>1. CASE AcceptStart \/ AcceptResumeError \/ AcceptInitiate
  BY <1>1, StillSteady
     DEF AcceptStart, AcceptResumeError, AcceptInitiate, ioVars, stopVars
<1>2. ASSUME NEW c \in Conns, AcceptReady(c) \/ AcceptResumeSocket(c) PROVE Steady
  BY <1>2, Aside DEF AcceptReady, AcceptResumeSocket, ioVars, stopVars, ServerTypes, ConnStates
<1> QED
  BY <1>1, <1>2 DEF AcceptHandler

\* A session enters request_stop() inside a handler, while run() is running.
LEMMA SessionSteady ==
    ASSUME ServerTypes, StopperAlive, NEW c \in Conns, SessionStep(c) PROVE Steady
<1>1. CASE ReadTermination(c)
  BY <1>1 DEF ReadTermination, SetConn, CanDispatch, StopExchange, ioVars, StopperAlive,
              InShutdown, ServerTypes, Stoppers, ConnStates, Steady, Settled, Gone
<1>2. CASE SessionStart(c) \/ HandshakeDone(c) \/ SessionFail(c) \/ ReadText(c)
  BY <1>2, Aside
     DEF SessionStart, HandshakeDone, SessionFail, ReadText, SetConn, ReadUnlessStopped,
         ioVars, stopVars, ServerTypes, ConnStates
<1> QED
  BY <1>1, <1>2 DEF SessionStep

\* A thread in request_stop() gets further, and out of it in the end.
LEMMA StopSteady ==
    ASSUME ServerTypes, StopperAlive, NEW t \in Stoppers, StopStep(t) PROVE Steady
<1> USE DEF ServerTypes, Stoppers, ConnStates
<1>1. ServerTypes'
  BY DEF StopStep, StopCancel, StopClose, StopIo
<1>2. ioThread' = ioThread /\ \A c \in Conns : conn'[c] = "stopping" <=> conn[c] = "stopping"
  BY DEF StopStep, StopCancel, StopClose, StopIo, ioVars
<1>3. Settled /\ (InShutdown("io")' => InShutdown("io"))
  BY DEF StopStep, StopCancel, StopClose, StopIo, InShutdown, Settled
<1> QED
  BY <1>1, <1>2, <1>3 DEF Steady, Gone, StopperAlive

\* The main thread calls it once.
LEMMA MainStopSteady ==
    ASSUME ServerTypes, StopperAlive, MainRequestStop PROVE Steady
BY DEF MainRequestStop, StopExchange, ioVars, StopperAlive, InShutdown, ServerTypes,
       Stoppers, Steady, Settled, Gone

\* run() does not return under a session that is in request_stop().
LEMMA EndSteady ==
    ASSUME ServerTypes, StopperAlive, IoReturn \/ Teardown PROVE Steady
<1>1. CASE IoReturn
  BY <1>1 DEF IoReturn, IoIdle, StopperAlive, InShutdown, stopVars, ServerTypes,
              Steady, Settled, Gone
<1>2. CASE Teardown
  BY <1>2 DEF Teardown, StopperAlive, InShutdown, stopVars, ServerTypes, ConnStates,
              Steady, Settled, Gone
<1> QED
  BY <1>1, <1>2

\* A session leaves its handler after request_stop() returned.
LEMMA SessionStoppedSteady ==
    ASSUME ServerTypes, StopperAlive, NEW c \in Conns, SessionStopped(c) PROVE Steady
BY DEF SessionStopped, SetConn, StopperAlive, InShutdown, ioVars, stopVars, ServerTypes,
       Stoppers, ConnStates, Steady, Settled, Gone

\* Peers have no part in it.
LEMMA PeerSteady ==
    ASSUME ServerTypes, StopperAlive, NEW c \in Conns, PeerStep(c) PROVE Steady
BY Aside DEF PeerStep, PeerConnect, PeerClose, PeerSend, ioVars, stopVars, ServerTypes,
             ConnStates

-----------------------------------------------------------------------------
(* Both                                                                    *)

\* Every step of the system, the client's write and hangup included.
LEMMA AllSteady == ASSUME Inv, [SystemNext]_systemVars PROVE Steady
<1> USE DEF Inv, ServerInv
<1>1. CASE UNCHANGED <<ioThread, stopPc, conn>>
  BY <1>1, StillSteady
<1>2. CASE ClientIo
  BY <1>1, <1>2, PeerSteady, MeAssumption
     DEF ClientIo, Connect, Write, Read, PeerStep, loopVars, serverVars
<1>3. CASE ClientMain
  BY <1>1, <1>3, MainStopSteady, EndSteady
     DEF ClientMain, Hangup, RequestServerStop, JoinServer, loopVars, serverVars
<1>4. CASE ServerStep
  BY <1>4, AcceptSteady, SessionSteady, StopSteady, SessionStoppedSteady, EndSteady
     DEF ServerStep, OnServer, InHandler
<1>5. CASE OtherPeers
  BY <1>5, PeerSteady DEF OtherPeers
<1> QED
  BY <1>1, <1>2, <1>3, <1>4, <1>5 DEF SystemNext, systemVars, serverVars, loopVars

\* The main thread of main.cpp joins nothing before request_stop() returned to it,
\* and does not exit before the server is gone.
LEMMA MainThread ==
    ASSUME [SystemNext]_systemVars
    PROVE  /\ inProcess' = inProcess
           /\ inProcess /\ pc' \in {"join", "join server", "exited"}
                => pc \in {"join", "join server", "exited"} \/ stopPc'["main"] = "returned"
           /\ inProcess /\ pc' = "exited" => pc = "exited" \/ ioThread' = "destroyed"
BY DEF SystemNext, ClientIo, Connect, Write, Read, ConnectDone, WriteDone, Fails, ClientMain, Hangup, Close,
       GetException, RequestServerStop, JoinServer, ClientStep, ClientIoReturn, Connected, GetReply,
       ResetWork, StopClientIo, JoinClient, Goto, ServerStep, OnServer, OtherPeers, UserStep, GetEof,
       GetLine, systemVars, clientVars, serverVars, loopVars, Teardown

\* Every step of the system keeps the invariant.
LEMMA StepInv == Inv /\ [SystemNext]_systemVars => Inv'
<1> SUFFICES ASSUME Inv, [SystemNext]_systemVars PROVE Inv'
  OBVIOUS
<1>1. ClientInv' /\ Steady
  BY ClientStepInv, AllSteady DEF Inv
<1>2. inProcess' /\ pc' \in {"join", "join server", "exited"} => stopPc'["main"] = "returned"
  BY <1>1, MainThread DEF Inv, ServerInv, Steady, Settled
<1>3. inProcess' /\ pc' = "exited" => ioThread' = "destroyed"
  BY <1>1, MainThread DEF Inv, ServerInv, Steady, Gone
<1> QED
  BY <1>1, <1>2, <1>3 DEF Inv, ServerInv, Steady

\* A program that has returned joined its threads and closed its socket, and, when
\* the server ran in the same process, the server is gone and nobody is in
\* request_stop(): whatever the peers, the user and the two io threads did.
THEOREM ExitSound == SystemSpec => []ExitJoinsAll
<1>1. Inv => ExitJoinsAll
  BY DEF Inv, ClientInv, CoInPlace, Hungup, Joined, ServerInv, ExitJoinsAll, StopperAlive, InShutdown,
         Stoppers
<1> QED
  BY <1>1, InitInv, StepInv, PTL DEF SystemSpec
=============================================================================
