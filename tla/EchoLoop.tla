------------------------------ MODULE EchoLoop ------------------------------
(***************************************************************************)
(* EchoClient against the server it is written for: one that sends each    *)
(* line it reads back, in order, and may close the connection at any time. *)
(* (main.cpp talks to its own server only: see EchoSystem.)                *)
(***************************************************************************)
EXTENDS EchoClient, Sequences

VARIABLES toServer,   \* lines written by the client, not yet read
          toClient,   \* lines echoed: in flight, or in the client's read_buffer_
          serverUp    \* the far end accepts and keeps the connection

linkVars == <<toServer, toClient, serverUp>>
echoVars == <<clientVars, linkVars>>

LoopInit ==
    /\ ClientInit /\ ~inProcess
    /\ toServer = <<>> /\ toClient = <<>>
    /\ serverUp = TRUE

LoopConnect ==
    \/ ConnectDone /\ serverUp /\ UNCHANGED linkVars
    \/ Fails("connect") /\ ~serverUp /\ UNCHANGED linkVars

\* A write to a connection the far end has closed may succeed and be lost.
LoopWrite ==
    \/ WriteDone /\ serverUp /\ toServer' = Append(toServer, line)
         /\ UNCHANGED <<toClient, serverUp>>
    \/ WriteDone /\ ~serverUp /\ UNCHANGED linkVars
    \/ Fails("write") /\ ~serverUp /\ UNCHANGED linkVars

LoopRead ==
    \/ /\ toClient # <<>>
       /\ ReadDone(Head(toClient))
       /\ toClient' = Tail(toClient)
       /\ UNCHANGED <<toServer, serverUp>>
    \/ toClient = <<>> /\ ~serverUp /\ Fails("read") /\ UNCHANGED linkVars

Echo ==
    /\ serverUp /\ toServer # <<>>
    /\ toClient' = Append(toClient, Head(toServer))
    /\ toServer' = Tail(toServer)
    /\ UNCHANGED <<clientVars, serverUp>>

ServerGone ==
    /\ serverUp
    /\ serverUp' = FALSE /\ toServer' = <<>>
    /\ UNCHANGED <<clientVars, toClient>>

IoStep   == LoopConnect \/ LoopWrite \/ LoopRead
MainStep == (ClientStep \/ GetException \/ Close) /\ UNCHANGED linkVars

LoopNext ==
    \/ IoStep \/ MainStep \/ Echo
    \/ UserStep /\ UNCHANGED linkVars
    \/ ServerGone

\* Threads go on, and a server that is up does echo; the user may pause for ever
\* and the server need not go.
LoopFairness ==
    WF_echoVars(IoStep) /\ WF_echoVars(MainStep) /\ WF_echoVars(Echo)

LoopSpec == LoopInit /\ [][LoopNext]_echoVars /\ LoopFairness

-----------------------------------------------------------------------------
(* Properties                                                              *)

\* Requests and replies stay in step: read_buffer_ never holds a late reply that
\* the next request would take for its own.
InStep ==
    /\ pc = "prompt" => toServer = <<>> /\ toClient = <<>>
    /\ pc = "awaiting" /\ co = "value" => reply = line
=============================================================================
