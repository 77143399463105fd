---------------------------- MODULE MCEchoClient ----------------------------
(***************************************************************************)
(* The client against either server, one or the other: the one it is       *)
(* written for, which echoes lines (EchoLoop), and this repository's       *)
(* (EchoSystem).                                                           *)
(***************************************************************************)
EXTENDS EchoLoop, MCEchoSystem

VARIABLE echoing       \* which of the two; never changes

clientRunVars == <<clientVars, linkVars, serverVars, echoing>>

ClientRunInit ==
    /\ Init /\ toServer = <<>> /\ toClient = <<>> /\ serverUp = TRUE
    /\ echoing \in BOOLEAN
    /\ \/ echoing /\ LoopInit /\ stopPc["main"] = "absent"
       \/ ~echoing /\ SystemInit

ClientRunNext ==
    \/ echoing /\ LoopNext /\ UNCHANGED <<serverVars, echoing>>
    \/ ~echoing /\ SystemNext /\ UNCHANGED <<linkVars, echoing>>

ClientRunSpec ==
    /\ ClientRunInit /\ [][ClientRunNext]_clientRunVars
    /\ \/ echoing /\ LoopFairness
       \/ ~echoing /\ SystemFairness

\* Against the server that echoes no request hangs: the future gets the echo, or
\* the exception of a connection that is closed at any point.
RequestReturns == echoing /\ pc = "awaiting" ~> pc # "awaiting"
=============================================================================
