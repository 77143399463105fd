--------------------------- MODULE ServerLifecycle ---------------------------
(***************************************************************************)
(* What AsyncEchoServer promises to the program that embeds it and to the  *)
(* peers that connect to it, with no word about coroutines, handlers or    *)
(* file descriptors.  WsServer is shown to implement this specification.   *)
(*                                                                         *)
(*   - while nobody asked it to stop, the server stays up, takes every     *)
(*     connection that arrives and never drops one that still waits;       *)
(*   - a stop request ends the service: the server goes down and stays     *)
(*     down, and once it is down no connection is admitted;                *)
(*   - once it is destroyed no connection is left open.                    *)
(***************************************************************************)
CONSTANT Conns          \* the connections peers may open

VARIABLES phase,        \* "up", "stopping", "down" or "destroyed"
          waiting,      \* connections the kernel completed, not yet served
          serving,      \* connections that have a session
          over          \* connections that were refused, dropped or finished

vars == <<phase, waiting, serving, over>>

Fresh == Conns \ (waiting \union serving \union over)

Init ==
    /\ phase = "up"
    /\ waiting = {} /\ serving = {} /\ over = {}

\* While the server is up an arriving connection is always taken.
Arrive(c) ==
    /\ phase # "destroyed"
    /\ c \in Fresh
    /\ waiting' = waiting \union {c}
    /\ UNCHANGED <<phase, serving, over>>

Refuse(c) ==
    /\ phase # "up"
    /\ c \in Fresh
    /\ over' = over \union {c}
    /\ UNCHANGED <<phase, waiting, serving>>

Admit(c) ==
    /\ phase \in {"up", "stopping"}
    /\ c \in waiting
    /\ waiting' = waiting \ {c}
    /\ serving' = serving \union {c}
    /\ UNCHANGED <<phase, over>>

Leave(c) ==
    /\ phase \in {"up", "stopping"}
    /\ c \in serving
    /\ serving' = serving \ {c}
    /\ over' = over \union {c}
    /\ UNCHANGED <<phase, waiting>>

\* Connections that nobody served may be lost, but only by stopping.
DropWaiting(D) ==
    /\ phase # "up"
    /\ D # {} /\ D \subseteq waiting
    /\ waiting' = waiting \ D
    /\ over' = over \union D
    /\ UNCHANGED <<phase, serving>>

RequestStop ==
    /\ phase = "up"
    /\ phase' = "stopping"
    /\ UNCHANGED <<waiting, serving, over>>

GoDown ==
    /\ phase = "stopping"
    /\ phase' = "down"
    /\ UNCHANGED <<waiting, serving, over>>

Destroy ==
    /\ phase = "down"
    /\ phase' = "destroyed"
    /\ over' = over \union waiting \union serving
    /\ waiting' = {} /\ serving' = {}

Next ==
    \/ \E c \in Conns : Arrive(c) \/ Refuse(c) \/ Admit(c) \/ Leave(c)
    \/ \E D \in SUBSET Conns : DropWaiting(D)
    \/ RequestStop
    \/ GoDown
    \/ Destroy

\* That a stop completes is left to WsServer's StopCompletes.
Spec == Init /\ [][Next]_vars
=============================================================================
