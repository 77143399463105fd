------------------------------ MODULE MCPipes ------------------------------
(***************************************************************************)
(* The two ways of src/src/MessageBus to send text over a fifo, one or the *)
(* other: the stream of pstream.hpp, and the two functions of              *)
(* dispatcher.cpp.                                                         *)
(***************************************************************************)
EXTENDS PipeStream, NamedPipe

VARIABLE stream        \* which of the two; never changes

PipesInit == Init /\ NamedInit /\ stream \in BOOLEAN /\ (async => stream)

PipesNext ==
    \/ stream /\ Next /\ UNCHANGED <<namedVars, stream>>
    \/ ~stream /\ NamedNext /\ UNCHANGED <<vars, stream>>

PipesSpec ==
    /\ PipesInit /\ [][PipesNext]_<<vars, namedVars, stream>>
    /\ stream => WF_vars(ReadStep)
    /\ ~stream => NamedFairness
=============================================================================
