----------------------------- MODULE MCWsServer -----------------------------
(* WsServer on a small instance.                                           *)
EXTENDS WsServer, TLC

\* The connections are interchangeable: sound for the safety run only.
Symmetry == Permutations(Conns)
=============================================================================
