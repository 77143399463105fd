---------------------------- MODULE MCEchoSystem ----------------------------
(* EchoSystem on a small instance.                                         *)
EXTENDS EchoSystem

MCLines   == {"hello", "make me wait", "/shutdown"}
MCPhrases == {"make me wait"}
=============================================================================
