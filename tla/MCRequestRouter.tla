-------------------------- MODULE MCRequestRouter --------------------------
(* A directory, a file in it and a file beside it.                         *)
EXTENDS RequestRouter, TLC

CONSTANTS d, f, g, x, y

Interchangeable == Permutations({x, y})

MCParent == d :> Top @@ f :> d @@ g :> Top
=============================================================================
