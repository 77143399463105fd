--------------------------- MODULE MCLoginHandler ---------------------------
(* LoginHandler on a small instance.                                       *)
EXTENDS LoginHandler, TLC

MCNames     == {"Admin", "admin", "ann"}
MCFold      == [n \in MCNames |-> IF n = "ann" THEN "ann" ELSE "admin"]
MCPasswords == {"PASSWD", "TOMBSTONE"}

\* The uuids not handed out at the start are interchangeable.
Symmetry == Permutations(Uuids \ {AdminId, SpareId})
=============================================================================
