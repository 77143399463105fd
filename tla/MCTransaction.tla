--------------------------- MODULE MCTransaction ---------------------------
(* Transaction with the modifications of the sample's main().              *)
EXTENDS Transaction

CONSTANTS t1, t2, t3

MCTx           == {t1, t2, t3}
MCModification == [t \in Tx |-> IF t = t1 THEN 500 ELSE 200]
=============================================================================
