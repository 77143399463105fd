---------------------------- MODULE MCFBPlusTree ----------------------------
(* FBPlusTree with the smallest degree: three keys to a node.  One tree is *)
(* grown to KeyCount keys; once a second one is used, or a tree is         *)
(* cleared, copied or moved, all stay within SharedKeys and SharedNodes.   *)
EXTENDS FBPlusTree

CONSTANTS First, KeyCount, SharedKeys, SharedNodes, MaxWhole

MCKeys == 1..KeyCount

VARIABLE whole          \* clears, copies and moves so far

MCInit == Init /\ whole = 0
MCNext ==
    \/ Insertion /\ UNCHANGED whole
    \/ WholeTree /\ whole < MaxWhole /\ whole' = whole + 1
MCSpec == MCInit /\ [][MCNext]_<<vars, whole>>

Bounds ==
    (whole > 0 \/ \E t \in Trees \ {First} : root[t] # Nil) =>
      /\ DOMAIN heap \subseteq 1..SharedNodes
      /\ \A n \in DOMAIN heap : ToSet(heap[n].keys) \subseteq 1..SharedKeys
=============================================================================
