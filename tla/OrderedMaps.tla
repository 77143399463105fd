---------------------------- MODULE OrderedMaps ----------------------------
(***************************************************************************)
(* What src/src/include/BPY/fbptree/fbptree.hpp promises to its users:     *)
(* every tree object is a map; an insertion changes one entry of one map,  *)
(* a copy is independent of its source, a move empties its source.         *)
(***************************************************************************)
CONSTANTS Trees, Keys, Values

VARIABLE content          \* tree -> its entries, pairs of a key and a value

Init == content = [t \in Trees |-> {}]

Insert(t, k, v) ==
    content' = [content EXCEPT ![t] = {e \in @ : e[1] # k} \union {<<k, v>>}]

Clear(t) == content' = [content EXCEPT ![t] = {}]

Copy(t, from) == content' = [content EXCEPT ![t] = content[from]]

Move(t, from) == content' = [content EXCEPT ![t] = content[from], ![from] = {}]

Next ==
    \E t \in Trees :
      \/ Clear(t)
      \/ \E k \in Keys, v \in Values : Insert(t, k, v)
      \/ \E from \in Trees \ {t} : Copy(t, from) \/ Move(t, from)

Spec == Init /\ [][Next]_content
=============================================================================
