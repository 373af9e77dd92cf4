----------------------------- MODULE Dictionary -----------------------------
(***************************************************************************)
(* What a trie promises: it is a finite map from keys to values, an update *)
(* sets one key, a deletion removes one, and nothing else changes it.      *)
(***************************************************************************)
EXTENDS Naturals

CONSTANTS Key, Value

VARIABLE dict

Init == dict = [k \in {} |-> k]

Put(k, v) == dict' = [x \in DOMAIN dict \union {k} |-> IF x = k THEN v ELSE dict[x]]

Remove(k) == dict' = [x \in DOMAIN dict \ {k} |-> dict[x]]

Next == \E k \in Key : Remove(k) \/ \E v \in Value : Put(k, v)

Spec == Init /\ [][Next]_dict
=============================================================================
