------------------------------- MODULE MCTrie -------------------------------
(***************************************************************************)
(* Binary keys of different lengths for Trie, with a value that makes a    *)
(* leaf small enough for its parent and one that does not.                 *)
(***************************************************************************)
EXTENDS Trie

MCKey == {<<0>>, <<0, 0>>, <<0, 1>>, <<0, 1, 0>>, <<1, 0>>}
MCSizeOf == [v \in Value |-> IF v = "small" THEN 1 ELSE 6]
=============================================================================
