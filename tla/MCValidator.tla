----------------------------- MODULE MCValidator -----------------------------
(***************************************************************************)
(* A block tree for Validator with epochs of three blocks, the first of    *)
(* which is too early to vote: a chain that reaches into epoch 2, and a    *)
(* heavy branch that forks off in epoch 0 and stays in epoch 1.  A block   *)
(* is <<branch, height>>.                                                  *)
(***************************************************************************)
EXTENDS Validator

MCGenesis == <<"g", 0>>
MCBlock == ({"a"} \X (1..7)) \cup {<<"b", 3>>, <<"b", 4>>}
MCAll == MCBlock \cup {MCGenesis}
MCParent ==
  [b \in MCBlock |-> CASE b = <<"a", 1>> -> MCGenesis
                       [] b = <<"b", 3>> -> <<"a", 2>>
                       [] OTHER -> <<b[1], b[2] - 1>>]
MCNumber == [b \in MCAll |-> b[2]]
MCAnc ==
  [b \in MCAll |-> [n \in 0..MaxHeight |->
     CASE n > b[2] -> NoBlock
       [] n = 0 -> MCGenesis
       [] n > 2 -> <<b[1], n>>
       [] OTHER -> <<"a", n>>]]
MCDifficulty == [b \in MCAll |-> IF b = <<"b", 4>> THEN 45 ELSE 10]
AtOnce == [b \in MCAll |-> 0]
NoTxs == [b \in MCAll |-> {}]

(* Either nobody commits, or a4 has commits to a3, and b4 more to b3.       *)
NoFrac == [b \in MCBlock |-> 0]
MCFrac == [b \in MCBlock |-> CASE b = <<"a", 4>> -> 1
                               [] b = <<"b", 4>> -> 2
                               [] OTHER -> 0]

(* In one case a4 lacks this validator's vote, others justify the rest of   *)
(* epochs 0 and 1, and nobody epoch 2; in the other only b4 is justified.   *)
MCJustified == {b \in MCBlock : b[2] \in {1, 2, 5} \/ b[1] = "b"}
MCTipping == {<<"a", 4>>}
RightJustified == {<<"b", 4>>}
==============================================================================
