---------------------------- MODULE MCCasperChain ----------------------------
(***************************************************************************)
(* A small block tree for CasperChain with epochs of two blocks.  A block  *)
(* is <<branch, height>>.                                                  *)
(***************************************************************************)
EXTENDS CasperChain

(* Competing checkpoints a2 and b2 above a1.  The votes in a3 and d3 are    *)
(* for a2, those in b3 and in the late block c3 for b2, those in b5 for b4. *)
(* c3 is from the future, a5 is invalid, and the score of a2 has a          *)
(* tie-breaker.                                                             *)
MCGenesis == <<"g", 0>>
MCBlock == {<<"a", 1>>, <<"a", 2>>, <<"a", 3>>, <<"a", 4>>, <<"a", 5>>,
            <<"b", 2>>, <<"b", 3>>, <<"b", 4>>, <<"b", 5>>, <<"b", 6>>,
            <<"c", 3>>, <<"d", 3>>}
MCAll == MCBlock \cup {MCGenesis}
MCParent ==
  [b \in MCBlock |-> CASE b[2] = 1 -> MCGenesis
                       [] b[2] = 2 -> <<"a", 1>>
                       [] b = <<"c", 3>> -> <<"b", 2>>
                       [] b = <<"d", 3>> -> <<"a", 2>>
                       [] OTHER -> <<b[1], b[2] - 1>>]
MCNumber == [b \in MCAll |-> b[2]]
MCAnc ==
  LET up[k \in 0..MaxHeight, b \in MCAll] ==
        IF k = 0 \/ b = MCGenesis THEN b ELSE up[k - 1, MCParent[b]]
  IN [b \in MCAll |-> [n \in 0..MaxHeight |->
                         IF n <= b[2] THEN up[b[2] - n, b] ELSE NoBlock]]
MCFrac ==
  [b \in MCBlock |-> CASE b = <<"a", 3>> -> 2
                       [] b = <<"b", 3>> -> 1
                       [] b = <<"b", 5>> -> 2
                       [] b = <<"c", 3>> -> 3
                       [] b = <<"d", 3>> -> 4
                       [] OTHER -> 0]
MCTimestamp == [b \in MCAll |-> IF b = <<"c", 3>> THEN 1 ELSE 0]
MCDifficulty == [b \in MCAll |-> IF b = <<"a", 2>> THEN 11 ELSE 10]
MCValid == MCBlock \ {<<"a", 5>>}
NoTxs == [b \in MCAll |-> {}]
==============================================================================
