----------------------------- MODULE MCPowChain -----------------------------
(***************************************************************************)
(* Small block trees for PowChain.  A block is <<branch, height>>.         *)
(***************************************************************************)
EXTENDS PowChain, FiniteSets

(* The path to b, by walking up the parents.                               *)
PathIn(parent, b) ==
  LET up[k \in 0..MaxHeight] ==
        IF k = 0 THEN b
        ELSE IF up[k - 1] \in DOMAIN parent THEN parent[up[k - 1]]
        ELSE Genesis
  IN up

PathsIn(parent, number) ==
  [b \in DOMAIN number |->
     [n \in Height |-> IF n <= number[b]
                       THEN PathIn(parent, b)[number[b] - n] ELSE NoBlock]]

MCGenesis == <<"g", 0>>
MCNumber == [b \in AllBlock |-> b[2]]

-----------------------------------------------------------------------------
(* A chain a1-a2-a3 with a fork b2-b3-b4 off a1.                            *)
ForkBlock == {<<"a", 1>>, <<"a", 2>>, <<"a", 3>>,
              <<"b", 2>>, <<"b", 3>>, <<"b", 4>>}
ForkParent ==
  [b \in Block |-> IF b[2] = 1 THEN Genesis
                   ELSE IF b = <<"b", 2>> THEN <<"a", 1>>
                   ELSE <<b[1], b[2] - 1>>]
ForkAnc == PathsIn(Parent, Number)
ForkTimestamp == [b \in AllBlock |-> IF b[2] >= 3 THEN 1 ELSE 0]
ForkTxs ==
  [b \in AllBlock |-> CASE b = <<"a", 2>> -> {"s"}
                        [] b = <<"a", 3>> -> {"t"}
                        [] b = <<"b", 2>> -> {"t"}
                        [] b = <<"b", 4>> -> {"s"}
                        [] OTHER -> {}]
AllOk == [b \in Block |-> "ok"]

(* Two accounts, x and y, beside a root of its own for every block; both    *)
(* branches write the same content to y, and b3 writes back an old one.     *)
ForkX == [b \in AllBlock |-> IF b[2] >= 3 /\ b[1] = "a" THEN "x1" ELSE "x0"]
ForkY == [b \in AllBlock |-> CASE b[2] < 2 -> "y0"
                               [] b \in {<<"b", 3>>, <<"b", 4>>} -> "y0"
                               [] OTHER -> "y1"]
NodesOf(x, y) == [b \in AllBlock |-> {b, <<x[b]>>, <<y[b]>>}]
ForkNodes == NodesOf(ForkX, ForkY)
ForkNode == UNION {Nodes[b] : b \in AllBlock}
MCRoot == [b \in AllBlock |-> b]
MCReads == [b \in Block |-> ReplacedBy(b)]
Unit == [b \in AllBlock |-> 10]

-----------------------------------------------------------------------------
(* A chain a1-a2-a3 beside a heavier child c1 of Genesis with a child c2,   *)
(* and a block x2 on a1 whose second transaction is invalid; with noise in the scores     *)
(* c1 and a2 tie or not.                                                    *)
HeavyBlock == {<<"a", 1>>, <<"a", 2>>, <<"a", 3>>, <<"c", 1>>, <<"c", 2>>,
               <<"x", 2>>}
HeavyParent ==
  [b \in Block |-> IF b[2] = 1 THEN Genesis
                   ELSE IF b[1] = "x" THEN <<"a", 1>>
                   ELSE <<b[1], b[2] - 1>>]
HeavyAnc == PathsIn(Parent, Number)
HeavyTimestamp == [b \in AllBlock |-> IF b = <<"a", 2>> THEN 1 ELSE 0]
HeavyDifficulty == [b \in AllBlock |-> IF b = <<"c", 1>> THEN 8 ELSE 4]
HeavyTxs ==
  [b \in AllBlock |-> CASE b \in {<<"a", 1>>, <<"c", 2>>} -> {"s"}
                        [] b \in {<<"a", 3>>, <<"c", 1>>} -> {"t"}
                        [] OTHER -> {}]
HeavyVerdict == [b \in Block |-> IF b[1] = "x" THEN "unreverted" ELSE "ok"]
HeavyX == [b \in AllBlock |-> IF b[1] = "c" THEN "x1" ELSE "x0"]
HeavyY == [b \in AllBlock |-> IF b[2] >= 2 THEN "y1" ELSE "y0"]
HeavyNodes == NodesOf(HeavyX, HeavyY)
=============================================================================
