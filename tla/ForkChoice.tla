------------------------------ MODULE ForkChoice ------------------------------
(***************************************************************************)
(* What a proof-of-work chain promises about its head, and nothing of how  *)
(* it keeps it: blocks are accepted once, below an accepted parent and     *)
(* with more weight than it; the tip moves only to a block at the moment   *)
(* it is accepted, and does so exactly if that block is the heaviest.      *)
(***************************************************************************)
EXTENDS BlockTree

VARIABLES accepted, tip, weight

choice == <<accepted, tip, weight>>

Unweighed == -1

Init ==
  /\ accepted = {Genesis}
  /\ tip = Genesis
  /\ weight = [b \in AllBlock |-> IF b = Genesis THEN 0 ELSE Unweighed]

Accept(b) ==
  /\ b \notin accepted
  /\ Parent[b] \in accepted
  /\ accepted' = accepted \cup {b}
  /\ weight' = [weight EXCEPT ![b] = weight'[b]]
  /\ weight'[b] >= weight[Parent[b]] + Difficulty[b]
  /\ tip' = IF weight'[b] > weight[tip] THEN b ELSE tip

Next == \E b \in Block : Accept(b)

Spec == Init /\ [][Next]_choice

(* The tip is a heaviest accepted block.                                   *)
Heaviest == tip \in accepted /\ \A b \in accepted : weight[b] <= weight[tip]
===============================================================================
