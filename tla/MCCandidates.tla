---------------------------- MODULE MCCandidates ----------------------------
(***************************************************************************)
(* Instances of Candidates with small numbers.                             *)
(***************************************************************************)
EXTENDS Candidates

First0 == [parent |-> [number |-> -1], number |-> 0, timestamp |-> 0, difficulty |-> 8,
           gas_limit |-> 12, gas_used |-> 0, uncles |-> <<>>]

Three ==
  {[delay |-> 1, low |-> FALSE, full |-> FALSE, extra |-> 0],
   [delay |-> 4, low |-> TRUE, full |-> TRUE, extra |-> 0],
   [delay |-> 1, low |-> FALSE, full |-> FALSE, extra |-> 1]}
=============================================================================
