----------------------------- MODULE Snapshots -----------------------------
(***************************************************************************)
(* What nested execution promises.  A world is worked on by calls within   *)
(* calls.  A call that succeeds leaves the world as it has made it; one    *)
(* that fails leaves it as it was when the call began, whatever the calls  *)
(* within it did and however they ended.                                   *)
(***************************************************************************)
EXTENDS Sequences, SequencesExt

VARIABLES
  world,
  saved     \* the world at the start of each call that is going on, outermost first

Init == saved = <<>>

\* A call may have its price, which its failure does not give back.
Begin == saved' # <<>> /\ Front(saved') = saved

Work == UNCHANGED saved

Succeed == saved # <<>> /\ saved' = Front(saved) /\ world' = world

Fail == saved # <<>> /\ saved' = Front(saved) /\ world' = Last(saved)

Next == Begin \/ Work \/ Succeed \/ Fail

Spec == Init /\ [][Next]_<<world, saved>>
=============================================================================
