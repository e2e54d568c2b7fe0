------------------------ MODULE MCDischargeListener ------------------------
(***************************************************************************)
(* Instances of DischargeListener for TLC.                                 *)
(***************************************************************************)
EXTENDS DischargeListener, TLC

SameCalls == Permutations(Calls)
=============================================================================
