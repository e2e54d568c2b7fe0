-------------------------- MODULE MCChargeListener --------------------------
(***************************************************************************)
(* Instances of ChargeListener for TLC.                                    *)
(***************************************************************************)
EXTENDS ChargeListener, TLC

Interchangeable == Permutations(Sessions) \cup Permutations(Calls)
=============================================================================
