---------------------------- MODULE MCRealtimeWS ----------------------------
(* Two starts together and two streams, for a stream nobody tracks beside  *)
(* the tracked one; two faults, so that a reconnect that failed can fail    *)
(* again after the drop that began it.                                     *)
EXTENDS RealtimeWS

MCStarters == {1, 2}
=============================================================================
