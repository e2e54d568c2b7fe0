---------------------------- MODULE MCCoordinator ----------------------------
(* A battery that is idle, covers a small draw or feeds the grid as it      *)
(* discharges at more than ten times that, and an SoC near the edge of two  *)
(* percents.                                                                *)
EXTENDS Coordinator

MCFlows == {[bat |-> 0, export |-> 0], [bat |-> -4, export |-> 0],
            [bat |-> -60, export |-> 2]}
MCNearZero == [bat |-> 2, export |-> 0]
=============================================================================
