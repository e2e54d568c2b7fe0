------------------------------ MODULE MCPacing ------------------------------
(* A battery of 2 kWh behind an inverter of 3 kW, so that a window of a     *)
(* quarter of an hour sees a charge deferred, begun, given up and begun     *)
(* again, and a discharge down to its floor; a draw whose safety floor is   *)
(* above the dead band, none, and a surplus too small to count as taper; a  *)
(* profile that is empty, one that knows the battery's end, and one that    *)
(* sensors in the wrong unit ruined.                                        *)
EXTENDS Display

MCNets     == {-120, 0, 900}
MCProfiles == {[k \in {} |-> 0],
               [k \in {66, 78} |-> [ratio |-> IF k = 66 THEN 1000 ELSE 700,
                                    count |-> 2]],
               [k \in {-1, 66, 70} |-> [ratio |-> 20, count |-> 3]]}
=============================================================================
