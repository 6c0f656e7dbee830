--------------------------- MODULE MCPlanTransfer ---------------------------
(***************************************************************************)
(* Bounded instances of PlanTransfer.                                      *)
(***************************************************************************)
EXTENDS PlanTransfer

Waypoint == [cmd |-> "NAV_WAYPOINT", param1 |-> 0]
Jump     == [cmd |-> "DO_JUMP", param1 |-> 1]

\* What the vehicle stores at start, as functions of the sequence number.
MCVehiclePlan == {Vehicle!NoItems, [s \in {0} |-> Waypoint],
                  [s \in {0, 1} |-> IF s = 0 THEN Waypoint ELSE Jump]}
MCWaypointPlan == {Vehicle!NoItems, [s \in {0, 1} |-> Waypoint]}

MCWaypoints == {Waypoint}
MCJumps     == {Waypoint, Jump}
MCFailNone  == {"FailNone"}
MCAllModes  == Vehicle!FailureModes

=============================================================================
