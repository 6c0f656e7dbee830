---------------------------- MODULE MCPlanManager ----------------------------
(***************************************************************************)
(* Bounded instance of PlanManager.                                        *)
(***************************************************************************)
EXTENDS PlanManager

MCPlanItems ==
  {[cmd |-> "NAV_WAYPOINT", param1 |-> 0], [cmd |-> "DO_JUMP", param1 |-> 1]}

MCUninitializedInts == {-1, 0, 99}

=============================================================================
