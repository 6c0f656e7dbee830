-------------------------- MODULE MCMissionManager --------------------------
(***************************************************************************)
(* Bounded instance of MissionManager.                                     *)
(***************************************************************************)
EXTENDS MissionManager

MCPlanItems == {[cmd |-> "NAV_WAYPOINT", param1 |-> 0]}

=============================================================================
