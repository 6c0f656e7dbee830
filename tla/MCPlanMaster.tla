---------------------------- MODULE MCPlanMaster ----------------------------
(* PlanMaster for TLC. *)
EXTENDS PlanMaster
=============================================================================
