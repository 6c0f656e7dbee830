---------------------------- MODULE PlanMessages ----------------------------
(***************************************************************************)
(* The MAVLink mission messages the ground station and the vehicle         *)
(* exchange, with the fields the protocol's control depends on.            *)
(***************************************************************************)
EXTENDS Integers

PlanTypes == {"mission", "fence", "rally"}   \* MAV_MISSION_TYPE

\* NAV_WAYPOINT stands for every command without a reference to another item.
Commands == {"NAV_WAYPOINT", "DO_JUMP", "none"}   \* MAV_CMD

\* The part of an item that is not data: DO_JUMP refers to another item of
\* the plan by its number in param1.
Item   == [cmd : Commands, param1 : Int]
NoItem == [cmd |-> "none", param1 |-> 0]

Results == {"ACCEPTED", "INVALID_SEQUENCE", "ERROR"}   \* MAV_MISSION_RESULT

RequestListMessage(type) == [id |-> "MISSION_REQUEST_LIST", type |-> type]
CountMessage(type, count) ==
  [id |-> "MISSION_COUNT", type |-> type, count |-> count]
RequestMessage(type, seq) ==
  [id |-> "MISSION_REQUEST_INT", type |-> type, seq |-> seq]
ItemMessage(type, seq, item) ==
  [id |-> "MISSION_ITEM_INT", type |-> type, seq |-> seq, item |-> item]
AckMessage(type, result) ==
  [id |-> "MISSION_ACK", type |-> type, result |-> result]
ClearAllMessage(type) == [id |-> "MISSION_CLEAR_ALL", type |-> type]
GuidedItemMessage     == [id |-> "MISSION_ITEM", type |-> "mission"]

=============================================================================
