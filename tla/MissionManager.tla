--------------------------- MODULE MissionManager ---------------------------
(***************************************************************************)
(* MissionManager (src/src/MissionManager/MissionManager.cc): a PlanManager *)
(* for the mission, which also follows the vehicle's progress through it.  *)
(* The vehicle reports its current item (MISSION_CURRENT, HIGH_LATENCY,    *)
(* HIGH_LATENCY2) and its flight mode (HEARTBEAT); the item it was last at *)
(* in mission flight mode is where a mission can be resumed.               *)
(*                                                                         *)
(* The vehicle is the one of the comment at MissionManager.cc:271: leaving *)
(* mission flight mode to return to launch also moves its current item to  *)
(* the landing sequence.  Its reports arrive in order and may be lost.     *)
(***************************************************************************)
EXTENDS PlanManager

CONSTANTS
  LastIndex,       \* bound: largest index of an item the vehicle flies
  LandStart,       \* index of DO_LAND_START
  MaxTelemetry     \* bound: reports in flight

ASSUME IndexAssumption ==
  /\ LastIndex \in Nat
  /\ LandStart \in Nat \ (0..LastIndex)
  /\ MaxTelemetry \in Nat
  /\ PlanType = "mission"

VARIABLES
  currentMissionIndex,       \* _currentMissionIndex
  lastCurrentIndex,          \* _lastCurrentIndex
  cachedLastCurrentIndex,    \* _cachedLastCurrentIndex
  vehicleIndex,              \* the item the vehicle is at
  vehicleInMission,          \* the vehicle is in mission flight mode
  reentered,                 \* it has gone back to mission flight mode
  telemetry                  \* its reports that have not arrived

indexVars   == <<currentMissionIndex, lastCurrentIndex, cachedLastCurrentIndex>>
vehicleVars == <<vehicleIndex, vehicleInMission, reentered, telemetry>>
missionVars == <<vars, indexVars, vehicleVars>>

MissionCurrent(index) == [id |-> "MISSION_CURRENT", index |-> index]
Heartbeat(inMission)  == [id |-> "HEARTBEAT", inMission |-> inMission]

-----------------------------------------------------------------------------
(* The plan transactions of PlanManager; two of their steps forget the     *)
(* indices: the start of removeAll and the end of a successful write.      *)

ForgetsIndices ==
  \/ /\ transactionInProgress = "TransactionNone"
     /\ transactionInProgress' = "TransactionRemoveAll"
  \/ /\ transactionInProgress = "TransactionWrite"
     /\ transactionInProgress' = "TransactionNone"
     /\ outcome'.signal = "sendComplete" /\ ~outcome'.error

PlanStep ==
  /\ Next
  /\ currentMissionIndex' = IF ForgetsIndices THEN -1 ELSE currentMissionIndex
  /\ lastCurrentIndex' = IF ForgetsIndices THEN -1 ELSE lastCurrentIndex
  /\ UNCHANGED <<cachedLastCurrentIndex, vehicleVars>>

-----------------------------------------------------------------------------
(* The vehicle.                                                            *)

VehicleAdvances ==
  /\ vehicleInMission
  /\ vehicleIndex' \in 0..LastIndex
  /\ UNCHANGED <<vars, indexVars, vehicleInMission, reentered, telemetry>>

VehicleReturnsToLaunch ==
  /\ vehicleInMission
  /\ vehicleInMission' = FALSE
  /\ vehicleIndex' = LandStart
  /\ UNCHANGED <<vars, indexVars, reentered, telemetry>>

VehicleReentersMission ==
  /\ ~vehicleInMission
  /\ vehicleInMission' = TRUE
  /\ reentered' = TRUE
  /\ vehicleIndex' \in 0..LastIndex
  /\ UNCHANGED <<vars, indexVars, telemetry>>

VehicleReports ==
  /\ Len(telemetry) < MaxTelemetry
  /\ \E m \in {MissionCurrent(vehicleIndex), Heartbeat(vehicleInMission)} :
       telemetry' = Append(telemetry, m)
  /\ UNCHANGED <<vars, indexVars, vehicleIndex, vehicleInMission, reentered>>

ReportLost ==
  /\ telemetry # <<>>
  /\ telemetry' = Tail(telemetry)
  /\ UNCHANGED <<vars, indexVars, vehicleIndex, vehicleInMission, reentered>>

-----------------------------------------------------------------------------
(* MissionManager::_mavlinkMessageReceived.                                *)

\* _updateMissionIndex
HandleMissionCurrent ==
  /\ telemetry # <<>> /\ Head(telemetry).id = "MISSION_CURRENT"
  /\ telemetry' = Tail(telemetry)
  /\ currentMissionIndex' = Head(telemetry).index
  /\ cachedLastCurrentIndex' =
       IF currentMissionIndex' # lastCurrentIndex THEN currentMissionIndex'
       ELSE cachedLastCurrentIndex
  /\ UNCHANGED <<vars, lastCurrentIndex, vehicleIndex, vehicleInMission,
                 reentered>>

\* Mutant: the flight mode is not asked for.
HandleHeartbeat_AnyMode ==
  /\ telemetry # <<>> /\ Head(telemetry).id = "HEARTBEAT"
  /\ telemetry' = Tail(telemetry)
  /\ LET update == cachedLastCurrentIndex # -1
     IN  /\ lastCurrentIndex' =
              IF update THEN cachedLastCurrentIndex ELSE lastCurrentIndex
         /\ cachedLastCurrentIndex' =
              IF update THEN -1 ELSE cachedLastCurrentIndex
  /\ UNCHANGED <<vars, currentMissionIndex, vehicleIndex, vehicleInMission,
                 reentered>>

\* Vehicle has taken the flight mode from the HEARTBEAT before this handler
\* compares it.
HandleHeartbeat ==
  /\ telemetry # <<>> /\ Head(telemetry).id = "HEARTBEAT"
  /\ telemetry' = Tail(telemetry)
  /\ LET update == cachedLastCurrentIndex # -1 /\ Head(telemetry).inMission
     IN  /\ lastCurrentIndex' =
              IF update THEN cachedLastCurrentIndex ELSE lastCurrentIndex
         /\ cachedLastCurrentIndex' =
              IF update THEN -1 ELSE cachedLastCurrentIndex
  /\ UNCHANGED <<vars, currentMissionIndex, vehicleIndex, vehicleInMission,
                 reentered>>

-----------------------------------------------------------------------------

MissionInit ==
  /\ Init
  /\ currentMissionIndex = -1
  /\ lastCurrentIndex = -1
  /\ cachedLastCurrentIndex = -1
  /\ vehicleIndex = 0
  /\ vehicleInMission = TRUE
  /\ reentered = FALSE
  /\ telemetry = <<>>

MissionNext ==
  \/ PlanStep
  \/ VehicleAdvances
  \/ VehicleReturnsToLaunch
  \/ VehicleReentersMission
  \/ VehicleReports
  \/ ReportLost
  \/ HandleMissionCurrent
  \/ HandleHeartbeat

MissionSpec == MissionInit /\ [][MissionNext]_missionVars

-----------------------------------------------------------------------------
(* Properties.                                                             *)

\* The landing sequence a return to launch jumps to never becomes the item
\* the mission would be resumed at: the reason _updateMissionIndex caches the
\* index until the next HEARTBEAT (MissionManager.cc:271-276).  It is claimed
\* until the vehicle comes back to mission flight mode.
LandingIsNotResumed ==
  ~reentered => lastCurrentIndex # LandStart

=============================================================================
