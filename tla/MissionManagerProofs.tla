------------------------- MODULE MissionManagerProofs -------------------------
(***************************************************************************)
(* Proof about MissionManager: the landing sequence of a return to launch  *)
(* does not become the resume index, for any plan, any number of reports   *)
(* under way and any plan transactions.                                    *)
(*                                                                         *)
(* The landing sequence can get as far as the cache.  It gets no further   *)
(* because its report follows the change of flight mode at the vehicle, and *)
(* reports keep their order: behind it, in the queue and at the vehicle,   *)
(* there is no mission flight mode to take the cache over with.            *)
(***************************************************************************)
EXTENDS MissionManager, SequenceTheorems, TLAPS

Reports == [id : {"MISSION_CURRENT"}, index : Int]
             \cup [id : {"HEARTBEAT"}, inMission : BOOLEAN]

IsLanding(m)   == m.id = "MISSION_CURRENT" /\ m.index = LandStart
IsInMission(m) == m.id = "HEARTBEAT" /\ m.inMission

\* Where the landing sequence may be, and what then is not behind it.
Ordered ==
  /\ lastCurrentIndex # LandStart
  /\ vehicleInMission =>
       /\ vehicleIndex # LandStart
       /\ cachedLastCurrentIndex # LandStart
       /\ \A i \in DOMAIN telemetry : ~IsLanding(telemetry[i])
  /\ cachedLastCurrentIndex = LandStart =>
       \A i \in DOMAIN telemetry : ~IsInMission(telemetry[i])
  /\ \A i, j \in DOMAIN telemetry :
       i < j /\ IsLanding(telemetry[i]) => ~IsInMission(telemetry[j])

IInv ==
  /\ telemetry \in Seq(Reports)
  /\ vehicleIndex \in Int
  /\ vehicleInMission \in BOOLEAN
  /\ ~reentered => Ordered

\* Nothing is cached, and no report under way.
LEMMA Initially == MissionInit => IInv
<1> SUFFICES ASSUME MissionInit PROVE IInv
  OBVIOUS
<1> DEFINE none == <<>>
<1>1. none \in Seq(Reports) /\ DOMAIN none = {}
  OBVIOUS
<1>2. telemetry = none
  BY DEF MissionInit
<1> HIDE DEF none
<1>3. Ordered
  BY <1>1, <1>2, IndexAssumption DEF MissionInit, Ordered
<1> QED BY <1>1, <1>2, <1>3 DEF MissionInit, IInv

\* Plan transactions forget indices, which are then -1, and leave the reports.
LEMMA PlanStepKeeps == IInv /\ PlanStep => IInv'
<1> SUFFICES ASSUME IInv, PlanStep PROVE IInv'
  OBVIOUS
<1>1. /\ lastCurrentIndex' \in {-1, lastCurrentIndex}
      /\ UNCHANGED <<cachedLastCurrentIndex, vehicleIndex, vehicleInMission,
                     reentered, telemetry>>
  BY DEF PlanStep, vehicleVars
<1>2. lastCurrentIndex # LandStart => lastCurrentIndex' # LandStart
  BY <1>1, IndexAssumption
<1> QED BY <1>1, <1>2 DEF IInv, Ordered

\* The vehicle's own steps: it advances, returns to launch, or goes back to its
\* mission, which ends what is claimed.
LEMMA VehicleKeeps ==
  IInv /\ (VehicleAdvances \/ VehicleReturnsToLaunch \/ VehicleReentersMission)
    => IInv'
<1> SUFFICES ASSUME IInv,
                    VehicleAdvances \/ VehicleReturnsToLaunch
                      \/ VehicleReentersMission
             PROVE IInv'
  OBVIOUS
<1>1. CASE VehicleAdvances
  <2>1. vehicleIndex' \in Int /\ vehicleIndex' # LandStart
    BY <1>1, IndexAssumption DEF VehicleAdvances
  <2> QED BY <1>1, <2>1 DEF VehicleAdvances, indexVars, IInv, Ordered
<1>2. CASE VehicleReturnsToLaunch
  <2>1. vehicleIndex' \in Int
    BY <1>2, IndexAssumption DEF VehicleReturnsToLaunch
  <2> QED BY <1>2, <2>1 DEF VehicleReturnsToLaunch, indexVars, IInv, Ordered
<1>3. CASE VehicleReentersMission
  <2>1. vehicleIndex' \in Int
    BY <1>3, IndexAssumption DEF VehicleReentersMission
  <2> QED BY <1>3, <2>1 DEF VehicleReentersMission, indexVars, IInv
<1> QED BY <1>1, <1>2, <1>3

\* A report says where the vehicle is and in what mode.
LEMMA ReportKeeps == IInv /\ VehicleReports => IInv'
<1> SUFFICES ASSUME IInv, VehicleReports PROVE IInv'
  OBVIOUS
<1>1. PICK m \in {MissionCurrent(vehicleIndex), Heartbeat(vehicleInMission)} :
        telemetry' = Append(telemetry, m)
  BY DEF VehicleReports
<1>2. /\ m \in Reports
      /\ IsLanding(m) => vehicleIndex = LandStart
      /\ IsInMission(m) => vehicleInMission
  BY DEF IInv, Reports, MissionCurrent, Heartbeat, IsLanding, IsInMission
<1>3. /\ telemetry' \in Seq(Reports)
      /\ DOMAIN telemetry' = DOMAIN telemetry \cup {Len(telemetry) + 1}
      /\ DOMAIN telemetry = 1..Len(telemetry) /\ Len(telemetry) \in Nat
      /\ \A i \in DOMAIN telemetry : telemetry'[i] = telemetry[i]
      /\ telemetry'[Len(telemetry) + 1] = m
  BY <1>1, <1>2 DEF IInv
<1>4. /\ UNCHANGED <<lastCurrentIndex, cachedLastCurrentIndex, vehicleIndex,
                     vehicleInMission, reentered>>
  BY DEF VehicleReports, indexVars
<1>5. ASSUME ~reentered PROVE Ordered'
  <2>1. Ordered
    BY <1>5 DEF IInv
  <2>2. vehicleInMission => \A i \in DOMAIN telemetry' : ~IsLanding(telemetry'[i])
    BY <1>2, <1>3, <2>1 DEF Ordered
  <2>3. cachedLastCurrentIndex = LandStart =>
          \A i \in DOMAIN telemetry' : ~IsInMission(telemetry'[i])
    BY <1>2, <1>3, <2>1 DEF Ordered
  <2>4. ASSUME NEW i \in DOMAIN telemetry', NEW j \in DOMAIN telemetry', i < j,
               IsLanding(telemetry'[i])
        PROVE  ~IsInMission(telemetry'[j])
    <3>1. i \in DOMAIN telemetry
      BY <1>3, <2>4
    <3>2. IsLanding(telemetry[i])
      BY <1>3, <2>4, <3>1
    <3>3. CASE j \in DOMAIN telemetry
      BY <1>3, <2>1, <2>4, <3>1, <3>2, <3>3 DEF Ordered
    <3>4. CASE j = Len(telemetry) + 1
      BY <1>2, <1>3, <2>1, <3>1, <3>2, <3>4 DEF Ordered
    <3> QED BY <1>3, <3>3, <3>4
  <2> QED BY <1>4, <2>1, <2>2, <2>3, <2>4 DEF Ordered
<1> QED BY <1>3, <1>4, <1>5 DEF IInv

\* What a report that leaves the queue leaves behind.
LEMMA TailIsOrdered ==
  ASSUME telemetry \in Seq(Reports), telemetry # <<>>
  PROVE  /\ Tail(telemetry) \in Seq(Reports)
         /\ Head(telemetry) \in Reports
         /\ Head(telemetry) = telemetry[1] /\ 1 \in DOMAIN telemetry
         /\ \A i \in DOMAIN Tail(telemetry) :
              /\ i + 1 \in DOMAIN telemetry /\ i \in Nat /\ i > 0
              /\ Tail(telemetry)[i] = telemetry[i + 1]
BY DEF Reports

\* A report is lost, or moves the current index or the flight mode.
LEMMA ReceiptKeeps ==
  IInv /\ (ReportLost \/ HandleMissionCurrent \/ HandleHeartbeat) => IInv'
<1> SUFFICES ASSUME IInv,
                    ReportLost \/ HandleMissionCurrent \/ HandleHeartbeat
             PROVE IInv'
  OBVIOUS
<1> DEFINE m == Head(telemetry)
<1>1. /\ telemetry # <<>> /\ telemetry' = Tail(telemetry)
      /\ UNCHANGED <<vehicleIndex, vehicleInMission, reentered>>
  BY DEF ReportLost, HandleMissionCurrent, HandleHeartbeat
<1>2. /\ telemetry' \in Seq(Reports) /\ m \in Reports
      /\ m = telemetry[1] /\ 1 \in DOMAIN telemetry
      /\ \A i \in DOMAIN telemetry' :
           /\ i + 1 \in DOMAIN telemetry /\ i \in Nat /\ i > 0
           /\ telemetry'[i] = telemetry[i + 1]
  BY <1>1, TailIsOrdered DEF IInv
<1>3. ASSUME ~reentered PROVE Ordered'
  <2>1. Ordered
    BY <1>3 DEF IInv
  <2>2. /\ vehicleInMission =>
             \A i \in DOMAIN telemetry' : ~IsLanding(telemetry'[i])
        /\ \A i, j \in DOMAIN telemetry' :
             i < j /\ IsLanding(telemetry'[i]) => ~IsInMission(telemetry'[j])
        /\ cachedLastCurrentIndex = LandStart =>
             \A i \in DOMAIN telemetry' : ~IsInMission(telemetry'[i])
        /\ IsLanding(m) =>
             \A i \in DOMAIN telemetry' : ~IsInMission(telemetry'[i])
    BY <1>2, <2>1 DEF Ordered
  <2>3. CASE ReportLost
    BY <1>1, <2>1, <2>2, <2>3 DEF ReportLost, indexVars, Ordered
  <2>4. CASE HandleMissionCurrent
    <3>1. /\ lastCurrentIndex' = lastCurrentIndex
          /\ cachedLastCurrentIndex' \in {m.index, cachedLastCurrentIndex}
          /\ m.id = "MISSION_CURRENT"
      BY <2>4 DEF HandleMissionCurrent
    <3>2. cachedLastCurrentIndex' = LandStart =>
            cachedLastCurrentIndex = LandStart \/ IsLanding(m)
      BY <3>1 DEF IsLanding
    <3>3. vehicleInMission => ~IsLanding(m)
      BY <1>2, <2>1 DEF Ordered
    <3> HIDE DEF m
    <3> QED BY <1>1, <2>1, <2>2, <3>1, <3>2, <3>3 DEF Ordered
  <2>5. CASE HandleHeartbeat
    <3>1. /\ \/ /\ lastCurrentIndex' = lastCurrentIndex
                /\ cachedLastCurrentIndex' = cachedLastCurrentIndex
             \/ /\ lastCurrentIndex' = cachedLastCurrentIndex
                /\ cachedLastCurrentIndex' = -1
                /\ m.inMission
          /\ m.id = "HEARTBEAT"
      BY <2>5 DEF HandleHeartbeat
    <3>2. m.inMission => cachedLastCurrentIndex # LandStart
      BY <1>2, <2>1, <3>1 DEF Ordered, IsInMission
    <3>3. lastCurrentIndex' # LandStart
      BY <2>1, <3>1, <3>2 DEF Ordered
    <3>4. cachedLastCurrentIndex' = LandStart => cachedLastCurrentIndex = LandStart
      BY <3>1, IndexAssumption
    <3> HIDE DEF m
    <3> QED BY <1>1, <2>1, <2>2, <3>3, <3>4 DEF Ordered
  <2> QED BY <2>3, <2>4, <2>5
<1> QED BY <1>1, <1>2, <1>3 DEF IInv

\* The landing sequence a return to launch jumps to never becomes the item the
\* mission would be resumed at, until the vehicle goes back to mission flight
\* mode (MissionManager::_updateMissionIndex and its cache).
THEOREM LandingIsNotResumedHolds == MissionSpec => []LandingIsNotResumed
<1>1. IInv /\ [MissionNext]_missionVars => IInv'
  <2>1. IInv /\ UNCHANGED missionVars => IInv'
    BY DEF missionVars, indexVars, vehicleVars, IInv, Ordered
  <2> QED BY <2>1, PlanStepKeeps, VehicleKeeps, ReportKeeps, ReceiptKeeps
          DEF MissionNext
<1>2. IInv => LandingIsNotResumed
  BY DEF IInv, Ordered, LandingIsNotResumed
<1> QED BY <1>1, <1>2, Initially, PTL DEF MissionSpec
=============================================================================
