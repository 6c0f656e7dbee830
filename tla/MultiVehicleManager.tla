------------------------- MODULE MultiVehicleManager -------------------------
(***************************************************************************)
(* MultiVehicleManager (src/src/Vehicle/MultiVehicleManager.cc) over the   *)
(* link managers of its vehicles: which vehicles there are, which one is   *)
(* active, and how a vehicle comes and goes.                               *)
(*                                                                         *)
(* An element of Vehicles is a vehicle object; several may stand for the   *)
(* same vehicle one after the other (id).  Both the activation and the     *)
(* deletion of a vehicle have a second phase 20 ms after the first, so     *)
(* these timers fire in the order in which they were started.              *)
(*                                                                         *)
(* Signals are slots called at once.  The slots of the fly view            *)
(* (CustomFlyView.qml, DroneList.qml) that call back are part of the step: *)
(* it keeps the active vehicle equal to the one selected in its list.      *)
(***************************************************************************)
EXTENDS VehicleLinkManager

CONSTANTS
  Ids,         \* MAVLink system ids
  NoVehicle,   \* nullptr
  CloseOnLoss, \* the fly view's list closes a vehicle that is lost
  MaxTimers    \* bound: timers pending when the user acts

ASSUME VehicleAssumption ==
  /\ NoVehicle \notin Vehicles
  /\ CloseOnLoss \in BOOLEAN
  /\ MaxTimers \in Nat

VARIABLES
  phase,                           \* the life of each object
  id,                              \* the id of each object there has been
  vehicles,                        \* _vehicles
  selectedVehicles,                \* _selectedVehicles
  activeVehicle,                   \* _activeVehicle
  activeVehicleAvailable,          \* _activeVehicleAvailable
  parameterReadyVehicleAvailable,  \* _parameterReadyVehicleAvailable
  parametersReady,                 \* vehicles whose parameters are ready
  timers,                          \* second phases due, in order
  selection,                       \* the vehicle selected in the fly view
  leaked      \* history: links listed by an object when it was destroyed

linkVars   == <<manager, open, closing, references, removed, leaked>>
activeVars == <<activeVehicle, activeVehicleAvailable,
                parameterReadyVehicleAvailable, timers>>
listVars   == <<phase, id, vehicles, selectedVehicles, parametersReady,
                selection>>
allVars    == <<linkVars, activeVars, listVars>>

Phases == {"unborn", "listed", "removed", "doomed", "dead"}
Exists(v) == phase[v] \in {"listed", "removed", "doomed"}

\* The objects that receive messages of a vehicle.
Hearers(i) == {v \in Vehicles : Exists(v) /\ id[v] = i}

Activation(v) == [phase2 |-> "activate", vehicle |-> v]
Deletion(v)   == [phase2 |-> "delete", vehicle |-> v]

-----------------------------------------------------------------------------
(* The part of the state that activation changes, as a record that the     *)
(* calls of one step hand on.                                              *)

Current == [active |-> activeVehicle,
            available |-> activeVehicleAvailable,
            ready |-> parameterReadyVehicleAvailable,
            timers |-> timers]

Becomes(s) ==
  /\ activeVehicle' = s.active
  /\ activeVehicleAvailable' = s.available
  /\ parameterReadyVehicleAvailable' = s.ready
  /\ timers' = s.timers

\* setActiveVehicle.
SetActiveVehicle(s, v) ==
  IF v = s.active THEN s
  ELSE [s EXCEPT !.available = @ /\ s.active = NoVehicle,
                 !.ready = @ /\ s.active = NoVehicle,
                 !.timers = Append(@, Activation(v))]

\* Mutant: the fly view does not go back to its selection.
ChangeActive_Unwatched(s, v) == [s EXCEPT !.active = v]

\* _setActiveVehicle: activeVehicleChanged, on which the fly view goes back to
\* its selection.
ChangeActive(s, v) ==
  IF v = s.active THEN s
  ELSE SetActiveVehicle([s EXCEPT !.active = v], selection)

\* The end of both second phases.
MakeAvailable(s) ==
  IF s.active = NoVehicle THEN s
  ELSE [s EXCEPT !.available = TRUE, !.ready = @ \/ s.active \in parametersReady]

-----------------------------------------------------------------------------
(* Coming and going.                                                       *)

\* The second phases that the removal of vehicles one after the other starts:
\* a deletion each, and for the one selected in the fly view, which then gives
\* up its selection, an activation of none before.
StartedBy(order) ==
  LET deletions == [i \in DOMAIN order |-> Deletion(order[i])]
  IN  IF selection \in Range(order) /\ activeVehicle # NoVehicle
      THEN InsertAt(deletions, CHOOSE i \in DOMAIN order : order[i] = selection,
                    Activation(NoVehicle))
      ELSE deletions

InOrderOf(list, sublist) ==
  \A i, j \in DOMAIN sublist : \A k, l \in DOMAIN list :
    i < j /\ sublist[i] = list[k] /\ sublist[j] = list[l] => k < l

\* Vehicles of the list are removed, in any order; the others stay in theirs.
RemoveVehicles(gone) ==
  /\ \E rest \in SetToSeqs(Range(vehicles) \ gone) :
       InOrderOf(vehicles, rest) /\ vehicles' = rest
  /\ phase' = [v \in Vehicles |-> IF v \in gone THEN "removed" ELSE phase[v]]
  /\ selectedVehicles' = selectedVehicles \ gone
  /\ selection' = IF selection \in gone THEN NoVehicle ELSE selection
  /\ activeVehicleAvailable' = (activeVehicleAvailable /\ gone = {})
  /\ parameterReadyVehicleAvailable' =
       (parameterReadyVehicleAvailable /\ gone = {})
  /\ \E order \in SetToSeqs(gone) : timers' = timers \o StartedBy(order)
  /\ UNCHANGED activeVehicle

\* Mutant: the vehicle is not searched for in the list.
DeletePhase1_Unsearched(signalled) == RemoveVehicles(signalled)

\* _deleteVehiclePhase1, on allLinksRemoved of the vehicles `signalled'; one
\* that has been removed before is not found.  A link of several vehicles
\* removes them in any order.
DeletePhase1(signalled) == RemoveVehicles(signalled \cap Range(vehicles))

\* _vehicleHeartbeatInfo: a heartbeat of an unknown id makes a vehicle object,
\* which is to be the active one if it is alone.  On vehicleAdded the fly view
\* selects it if its port was selected before.
HeartbeatOfUnknown(v, i, link) ==
  /\ phase[v] = "unborn"
  /\ \A other \in Range(vehicles) : id[other] # i
  /\ MessageReceived({v} \cup Hearers(i), link)
  /\ UNCHANGED leaked
  /\ id' = [u \in DOMAIN id \cup {v} |-> IF u = v THEN i ELSE id[u]]
  /\ phase' = [phase EXCEPT ![v] = "listed"]
  /\ vehicles' = Append(vehicles, v)
  /\ selection' \in {selection} \cup (IF selection = NoVehicle THEN {v} ELSE {})
  /\ LET added == IF selection' # selection THEN SetActiveVehicle(Current, v)
                  ELSE Current
     IN  Becomes(IF vehicles = <<>> THEN SetActiveVehicle(added, v) ELSE added)
  /\ UNCHANGED <<selectedVehicles, parametersReady>>

\* A message of a known vehicle, heard by every object with its id that has
\* not been destroyed.
MessageOfVehicle(v, link) ==
  /\ Exists(v)
  /\ MessageReceived(Hearers(id[v]), link)
  /\ UNCHANGED <<leaked, activeVars, listVars>>

\* Mutant: the vehicle that is deleted stays active.
DeletePhase2_KeepsActive(v) ==
  /\ phase' = [phase EXCEPT ![v] = "doomed"]
  /\ Becomes(MakeAvailable([Current EXCEPT !.timers = Tail(@)]))

\* _deleteVehiclePhase2, up to deleteLater.
DeletePhase2(v) ==
  LET first == IF vehicles = <<>> THEN NoVehicle ELSE Head(vehicles)
  IN  /\ phase' = [phase EXCEPT ![v] = "doomed"]
      /\ Becomes(MakeAvailable(
           ChangeActive([Current EXCEPT !.timers = Tail(@)], first)))

\* A timer fires.
SecondPhase ==
  /\ timers # <<>>
  /\ LET v == Head(timers).vehicle
     IN  \/ /\ Head(timers).phase2 = "activate"
            /\ Becomes(MakeAvailable(
                 ChangeActive([Current EXCEPT !.timers = Tail(@)], v)))
            /\ UNCHANGED phase
         \/ /\ Head(timers).phase2 = "delete"
            /\ DeletePhase2(v)
  /\ UNCHANGED <<linkVars, id, vehicles, selectedVehicles, parametersReady, selection>>

\* The deferred deletion of the object.  References of links it has listed
\* since its removal, on hearing a message, are not given back.
Destroy(v) ==
  /\ phase[v] = "doomed"
  /\ phase' = [phase EXCEPT ![v] = "dead"]
  /\ manager' = [manager EXCEPT ![v] = NewManager]
  /\ removed' = {}
  /\ leaked' = leaked \cup Listed(manager[v])
  /\ UNCHANGED <<open, closing, references, id, vehicles, selectedVehicles,
                 parametersReady, selection, activeVars>>

-----------------------------------------------------------------------------
(* The link managers' events, with the slots of this manager.  Automatic   *)
(* disconnection, which ends like CloseOnLoss, is left to their own module.*)

WithSlots(event) ==
  /\ event
  /\ leaked' = leaked \cap open'
  /\ DeletePhase1(removed')
  /\ UNCHANGED <<id, parametersReady>>

LinkEvent(v) ==
  \/ WithSlots(CommLostCheck(v, CloseOnLoss /\ phase[v] = "listed"))
  \/ WithSlots(CloseVehicle(v))
  \/ \E link \in Links : WithSlots(HeartbeatElapsed(v, link))

-----------------------------------------------------------------------------
(* The user.                                                               *)

\* A vehicle is chosen as the active one in the tool bar.
ChooseActive(v) ==
  /\ v \in Range(vehicles)
  /\ Len(timers) < MaxTimers
  /\ Becomes(SetActiveVehicle(Current, v))
  /\ UNCHANGED <<linkVars, listVars>>

\* A vehicle is selected in the fly view's list, or none.
SelectInFlyView(v) ==
  /\ v \in Range(vehicles) \cup {NoVehicle}
  /\ v # selection
  /\ Len(timers) < MaxTimers
  /\ selection' = v
  /\ Becomes(SetActiveVehicle(Current, v))
  /\ UNCHANGED <<linkVars, phase, id, vehicles, selectedVehicles, parametersReady>>

\* selectVehicle and deselectVehicle, for group commands.
ToggleSelected(v) ==
  /\ v \in Range(vehicles)
  /\ selectedVehicles' = IF v \in selectedVehicles THEN selectedVehicles \ {v}
                         ELSE selectedVehicles \cup {v}
  /\ UNCHANGED <<linkVars, phase, id, vehicles, parametersReady, selection,
                 activeVars>>

\* _vehicleParametersReadyChanged; parameters never stop being ready.
ParametersReadyChanged(v) ==
  /\ Exists(v) /\ v \notin parametersReady
  /\ parametersReady' = parametersReady \cup {v}
  /\ parameterReadyVehicleAvailable' =
       (parameterReadyVehicleAvailable \/ v = activeVehicle)
  /\ UNCHANGED <<linkVars, phase, id, vehicles, selectedVehicles, selection,
                 activeVehicle, activeVehicleAvailable, timers>>

-----------------------------------------------------------------------------

LifeInit ==
  /\ Init
  /\ phase = [v \in Vehicles |-> "unborn"]
  /\ id = <<>>
  /\ vehicles = <<>>
  /\ selectedVehicles = {}
  /\ activeVehicle = NoVehicle
  /\ activeVehicleAvailable = FALSE
  /\ parameterReadyVehicleAvailable = FALSE
  /\ parametersReady = {}
  /\ timers = <<>>
  /\ selection = NoVehicle
  /\ leaked = {}

LifeNext ==
  \/ \E v \in Vehicles :
       \/ \E link \in Links :
            \/ \E i \in Ids : HeartbeatOfUnknown(v, i, link)
            \/ MessageOfVehicle(v, link)
       \/ Exists(v) /\ LinkEvent(v)
       \/ Destroy(v)
       \/ ChooseActive(v)
       \/ SelectInFlyView(v)
       \/ ToggleSelected(v)
       \/ ParametersReadyChanged(v)
  \/ SelectInFlyView(NoVehicle)
  \/ \E link \in Links :
       \/ WithSlots(LinkDisconnected(link))
       \/ WithSlots(CreateConnectedLink(link))
  \/ SecondPhase

LifeSpec == LifeInit /\ [][LifeNext]_allVars

-----------------------------------------------------------------------------
(* Properties.                                                             *)

\* The variables of the manager keep their types (MultiVehicleManager.h:82-90).
LifeTypeOK ==
  /\ TypeOK
  /\ phase \in [Vehicles -> Phases]
  /\ id \in [{v \in Vehicles : phase[v] # "unborn"} -> Ids]
  /\ vehicles \in Seq(Vehicles)
  /\ selectedVehicles \subseteq Vehicles
  /\ activeVehicle \in Vehicles \cup {NoVehicle}
  /\ activeVehicleAvailable \in BOOLEAN
  /\ parameterReadyVehicleAvailable \in BOOLEAN
  /\ parametersReady \subseteq Vehicles
  /\ timers \in Seq([phase2 : {"activate", "delete"},
                     vehicle : Vehicles \cup {NoVehicle}])
  /\ selection \in Vehicles \cup {NoVehicle}
  /\ leaked \subseteq open

\* What is listed, selected, in the fly view or about to be deleted has its
\* type and agrees: a vehicle has one listed object, and a removed one is
\* deleted exactly once however often allLinksRemoved is signalled
\* (_deleteVehiclePhase1's search).
RemovedOnce ==
  /\ LifeTypeOK
  /\ \A v \in Vehicles :
       /\ phase[v] = "listed" <=> v \in Range(vehicles)
       /\ Cardinality({i \in DOMAIN timers : timers[i] = Deletion(v)})
            = IF phase[v] = "removed" THEN 1 ELSE 0
  /\ \A i, j \in DOMAIN vehicles : id[vehicles[i]] = id[vehicles[j]] => i = j
  /\ selectedVehicles \subseteq Range(vehicles)
  /\ selection \in Range(vehicles) \cup {NoVehicle}

\* The active vehicle is never one that has been destroyed, nor does a pending
\* activation hold one: both phases are equally far apart, and what is deleted
\* stops being active before it is destroyed (_deleteVehiclePhase2,
\* setActiveVehicle).
ActiveVehicleExists ==
  /\ activeVehicle # NoVehicle => phase[activeVehicle] \in {"listed", "removed"}
  /\ \A i \in DOMAIN timers :
       timers[i].vehicle # NoVehicle => phase[timers[i].vehicle] \in {"listed", "removed"}

\* Once every timer has fired, the active vehicle is the one selected in the
\* fly view, and it is announced as available (CustomFlyView.qml:52-71).
SettlesOnSelection ==
  timers = <<>> =>
    /\ activeVehicle = selection
    /\ activeVehicle # NoVehicle => activeVehicleAvailable

\* A link that several vehicles share is disconnected with the last object that
\* lists it, and not before, also while removed objects still hear messages -
\* unless one was destroyed that had listed the link anew after its removal: its
\* reference is never given back and the link stays open (_addLink,
\* closeVehicle, removeVehicleReference).
LinkGoesWithLastVehicle ==
  [][\A link \in open \cap open' :
       /\ On(link) # {} /\ On(link)' = {} => link \in closing' \cup leaked'
       /\ link \in closing' \ closing => On(link)' = {}]_allVars

=============================================================================
