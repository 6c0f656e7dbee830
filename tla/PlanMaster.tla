----------------------------- MODULE PlanMaster -----------------------------
(***************************************************************************)
(* The plan view's PlanMasterController with its MissionController,        *)
(* GeoFenceController and RallyPointController, over the three plan        *)
(* managers of each vehicle, and the part of InitialConnectStateMachine    *)
(* that loads the plan of a vehicle that has just connected.               *)
(*                                                                         *)
(* A transaction of a PlanManager is here what PlanTransaction promises of *)
(* it: it is refused while another one runs, and it ends, with success or  *)
(* with an error.  Signals are direct calls: a transaction's end is one    *)
(* step, in which the slots run in the order they were connected: those of *)
(* the vehicle, of the master controller and of the part's controller.     *)
(*                                                                         *)
(* A plan part is Empty, the one a vehicle had when it connected (named by *)
(* the vehicle), or the one an edit made (a number).  Files, a fence's     *)
(* breach return point and links without download or upload are left out.  *)
(***************************************************************************)
EXTENDS Naturals, FiniteSets

CONSTANTS Vehicles,      \* the vehicles
          Offline,       \* the offline editing vehicle
          Empty,         \* a plan part without items
          Resumed,       \* what is left of a mission the fly view resumes
          Capable,       \* the vehicles that support fences and rally points
          UsbDirect,     \* the vehicles whose parameters are not read when they connect
          MaxEdits,      \* bounds the edits
          MaxEvents      \* bounds what the user, the vehicles and the links do: edits, calls,
                         \* connections, changes of the active vehicle, failures

ASSUME PlanMasterAssumption ==
    /\ Offline \notin Vehicles
    /\ {Empty, Resumed} \cap Vehicles = {}
    /\ Capable \subseteq Vehicles
    /\ UsbDirect \subseteq Vehicles
    /\ MaxEdits \in Nat /\ MaxEvents \in Nat

VARIABLES
    gcs,         \* the controllers, managers and state machines: see Systems
    connected,   \* the vehicles there are
    onVehicle,   \* the plan each vehicle holds
    session,     \* history: what the user last asked for, and whether it went undisturbed
    edits, events

vars == <<gcs, connected, onVehicle, session, edits, events>>

Parts == {"mission", "fence", "rally"}
Plans == {Empty, Resumed} \cup Vehicles \cup 1..MaxEdits
Chains == {"loadGeoFence", "loadRallyPoints", "sendGeoFence", "sendRallyPoints"}

\* The steps of InitialConnectStateMachine; those before the parameters' are one.
Earlier == 0
Parameters == 1
Mission == 2
GeoFence == 3
RallyPoints == 4
Complete == 5

\* A fence is dirty at 1, and at 2 when a shape of it is: SetDirty shows the difference.
Views == [items : Plans, requested : BOOLEAN, dirty : 0..2]
Managers == [transaction : {"None", "Read", "Write", "RemoveAll"}, items : Plans, sending : Plans]
Connections == [step : Earlier..Complete, planComplete : BOOLEAN,
                first : SUBSET (Parts \cup {"earlier", "parameters"})]
Systems == [vehicle : Vehicles \cup {Offline}, chain : SUBSET Chains, prompt : BOOLEAN,
            view : [Parts -> Views], manager : [Vehicles -> [Parts -> Managers]],
            initial : [Vehicles -> Connections]]

Supported(v, p) == p = "mission" \/ v \in Capable
Busy(g, v, p) == g.manager[v][p].transaction # "None"
SyncInProgress(g) == g.vehicle # Offline /\ \E p \in Parts : Busy(g, g.vehicle, p)
Dirty(g) == \E p \in Parts : g.view[p].dirty > 0
ContainsItems(g) == \E p \in Parts : g.view[p].items # Empty

-----------------------------------------------------------------------------
(* The plan managers. *)

LoadFromVehicle(g, v, p) ==
    IF Busy(g, v, p) THEN g ELSE [g EXCEPT !.manager[v][p].transaction = "Read"]

WriteItems(g, v, p, items) ==
    IF Busy(g, v, p)
      THEN g
      ELSE [g EXCEPT !.manager[v][p].transaction = "Write", !.manager[v][p].sending = items]

RemoveAllItems(g, v, p) ==
    IF Busy(g, v, p)
      THEN g
      ELSE [g EXCEPT !.manager[v][p].transaction = "RemoveAll", !.manager[v][p].items = Empty]

-----------------------------------------------------------------------------
(* The initial connection.  advance moves on by one step, whoever calls it. *)

RequestRallyPoints(g, v) ==
    IF Supported(v, "rally")
      THEN LoadFromVehicle([g EXCEPT !.initial[v].step = RallyPoints], v, "rally")
      ELSE [g EXCEPT !.initial[v].step = Complete, !.initial[v].planComplete = TRUE,
                     !.initial[v].first = @ \ {"rally"}]

RequestGeoFence(g, v) ==
    IF Supported(v, "fence")
      THEN LoadFromVehicle([g EXCEPT !.initial[v].step = GeoFence], v, "fence")
      ELSE RequestRallyPoints([g EXCEPT !.initial[v].first = @ \ {"fence"}], v)

RequestMission(g, v) == LoadFromVehicle([g EXCEPT !.initial[v].step = Mission], v, "mission")

Advance(g, v) ==
    CASE g.initial[v].step = Earlier /\ v \notin UsbDirect ->
           [g EXCEPT !.initial[v].step = Parameters]
      [] g.initial[v].step = Earlier /\ v \in UsbDirect -> RequestMission(g, v)
      [] g.initial[v].step = Parameters -> RequestMission(g, v)
      [] g.initial[v].step = Mission -> RequestGeoFence(g, v)
      [] g.initial[v].step = GeoFence -> RequestRallyPoints(g, v)
      [] OTHER -> [g EXCEPT !.initial[v].step = Complete]

\* Mutant: later completions advance the machine as well.
FirstComplete_Repeated(g, v, p) ==
    Advance([g EXCEPT !.initial[v].planComplete = @ \/ p = "rally"], v)

\* Mutant: a completion before its step is not counted.
FirstComplete_InStep(g, v, p) ==
    LET step == CASE p = "earlier" -> Earlier [] p = "parameters" -> Parameters
                  [] p = "mission" -> Mission [] p = "fence" -> GeoFence [] p = "rally" -> RallyPoints
        heard == [g EXCEPT !.initial[v].first = @ \ {p}, !.initial[v].planComplete = @ \/ p = "rally"]
    IN  CASE p \notin g.initial[v].first -> g
          [] p \in g.initial[v].first /\ g.initial[v].step # step -> heard
          [] OTHER -> Advance(heard, v)

\* The first completion of each step's work, whoever asked for it, advances the machine.
FirstComplete(g, v, p) ==
    IF p \in g.initial[v].first
      THEN Advance([g EXCEPT !.initial[v].first = @ \ {p},
                             !.initial[v].planComplete = @ \/ p = "rally"], v)
      ELSE g

-----------------------------------------------------------------------------
(* The controllers. *)

\* A fence whose shapes are dirty hears of each that is cleaned, and is dirty again.
SetDirty(g, dirty) ==
    [g EXCEPT !.view = [p \in Parts |->
        [g.view[p] EXCEPT !.dirty = IF dirty THEN IF @ = 0 THEN 1 ELSE @
                                    ELSE IF p = "fence" /\ @ = 2 THEN 1 ELSE 0]]]

SetPartClean(g, p) ==
    [g EXCEPT !.view[p].dirty = IF p = "fence" /\ @ = 2 THEN 1 ELSE 0]

\* newMissionItemsAvailable or loadComplete, heard by the part's controller.
ShowLoaded(g, p) ==
    IF g.view[p].requested \/ g.view[p].items = Empty
      THEN [g EXCEPT !.view[p] = [items |-> g.manager[g.vehicle][p].items,
                                  requested |-> FALSE, dirty |-> 0]]
      ELSE g

RemovePart(g, p) == [g EXCEPT !.view[p].items = Empty]

LoadPart(g, p) ==
    IF g.vehicle = Offline \/ Busy(g, g.vehicle, p)
      THEN g
      ELSE LoadFromVehicle([g EXCEPT !.view[p].requested = TRUE], g.vehicle, p)

SendPart(g, p) ==
    IF g.vehicle = Offline \/ Busy(g, g.vehicle, p)
      THEN g
      ELSE SetPartClean(WriteItems(g, g.vehicle, p, g.view[p].items), p)

RemovePartFromVehicle(g, p) ==
    IF g.vehicle = Offline \/ Busy(g, g.vehicle, p)
      THEN g
      ELSE RemoveAllItems([g EXCEPT !.view[p].requested = @ \/ p = "mission"], g.vehicle, p)

\* The controller of the part waits for a load under way.
Waits(g, p) ==
    g.vehicle = Offline \/ ~g.initial[g.vehicle].planComplete \/ Busy(g, g.vehicle, p)

\* Mutant: what is shown for a vehicle is not asked for first.
ShowPart_NotAsked(g, p) == IF Waits(g, p) THEN g ELSE ShowLoaded(g, p)

\* The fence's controller asks for the items before it looks whether it must wait.
ShowPart(g, p) ==
    LET asked == IF p = "fence" /\ g.vehicle # Offline
                   THEN [g EXCEPT !.view[p].requested = TRUE] ELSE g
    IN  IF Waits(g, p) THEN asked ELSE ShowLoaded([g EXCEPT !.view[p].requested = TRUE], p)

\* _showPlanFromManagerVehicle: forces the initial plan request complete when nothing is
\* under way, and shows the parts up to the first whose controller waits.
ShowPlan(g) ==
    LET forced == IF g.vehicle # Offline /\ ~SyncInProgress(g)
                    THEN [g EXCEPT !.initial[g.vehicle].planComplete = TRUE] ELSE g
        mission == ShowPart(forced, "mission")
        fence == ShowPart(mission, "fence")
    IN  IF Waits(forced, "mission") THEN mission
        ELSE IF Waits(mission, "fence") THEN fence
        ELSE ShowPart(fence, "rally")

-----------------------------------------------------------------------------
(* The master controller: what sequences the three parts. *)

\* Mutant: the rally points are asked for and the flag stays.
LoadGeoFenceComplete_Kept(g) ==
    IF "loadRallyPoints" \in g.chain /\ Supported(g.vehicle, "rally")
      THEN SetDirty(LoadPart(g, "rally"), FALSE) ELSE g

LoadGeoFenceComplete(g) ==
    IF "loadRallyPoints" \notin g.chain
      THEN g
      ELSE LET asked == [g EXCEPT !.chain = @ \ {"loadRallyPoints"}]
           IN  SetDirty(IF Supported(g.vehicle, "rally") THEN LoadPart(asked, "rally")
                        ELSE RemovePart(asked, "rally"), FALSE)

LoadMissionComplete(g) ==
    IF "loadGeoFence" \notin g.chain
      THEN g
      ELSE LET asked == [g EXCEPT !.chain = (@ \ {"loadGeoFence"}) \cup {"loadRallyPoints"}]
           IN  SetDirty(IF Supported(g.vehicle, "fence") THEN LoadPart(asked, "fence")
                        ELSE LoadGeoFenceComplete(RemovePart(asked, "fence")), FALSE)

SendGeoFenceComplete(g) ==
    IF "sendRallyPoints" \notin g.chain
      THEN g
      ELSE LET asked == [g EXCEPT !.chain = @ \ {"sendRallyPoints"}]
           IN  IF Supported(g.vehicle, "rally") THEN SendPart(asked, "rally") ELSE asked

\* Mutant: the rally points are sent and the fence is not.
SendMissionComplete_NoFence(g) ==
    IF "sendGeoFence" \notin g.chain
      THEN g
      ELSE SetDirty(SendGeoFenceComplete(
             [g EXCEPT !.chain = (@ \ {"sendGeoFence"}) \cup {"sendRallyPoints"}]), FALSE)

SendMissionComplete(g) ==
    IF "sendGeoFence" \notin g.chain
      THEN g
      ELSE LET asked == [g EXCEPT !.chain = (@ \ {"sendGeoFence"}) \cup {"sendRallyPoints"}]
           IN  SetDirty(IF Supported(g.vehicle, "fence") THEN SendPart(asked, "fence")
                        ELSE SendGeoFenceComplete(asked), FALSE)

LoadComplete(g, p) ==
    CASE p = "mission" -> LoadMissionComplete(g)
      [] p = "fence" -> LoadGeoFenceComplete(g)
      [] p = "rally" -> g

SendComplete(g, p) ==
    CASE p = "mission" -> SendMissionComplete(g)
      [] p = "fence" -> SendGeoFenceComplete(g)
      [] p = "rally" -> g

\* removeAll of the controllers, offline, where nothing stays dirty.
RemoveAll(g) ==
    [g EXCEPT !.view = [p \in Parts |-> [@[p] EXCEPT !.items = Empty, !.dirty = 0]]]

\* showPlanFromManagerVehicle: with no vehicle to show the plan of, the plan is cleared.
ShowPlanOrClear(g) == IF g.vehicle = Offline THEN RemoveAll(g) ELSE ShowPlan(g)

ActiveVehicleBecomes(g, v) ==
    LET new == [g EXCEPT !.vehicle = v] IN
    CASE ContainsItems(g) /\ Dirty(g) -> [new EXCEPT !.prompt = TRUE]
      [] ContainsItems(g) /\ ~Dirty(g) /\ v = Offline -> RemoveAll(new)
      [] ~ContainsItems(g) /\ v = Offline -> new
      [] OTHER -> ShowPlan(new)

-----------------------------------------------------------------------------
(* Transactions end. *)

ReadEnds(g, v, p, items) ==
    LET read == FirstComplete([g EXCEPT !.manager[v][p].transaction = "None",
                                        !.manager[v][p].items = items], v, p)
    IN  IF g.vehicle = v THEN ShowLoaded(LoadComplete(read, p), p) ELSE read

\* A failed write forgets a fence or rally points, and keeps a mission.
WriteEnds(g, v, p, ok) ==
    LET written == [g EXCEPT !.manager[v][p].transaction = "None",
                             !.manager[v][p].items = IF ok THEN g.manager[v][p].sending
                                                     ELSE IF p = "mission" THEN @ ELSE Empty]
    IN  IF g.vehicle = v THEN SendComplete(written, p) ELSE written

RemoveAllEnds(g, v, p, ok) ==
    LET removed == [g EXCEPT !.manager[v][p].transaction = "None"]
    IN  IF g.vehicle = v /\ ok THEN ShowPart(removed, p) ELSE removed

-----------------------------------------------------------------------------
(* Actions. *)

NewManager == [transaction |-> "None", items |-> Empty, sending |-> Empty]
NewConnection ==
    [step |-> Earlier, first |-> Parts \cup {"earlier", "parameters"}, planComplete |-> FALSE]

Becomes(g) == gcs' = g
Asks(kind) ==
    session' = [kind |-> kind, intact |-> gcs.initial[gcs.vehicle].step = Complete]
Disturbs == session' = [session EXCEPT !.intact = FALSE]

Connect(v) ==
    /\ v \notin connected
    /\ events < MaxEvents
    /\ connected' = connected \cup {v}
    /\ Becomes([gcs EXCEPT !.manager[v] = [p \in Parts |-> NewManager],
                           !.initial[v] = NewConnection])
    /\ events' = events + 1
    /\ UNCHANGED <<onVehicle, session, edits>>

\* A vehicle is gone once it is no longer the active one.
Disconnect(v) ==
    /\ v \in connected \ {gcs.vehicle}
    /\ connected' = connected \ {v}
    /\ Becomes([gcs EXCEPT !.manager[v] = [p \in Parts |-> NewManager],
                           !.initial[v] = NewConnection])
    /\ UNCHANGED <<onVehicle, session, edits, events>>

ActiveVehicleChanged(v) ==
    /\ v \in (connected \cup {Offline}) \ {gcs.vehicle}
    /\ events < MaxEvents
    /\ Becomes(ActiveVehicleBecomes(gcs, v))
    /\ events' = events + 1
    /\ session' = [kind |-> "Change",
                   intact |-> /\ v # Offline
                              /\ ~Dirty(gcs)
                              /\ gcs.initial[v].step = Complete
                              /\ gcs.initial[v].planComplete
                              /\ \A p \in Parts : ~Busy(gcs, v, p)]
    /\ UNCHANGED <<connected, onVehicle, edits>>

EarlierStepsDone(v) ==
    /\ v \in connected
    /\ "earlier" \in gcs.initial[v].first
    /\ Becomes(FirstComplete(gcs, v, "earlier"))
    /\ UNCHANGED <<connected, onVehicle, session, edits, events>>

\* The parameters of a directly connected vehicle are read when the user asks for them.
ParametersReady(v) ==
    /\ v \in connected
    /\ "parameters" \in gcs.initial[v].first
    /\ v \in UsbDirect \/ gcs.initial[v].step > Earlier
    /\ Becomes(FirstComplete(gcs, v, "parameters"))
    /\ UNCHANGED <<connected, onVehicle, session, edits, events>>

\* A shape added to a fence that has some, and a rally point moved or removed, leave the
\* part as dirty as it was.
Dirtied(p) ==
    LET unmarked == IF p = "mission" \/ gcs.view[p].items = Empty THEN 1 ELSE gcs.view[p].dirty
    IN  unmarked..IF p = "fence" THEN 2 ELSE 1

Edit(p) ==
    /\ ~gcs.prompt
    /\ edits < MaxEdits
    /\ events < MaxEvents
    /\ edits' = edits + 1
    /\ events' = events + 1
    /\ \E dirty \in Dirtied(p) :
          Becomes([gcs EXCEPT !.view[p].items = edits', !.view[p].dirty = dirty])
    /\ Disturbs
    /\ UNCHANGED <<connected, onVehicle>>

\* Saving to a file, which cleans the plan only offline.
SavePlan ==
    /\ ~gcs.prompt
    /\ gcs.vehicle = Offline
    /\ Dirty(gcs)
    /\ Becomes(SetDirty(gcs, FALSE))
    /\ UNCHANGED <<connected, onVehicle, session, edits, events>>

Called ==
    /\ ~gcs.prompt
    /\ gcs.vehicle # Offline
    /\ events < MaxEvents
    /\ events' = events + 1
    /\ UNCHANGED <<connected, onVehicle, edits>>

LoadPlan ==
    /\ Called
    /\ ~SyncInProgress(gcs)
    /\ Becomes(SetDirty(LoadPart([gcs EXCEPT !.chain = @ \cup {"loadGeoFence"}], "mission"), FALSE))
    /\ Asks("Load")

SendPlan ==
    /\ Called
    /\ ~SyncInProgress(gcs)
    /\ Becomes(SetDirty(SendPart([gcs EXCEPT !.chain = @ \cup {"sendGeoFence"}], "mission"), FALSE))
    /\ Asks("Send")

RemovePlan ==
    /\ Called
    /\ LET Removed(g, p) == IF Supported(g.vehicle, p) THEN RemovePartFromVehicle(g, p) ELSE g
       IN  Becomes(SetDirty(Removed(Removed(Removed(gcs, "mission"), "fence"), "rally"), FALSE))
    /\ Disturbs

\* The popup's buttons.
Discard ==
    /\ gcs.prompt
    /\ Becomes(ShowPlanOrClear([gcs EXCEPT !.prompt = FALSE]))
    /\ session' = [kind |-> "None", intact |-> FALSE]
    /\ UNCHANGED <<connected, onVehicle, edits, events>>

Keep ==
    /\ gcs.prompt
    /\ LET closed == [gcs EXCEPT !.prompt = FALSE]
       IN  Becomes(IF gcs.vehicle = Offline THEN closed ELSE SetDirty(closed, TRUE))
    /\ UNCHANGED <<connected, onVehicle, session, edits, events>>

\* The fly view's controllers use the same managers: they write what is left of a mission
\* that is resumed, and remove a finished one.
FlyViewResumes ==
    /\ Called
    /\ Becomes(WriteItems(gcs, gcs.vehicle, "mission", Resumed))
    /\ Disturbs

FlyViewRemovesAll ==
    /\ Called
    /\ LET Removed(g, p) == IF Supported(g.vehicle, p) THEN RemoveAllItems(g, g.vehicle, p) ELSE g
       IN  Becomes(Removed(Removed(Removed(gcs, "mission"), "fence"), "rally"))
    /\ Disturbs

\* A transaction that fails may have done its work on the vehicle, the answer being lost.
TransactionEnds(v, p, ok) ==
    LET m == gcs.manager[v][p]
        done == CASE m.transaction = "Write" -> m.sending
                  [] m.transaction = "RemoveAll" -> Empty
                  [] OTHER -> onVehicle[v][p]
    IN  /\ Busy(gcs, v, p)
        /\ ok \/ events < MaxEvents
        /\ events' = events + IF ok THEN 0 ELSE 1
        /\ \E held \in IF ok THEN {done} ELSE {done, onVehicle[v][p]} :
              onVehicle' = [onVehicle EXCEPT ![v][p] = held]
        /\ Becomes(CASE m.transaction = "Read" ->
                          ReadEnds(gcs, v, p, IF ok THEN onVehicle[v][p] ELSE Empty)
                     [] m.transaction = "Write" -> WriteEnds(gcs, v, p, ok)
                     [] m.transaction = "RemoveAll" -> RemoveAllEnds(gcs, v, p, ok))
        /\ IF ok \/ v # gcs.vehicle THEN UNCHANGED session ELSE Disturbs
        /\ UNCHANGED <<connected, edits>>

Init ==
    /\ gcs = [vehicle |-> Offline, chain |-> {}, prompt |-> FALSE,
              view |-> [p \in Parts |-> [items |-> Empty, requested |-> FALSE, dirty |-> 0]],
              manager |-> [v \in Vehicles |-> [p \in Parts |-> NewManager]],
              initial |-> [v \in Vehicles |-> NewConnection]]
    /\ connected = {}
    /\ onVehicle = [v \in Vehicles |-> [p \in Parts |-> IF Supported(v, p) THEN v ELSE Empty]]
    /\ session = [kind |-> "None", intact |-> FALSE]
    /\ edits = 0 /\ events = 0

Next ==
    \/ \E v \in Vehicles : Connect(v) \/ Disconnect(v)
    \/ \E v \in Vehicles : EarlierStepsDone(v) \/ ParametersReady(v)
    \/ \E v \in Vehicles \cup {Offline} : ActiveVehicleChanged(v)
    \/ \E p \in Parts : Edit(p)
    \/ SavePlan \/ LoadPlan \/ SendPlan \/ RemovePlan \/ Discard \/ Keep
    \/ FlyViewResumes \/ FlyViewRemovesAll
    \/ \E v \in Vehicles, p \in Parts, ok \in BOOLEAN : TransactionEnds(v, p, ok)

\* A PlanManager's transaction ends (PlanTransfer), what the earlier steps ask for is answered
\* or given up, and so are the parameters that the state machine asks for.  Weak fairness is
\* written out, with what enables the action, to spare TLC the evaluation of ENABLED.
Fairness ==
    \A v \in Vehicles :
        /\ \A p \in Parts : []<>~Busy(gcs, v, p) \/ []<><<TransactionEnds(v, p, TRUE)>>_vars
        /\ []<>(v \notin connected \/ "earlier" \notin gcs.initial[v].first)
              \/ []<><<EarlierStepsDone(v)>>_vars
        /\ []<>(\/ v \notin connected \/ "parameters" \notin gcs.initial[v].first
               \/ v \in UsbDirect \/ gcs.initial[v].step = Earlier)
              \/ []<><<ParametersReady(v)>>_vars

Spec == Init /\ [][Next]_vars /\ Fairness

-----------------------------------------------------------------------------
(* Properties. *)

\* The type of the state; the machine's step never passes Complete
\* (StateMachine::advance counts further calls, InitialConnectStateMachine has six steps).
TypeOK ==
    /\ gcs \in Systems
    /\ connected \subseteq Vehicles
    /\ onVehicle \in [Vehicles -> [Parts -> Plans]]
    /\ session \in [kind : {"None", "Load", "Send", "Change"}, intact : BOOLEAN]
    /\ edits \in 0..MaxEdits /\ events \in 0..MaxEvents

\* What the user asked for last went undisturbed, and no transaction is under way.
Settled(kind) == session = [kind |-> kind, intact |-> TRUE] /\ ~SyncInProgress(gcs)

\* PlanMasterController::loadFromVehicle chains the three loads through flags that the slots
\* of completed loads consume.  Once it has settled, every part shown is the vehicle's and clean.
LoadIsWhole ==
    Settled("Load") =>
        \A p \in Parts : /\ gcs.view[p].dirty = 0
                         /\ gcs.view[p].items = onVehicle[gcs.vehicle][p]

\* PlanMasterController::sendToVehicle chains the three uploads.  Once it has settled, the
\* vehicle holds every part it supports, and no part is marked as unsent.
SendIsWhole ==
    Settled("Send") =>
        \A p \in Parts : /\ gcs.view[p].dirty = 0
                         /\ Supported(gcs.vehicle, p) => onVehicle[gcs.vehicle][p] = gcs.view[p].items

\* The state has its type, and what has been asked for is there as a whole.
WholePlans == TypeOK /\ LoadIsWhole /\ SendIsWhole

\* The initial connection is over only when each of its requests has been answered once: loads
\* asked for by the user, which end in the same slots, do not end it early.  The parameters of
\* a directly connected vehicle, which it does not ask for, may be missing.
CompleteMeansAnswered ==
    \A v \in connected :
        gcs.initial[v].step = Complete =>
            Cardinality(gcs.initial[v].first) <= IF v \in UsbDirect THEN 1 ELSE 0

OnlyReads(v) == \A p \in Parts : gcs.manager[v][p].transaction \in {"None", "Read"}

\* A vehicle that stays connected ends its initial connection, whatever is loaded from it in
\* the meantime.  (A write or a removal under way would have its load refused, and not retried.)
InitialPlanIsLoaded ==
    \A v \in Vehicles :
        []OnlyReads(v) /\ <>[](v \in connected) => <>(gcs.initial[v].step = Complete)

ChainOf(kind) == IF kind = "Load" THEN {"loadGeoFence", "loadRallyPoints"}
                 ELSE {"sendGeoFence", "sendRallyPoints"}

\* A load or an upload of the whole plan comes to its end, and leaves no flag behind that the
\* next completion, of something else, would take for its own.
AskedIsDone ==
    \A kind \in {"Load", "Send"} :
        session = [kind |-> kind, intact |-> TRUE]
            ~> \/ session # [kind |-> kind, intact |-> TRUE]
               \/ ~SyncInProgress(gcs) /\ gcs.chain \cap ChainOf(kind) = {}

\* "We are transitioning from one active vehicle to another. Show the plan from the new
\* vehicle." (PlanMasterController.cc:176): a vehicle that becomes the active one while the plan
\* shown is clean, with its initial connection over, its own plan loaded and its managers idle,
\* has its plan shown.
NewVehiclesPlanIsShown ==
    Settled("Change") =>
        \A p \in Parts : gcs.view[p].items = gcs.manager[gcs.vehicle][p].items

=============================================================================
