--------------------------- MODULE PlanMasterProofs ---------------------------
(***************************************************************************)
(* Proofs about PlanMaster, for any vehicles, any of them capable or        *)
(* directly connected, and any bounds on edits and events: whole plans are  *)
(* loaded and sent, the initial connection is over only when it has been    *)
(* answered, and a new vehicle's own plan is shown.                         *)
(*                                                                         *)
(* None of the three is inductive.  A plan is whole when it has settled     *)
(* because, until then, exactly one part is under way, the flag that chains *)
(* the next one is still there, and the parts before it are done: Loading   *)
(* and Sending below are these phases.  They hold for the active vehicle    *)
(* only while its own initial connection, which reads with the same         *)
(* managers and ends in the same slots, is over.  That in turn rests on the *)
(* flags that tell a first completion from a later one: Answered counts     *)
(* those that are left against the step the connection is at.               *)
(***************************************************************************)
EXTENDS PlanMaster, FiniteSetTheorems, TLAPS

\* Only what a vehicle supports is read from it or written to it.
Sound(g) == \A v \in Vehicles, p \in Parts : Busy(g, v, p) => Supported(v, p)

\* The first completions that connection c of vehicle v still awaits are those of its steps
\* from the present one on.  A vehicle that is not capable awaits fence and rally points until
\* the mission has been read, and forgets them with their steps; a directly connected one
\* awaits parameters that no step asks for, which may come at any time.
Answered(v, c) ==
    /\ v \notin Capable => 
         c.step = Complete \/ (c.step <= Mission /\ {"fence", "rally"} \subseteq c.first)
    /\ v \notin UsbDirect => Cardinality(c.first) = Complete - c.step
    /\ v \in UsbDirect =>
         \/ c.step = Earlier /\ Cardinality(c.first) = 5
         \/ c.step \in Mission..RallyPoints /\ Cardinality(c.first) = Complete + 1 - c.step
         \/ c.step = Complete /\ Cardinality(c.first) <= 1

\* What holds of the system whatever the session.
Good(g) == g \in Systems /\ Sound(g) /\ \A v \in Vehicles : Answered(v, g.initial[v])

\* The active vehicle's manager of a part has nothing under way, or a part's has and no other.
Idle(g, p) == g.manager[g.vehicle][p].transaction = "None"
Only(g, p, transaction) ==
    /\ g.manager[g.vehicle][p].transaction = transaction
    /\ \A q \in Parts \ {p} : Idle(g, q)

\* A part is shown as the vehicle holds it; and where a load of the whole plan has got to: one
\* part is read with the view waiting for it and the next one chained, the parts before it are
\* loaded, or all are.
Loaded(g, held, p) == g.view[p].items = held[g.vehicle][p] /\ g.view[p].dirty = 0
Loading(g, held) ==
    \/ /\ Only(g, "mission", "Read") /\ g.view["mission"].requested /\ "loadGeoFence" \in g.chain
    \/ /\ Only(g, "fence", "Read") /\ g.view["fence"].requested /\ "loadRallyPoints" \in g.chain
       /\ Loaded(g, held, "mission")
    \/ /\ Only(g, "rally", "Read") /\ g.view["rally"].requested
       /\ Loaded(g, held, "mission") /\ Loaded(g, held, "fence")
    \/ \A p \in Parts : Idle(g, p) /\ Loaded(g, held, p)

\* The vehicle holds a part as it is shown, if it supports it; and where sending the whole plan
\* has got to, likewise.  The fence may have been marked again by the load of the mission.
Sent(g, held, p) ==
    /\ g.view[p].dirty = 0
    /\ Supported(g.vehicle, p) => held[g.vehicle][p] = g.view[p].items
Writing(g, p) ==
    /\ Only(g, p, "Write")
    /\ g.manager[g.vehicle][p].sending = g.view[p].items
    /\ g.view[p].dirty = 0
Sending(g, held) ==
    \/ /\ Writing(g, "mission") /\ "sendGeoFence" \in g.chain /\ g.view["fence"].dirty < 2
    \/ /\ Writing(g, "fence") /\ "sendRallyPoints" \in g.chain
       /\ Sent(g, held, "mission") /\ g.view["rally"].dirty = 0
    \/ /\ Writing(g, "rally")
       /\ Sent(g, held, "mission") /\ Sent(g, held, "fence")
    \/ \A p \in Parts : Idle(g, p) /\ Sent(g, held, p)

\* The plan shown is that of the active vehicle's managers.
Shown(g) == \A p \in Parts : Idle(g, p) /\ g.view[p].items = g.manager[g.vehicle][p].items

\* What is known of a session that nothing has come between.
Undisturbed(g, held, kind) ==
    /\ g.vehicle \in Vehicles
    /\ g.initial[g.vehicle].step = Complete
    /\ kind = "Load" => ~g.prompt /\ Loading(g, held)
    /\ kind = "Send" => ~g.prompt /\ Sending(g, held)
    /\ kind = "Change" => Shown(g)

\* The inductive invariant.
IInv ==
    /\ TypeOK /\ Good(gcs)
    /\ gcs.vehicle \in connected \cup {Offline}
    /\ \A v \in Vehicles, p \in Parts : ~Supported(v, p) => onVehicle[v][p] = Empty
    /\ session.intact => Undisturbed(gcs, onVehicle, session.kind)

-----------------------------------------------------------------------------
(* What the operators keep. *)

\* What no operation of a controller touches: the steps of the initial connections and what
\* they await.
SameConnections(g, h) ==
    \A v \in Vehicles :
        /\ h.initial[v].step = g.initial[v].step
        /\ h.initial[v].first = g.initial[v].first
        /\ g.initial[v].planComplete => h.initial[v].planComplete

\* The result of an operation of a controller or of a manager.
Keeps(g, h) == h \in Systems /\ SameConnections(g, h) /\ (Sound(g) => Sound(h))

\* Such an operation leaves a good system.
LEMMA KeepsIsGood ==
    ASSUME NEW g \in Systems, NEW h, Good(g), Keeps(g, h)
    PROVE  Good(h)
  BY DEF Good, Keeps, SameConnections, Answered

\* Two of them in a row are one.
LEMMA KeepsTwice ==
    ASSUME NEW g, NEW h, NEW k, Keeps(g, h), Keeps(h, k)
    PROVE  Keeps(g, k)
  BY DEF Keeps, SameConnections

\* Doing nothing is one.
LEMMA KeepsItself == ASSUME NEW g \in Systems PROVE Keeps(g, g)
  BY DEF Keeps, SameConnections

\* The types of the fields of a system.
LEMMA SystemFields ==
    ASSUME NEW g \in Systems
    PROVE  /\ g.vehicle \in Vehicles \cup {Offline}
           /\ g.chain \in SUBSET Chains
           /\ g.prompt \in BOOLEAN
           /\ g.view \in [Parts -> Views]
           /\ g.manager \in [Vehicles -> [Parts -> Managers]]
           /\ g.initial \in [Vehicles -> Connections]
           /\ g = [vehicle |-> g.vehicle, chain |-> g.chain, prompt |-> g.prompt, view |-> g.view,
                   manager |-> g.manager, initial |-> g.initial]
  BY DEF Systems



\* One manager, part of the view or connection is changed, and nothing else.
ManagerBecomes(g, h, v, p, m) ==
    /\ h \in Systems
    /\ h.manager[v][p] = m
    /\ \A q \in Parts : q # p => h.manager[v][q] = g.manager[v][q]
    /\ \A w \in Vehicles : w # v => h.manager[w] = g.manager[w]
    /\ h.vehicle = g.vehicle /\ h.chain = g.chain /\ h.prompt = g.prompt
    /\ h.view = g.view /\ h.initial = g.initial

ViewBecomes(g, h, p, x) ==
    /\ h \in Systems
    /\ h.view[p] = x
    /\ \A q \in Parts : q # p => h.view[q] = g.view[q]
    /\ h.vehicle = g.vehicle /\ h.chain = g.chain /\ h.prompt = g.prompt
    /\ h.manager = g.manager /\ h.initial = g.initial

ConnectionBecomes(g, h, v, c) ==
    /\ h \in Systems
    /\ h.initial[v] = c
    /\ \A w \in Vehicles : w # v => h.initial[w] = g.initial[w]
    /\ h.vehicle = g.vehicle /\ h.chain = g.chain /\ h.prompt = g.prompt
    /\ h.view = g.view /\ h.manager = g.manager

\* To change one manager, part of the view or connection is to change nothing else.
LEMMA ManagerChanges ==
    ASSUME NEW g \in Systems, NEW v \in Vehicles, NEW p \in Parts, NEW m \in Managers
    PROVE  ManagerBecomes(g, [g EXCEPT !.manager[v][p] = m], v, p, m)
  BY DEF ManagerBecomes, Systems

\* The same of a part of the view.
LEMMA ViewChanges ==
    ASSUME NEW g \in Systems, NEW p \in Parts, NEW x \in Views
    PROVE  ViewBecomes(g, [g EXCEPT !.view[p] = x], p, x)
  BY DEF ViewBecomes, Systems

\* The same of a connection.
LEMMA ConnectionChanges ==
    ASSUME NEW g \in Systems, NEW v \in Vehicles, NEW c \in Connections
    PROVE  ConnectionBecomes(g, [g EXCEPT !.initial[v] = c], v, c)
  BY DEF ConnectionBecomes, Systems

\* A manager of a system is a manager.
LEMMA ManagerFields ==
    ASSUME NEW g \in Systems, NEW v \in Vehicles, NEW p \in Parts
    PROVE  g.manager[v][p] \in Managers
  BY DEF Systems

\* A part of its view is a part of a view.
LEMMA ViewFields ==
    ASSUME NEW g \in Systems, NEW p \in Parts
    PROVE  g.view[p] \in Views
  BY DEF Systems

\* A connection of it is a connection.
LEMMA ConnectionFields ==
    ASSUME NEW g \in Systems, NEW v \in Vehicles
    PROVE  g.initial[v] \in Connections
  BY DEF Systems

\* A transaction starts with one manager changed.
LEMMA TransactionStarts ==
    ASSUME NEW g \in Systems, NEW v \in Vehicles, NEW p \in Parts,
           NEW t \in {"None", "Read", "Write", "RemoveAll"}
    PROVE  ManagerBecomes(g, [g EXCEPT !.manager[v][p].transaction = t], v, p,
                          [g.manager[v][p] EXCEPT !.transaction = t])
  <1> DEFINE m == [g.manager[v][p] EXCEPT !.transaction = t]
  <1>1. m \in Managers
    BY ManagerFields DEF Managers
  <1>2. [g EXCEPT !.manager[v][p].transaction = t] = [g EXCEPT !.manager[v][p] = m]
    OBVIOUS
  <1>3. QED BY <1>1, <1>2, ManagerChanges

\* A manager that is busy refuses to read; another starts to.
LEMMA LoadIs ==
    ASSUME NEW g \in Systems, NEW v \in Vehicles, NEW p \in Parts
    PROVE  IF Busy(g, v, p) THEN LoadFromVehicle(g, v, p) = g
           ELSE ManagerBecomes(g, LoadFromVehicle(g, v, p), v, p,
                               [g.manager[v][p] EXCEPT !.transaction = "Read"])
  BY TransactionStarts DEF LoadFromVehicle

\* Two changes of a manager are one.
LEMMA ChangedTwice ==
    ASSUME NEW g, NEW h, NEW k, NEW v \in Vehicles, NEW p \in Parts, NEW m, NEW n,
           ManagerBecomes(g, h, v, p, m), ManagerBecomes(h, k, v, p, n)
    PROVE  ManagerBecomes(g, k, v, p, n)
  BY DEF ManagerBecomes

\* A manager that is busy refuses to write; another starts to, with the items it is given.
LEMMA WriteIs ==
    ASSUME NEW g \in Systems, NEW v \in Vehicles, NEW p \in Parts, NEW items \in Plans
    PROVE  IF Busy(g, v, p) THEN WriteItems(g, v, p, items) = g
           ELSE ManagerBecomes(g, WriteItems(g, v, p, items), v, p,
                  [g.manager[v][p] EXCEPT !.transaction = "Write", !.sending = items])
  <1> DEFINE h == [g EXCEPT !.manager[v][p].transaction = "Write"]
             k == [h EXCEPT !.manager[v][p].sending = items]
             m == [h.manager[v][p] EXCEPT !.sending = items]
  <1>1. ManagerBecomes(g, h, v, p, [g.manager[v][p] EXCEPT !.transaction = "Write"])
    BY TransactionStarts
  <1>2. h \in Systems /\ h.manager[v][p] = [g.manager[v][p] EXCEPT !.transaction = "Write"]
    BY <1>1 DEF ManagerBecomes
  <1>3. m \in Managers
    BY <1>2, ManagerFields DEF Managers
  <1>4. k = [h EXCEPT !.manager[v][p] = m]
    OBVIOUS
  <1>5. ManagerBecomes(h, k, v, p, m)
    BY <1>2, <1>3, <1>4, ManagerChanges
  <1>6. ManagerBecomes(g, k, v, p, m)
    BY <1>1, <1>5, ChangedTwice
  <1>7. m = [g.manager[v][p] EXCEPT !.transaction = "Write", !.sending = items]
    BY <1>2
  <1>8. ~Busy(g, v, p) => WriteItems(g, v, p, items) = k
    BY DEF WriteItems
  <1>9. QED BY <1>6, <1>7, <1>8 DEF WriteItems

\* A manager that is busy refuses to remove its items; another starts to, and has none.
LEMMA RemoveAllIs ==
    ASSUME NEW g \in Systems, NEW v \in Vehicles, NEW p \in Parts
    PROVE  IF Busy(g, v, p) THEN RemoveAllItems(g, v, p) = g
           ELSE ManagerBecomes(g, RemoveAllItems(g, v, p), v, p,
                  [g.manager[v][p] EXCEPT !.transaction = "RemoveAll", !.items = Empty])
  <1> DEFINE h == [g EXCEPT !.manager[v][p].transaction = "RemoveAll"]
             k == [h EXCEPT !.manager[v][p].items = Empty]
             m == [h.manager[v][p] EXCEPT !.items = Empty]
  <1>1. ManagerBecomes(g, h, v, p, [g.manager[v][p] EXCEPT !.transaction = "RemoveAll"])
    BY TransactionStarts
  <1>2. h \in Systems /\ h.manager[v][p] = [g.manager[v][p] EXCEPT !.transaction = "RemoveAll"]
    BY <1>1 DEF ManagerBecomes
  <1>3. m \in Managers
    BY <1>2, ManagerFields DEF Managers, Plans
  <1>4. k = [h EXCEPT !.manager[v][p] = m]
    OBVIOUS
  <1>5. ManagerBecomes(h, k, v, p, m)
    BY <1>2, <1>3, <1>4, ManagerChanges
  <1>6. ManagerBecomes(g, k, v, p, m)
    BY <1>1, <1>5, ChangedTwice
  <1>7. m = [g.manager[v][p] EXCEPT !.transaction = "RemoveAll", !.items = Empty]
    BY <1>2
  <1>8. ~Busy(g, v, p) => RemoveAllItems(g, v, p) = k
    BY DEF RemoveAllItems
  <1>9. QED BY <1>6, <1>7, <1>8 DEF RemoveAllItems

\* A transaction of a part that the vehicle supports is sound.
LEMMA ManagerKeeps ==
    ASSUME NEW g \in Systems, NEW h, NEW v \in Vehicles, NEW p \in Parts, NEW m,
           ManagerBecomes(g, h, v, p, m), m.transaction # "None" => Supported(v, p)
    PROVE  Keeps(g, h)
  BY DEF ManagerBecomes, Keeps, SameConnections, Sound, Busy

\* So reading it keeps what an operation keeps.
LEMMA LoadKeeps ==
    ASSUME NEW g \in Systems, NEW v \in Vehicles, NEW p \in Parts, Supported(v, p)
    PROVE  Keeps(g, LoadFromVehicle(g, v, p))
  BY LoadIs, ManagerKeeps, KeepsItself

\* So does writing it.
LEMMA WriteKeeps ==
    ASSUME NEW g \in Systems, NEW v \in Vehicles, NEW p \in Parts, NEW items \in Plans,
           Supported(v, p)
    PROVE  Keeps(g, WriteItems(g, v, p, items))
  BY WriteIs, ManagerKeeps, KeepsItself

\* So does removing it.
LEMMA RemoveAllKeeps ==
    ASSUME NEW g \in Systems, NEW v \in Vehicles, NEW p \in Parts, Supported(v, p)
    PROVE  Keeps(g, RemoveAllItems(g, v, p))
  BY RemoveAllIs, ManagerKeeps, KeepsItself

-----------------------------------------------------------------------------
(* The initial connection. *)

\* The steps of a connection, and what it awaits in all.
Steps == Earlier..Complete
Awaited == Parts \cup {"earlier", "parameters"}

\* The connection c of vehicle v has become d by one advance.
Advanced(v, c, d) ==
    /\ c.planComplete => d.planComplete
    /\ c.step = Earlier =>
         d.step = (IF v \in UsbDirect THEN Mission ELSE Parameters) /\ d.first = c.first
    /\ c.step = Parameters => d.step = Mission /\ d.first = c.first
    /\ c.step = Mission =>
         IF v \in Capable THEN d.step = GeoFence /\ d.first = c.first
         ELSE d.step = Complete /\ d.first = c.first \ {"fence", "rally"}
    /\ c.step = GeoFence =>
         IF v \in Capable THEN d.step = RallyPoints /\ d.first = c.first
         ELSE d.step = Complete /\ d.first = c.first \ {"rally"}
    /\ c.step \in {RallyPoints, Complete} => d.step = Complete /\ d.first = c.first

\* Only the connection of v and its managers have changed.
OnlyVehicle(g, h, v) ==
    /\ h \in Systems
    /\ Sound(g) => Sound(h)
    /\ \A w \in Vehicles : w # v => h.initial[w] = g.initial[w] /\ h.manager[w] = g.manager[w]
    /\ h.vehicle = g.vehicle /\ h.chain = g.chain /\ h.prompt = g.prompt /\ h.view = g.view

\* A connection's step changes alone.
LEMMA StepChanges ==
    ASSUME NEW g \in Systems, NEW v \in Vehicles, NEW x \in Steps
    PROVE  ConnectionBecomes(g, [g EXCEPT !.initial[v].step = x], v,
                             [g.initial[v] EXCEPT !.step = x])
  <1> DEFINE c == [g.initial[v] EXCEPT !.step = x]
  <1>1. c \in Connections
    BY ConnectionFields DEF Connections, Steps
  <1>2. [g EXCEPT !.initial[v].step = x] = [g EXCEPT !.initial[v] = c]
    OBVIOUS
  <1>3. QED BY <1>1, <1>2, ConnectionChanges

\* What it awaits changes alone.
LEMMA FirstChanges ==
    ASSUME NEW g \in Systems, NEW v \in Vehicles, NEW x \in SUBSET Awaited
    PROVE  ConnectionBecomes(g, [g EXCEPT !.initial[v].first = x], v,
                             [g.initial[v] EXCEPT !.first = x])
  <1> DEFINE c == [g.initial[v] EXCEPT !.first = x]
  <1>1. c \in Connections
    BY ConnectionFields DEF Connections, Awaited
  <1>2. [g EXCEPT !.initial[v].first = x] = [g EXCEPT !.initial[v] = c]
    OBVIOUS
  <1>3. QED BY <1>1, <1>2, ConnectionChanges

\* Whether its plan request is over changes alone.
LEMMA PlanCompleteChanges ==
    ASSUME NEW g \in Systems, NEW v \in Vehicles, NEW x \in BOOLEAN
    PROVE  ConnectionBecomes(g, [g EXCEPT !.initial[v].planComplete = x], v,
                             [g.initial[v] EXCEPT !.planComplete = x])
  <1> DEFINE c == [g.initial[v] EXCEPT !.planComplete = x]
  <1>1. c \in Connections
    BY ConnectionFields DEF Connections
  <1>2. [g EXCEPT !.initial[v].planComplete = x] = [g EXCEPT !.initial[v] = c]
    OBVIOUS
  <1>3. QED BY <1>1, <1>2, ConnectionChanges

\* Two changes of a connection are one.
LEMMA ConnectedTwice ==
    ASSUME NEW g, NEW h, NEW k, NEW v \in Vehicles, NEW c, NEW d,
           ConnectionBecomes(g, h, v, c), ConnectionBecomes(h, k, v, d)
    PROVE  ConnectionBecomes(g, k, v, d)
  BY DEF ConnectionBecomes

\* A change of a vehicle's connection is a change of the vehicle.
LEMMA ConnectionIsOnlyVehicle ==
    ASSUME NEW g, NEW h, NEW v \in Vehicles, NEW c, ConnectionBecomes(g, h, v, c)
    PROVE  OnlyVehicle(g, h, v)
  BY DEF ConnectionBecomes, OnlyVehicle, Sound, Busy

\* So is a read from it.
LEMMA LoadIsOnlyVehicle ==
    ASSUME NEW g \in Systems, NEW v \in Vehicles, NEW p \in Parts, Supported(v, p)
    PROVE  /\ OnlyVehicle(g, LoadFromVehicle(g, v, p), v)
           /\ LoadFromVehicle(g, v, p).initial = g.initial
  <1>1. LoadFromVehicle(g, v, p).initial = g.initial /\ LoadFromVehicle(g, v, p) \in Systems
    BY LoadIs DEF ManagerBecomes
  <1>2. Sound(g) => Sound(LoadFromVehicle(g, v, p))
    BY LoadKeeps DEF Keeps
  <1>3. CASE Busy(g, v, p)
    BY <1>1, <1>3, LoadIs DEF OnlyVehicle
  <1>4. CASE ~Busy(g, v, p)
    <2>1. ManagerBecomes(g, LoadFromVehicle(g, v, p), v, p,
                         [g.manager[v][p] EXCEPT !.transaction = "Read"])
      BY <1>4, LoadIs
    <2>2. QED BY <1>1, <1>2, <2>1 DEF ManagerBecomes, OnlyVehicle
  <1>5. QED BY <1>3, <1>4

\* Two changes of a vehicle are one.
LEMMA OnlyVehicleTwice ==
    ASSUME NEW g, NEW h, NEW k, NEW v, OnlyVehicle(g, h, v), OnlyVehicle(h, k, v)
    PROVE  OnlyVehicle(g, k, v)
  BY DEF OnlyVehicle

\* The rally points are asked for, or passed over as answered, with which the plan is over.
LEMMA RallyPointsRequested ==
    ASSUME NEW g \in Systems, NEW v \in Vehicles, NEW h, h = RequestRallyPoints(g, v)
    PROVE  /\ OnlyVehicle(g, h, v)
           /\ g.initial[v].planComplete => h.initial[v].planComplete
           /\ IF v \in Capable
                THEN h.initial[v].step = RallyPoints /\ h.initial[v].first = g.initial[v].first
                ELSE /\ h.initial[v].step = Complete
                     /\ h.initial[v].first = g.initial[v].first \ {"rally"}
  <1> "rally" \in Parts /\ RallyPoints \in Steps /\ Complete \in Steps
    BY DEF Parts, Steps, RallyPoints, Complete, Earlier
  <1>1. CASE v \in Capable
    <2> DEFINE a == [g EXCEPT !.initial[v].step = RallyPoints]
    <2>1. ConnectionBecomes(g, a, v, [g.initial[v] EXCEPT !.step = RallyPoints])
      BY StepChanges
    <2>2. h = LoadFromVehicle(a, v, "rally") /\ Supported(v, "rally")
      BY <1>1 DEF RequestRallyPoints, Supported
    <2> HIDE DEF a
    <2>3. a \in Systems /\ OnlyVehicle(g, a, v)
      BY <2>1, ConnectionIsOnlyVehicle DEF ConnectionBecomes
    <2>4. OnlyVehicle(a, h, v) /\ h.initial = a.initial
      BY <2>2, <2>3, LoadIsOnlyVehicle
    <2>5. h.initial[v] = [g.initial[v] EXCEPT !.step = RallyPoints] /\ g.initial[v] \in Connections
      BY <2>1, <2>4, ConnectionFields DEF ConnectionBecomes
    <2>6. QED BY <1>1, <2>3, <2>4, <2>5, OnlyVehicleTwice DEF Connections
  <1>2. CASE v \notin Capable
    <2> DEFINE a == [g EXCEPT !.initial[v].step = Complete]
               b == [a EXCEPT !.initial[v].planComplete = TRUE]
               d == [b EXCEPT !.initial[v].first = b.initial[v].first \ {"rally"}]
    <2>1. h = d
      BY <1>2 DEF RequestRallyPoints, Supported
    <2>2. ConnectionBecomes(g, a, v, [g.initial[v] EXCEPT !.step = Complete])
      BY StepChanges
    <2>3. a \in Systems
      BY <2>2 DEF ConnectionBecomes
    <2>4. ConnectionBecomes(a, b, v, [a.initial[v] EXCEPT !.planComplete = TRUE])
      BY <2>3, PlanCompleteChanges
    <2>5. b \in Systems /\ b.initial[v].first \in SUBSET Awaited
      BY <2>4, ConnectionFields DEF ConnectionBecomes, Connections, Awaited
    <2>6. ConnectionBecomes(b, d, v, [b.initial[v] EXCEPT !.first = b.initial[v].first \ {"rally"}])
      BY <2>5, FirstChanges
    <2> HIDE DEF a, b, d
    <2>7. /\ a.initial[v] = [g.initial[v] EXCEPT !.step = Complete]
          /\ b.initial[v] = [a.initial[v] EXCEPT !.planComplete = TRUE]
          /\ d.initial[v] = [b.initial[v] EXCEPT !.first = b.initial[v].first \ {"rally"}]
          /\ g.initial[v] \in Connections
      BY <2>2, <2>4, <2>6, ConnectionFields DEF ConnectionBecomes
    <2>8. OnlyVehicle(g, d, v)
      BY <2>2, <2>4, <2>6, ConnectedTwice, ConnectionIsOnlyVehicle
    <2>9. d.initial[v].step = Complete /\ d.initial[v].planComplete = TRUE
          /\ d.initial[v].first = g.initial[v].first \ {"rally"}
      BY <2>7 DEF Connections
    <2>10. QED BY <1>2, <2>1, <2>8, <2>9
  <1>3. QED BY <1>1, <1>2

\* The fence is asked for, or passed over with the rally points.
LEMMA GeoFenceRequested ==
    ASSUME NEW g \in Systems, NEW v \in Vehicles, NEW h, h = RequestGeoFence(g, v)
    PROVE  /\ OnlyVehicle(g, h, v)
           /\ g.initial[v].planComplete => h.initial[v].planComplete
           /\ IF v \in Capable
                THEN h.initial[v].step = GeoFence /\ h.initial[v].first = g.initial[v].first
                ELSE /\ h.initial[v].step = Complete
                     /\ h.initial[v].first = g.initial[v].first \ {"fence", "rally"}
  <1> "fence" \in Parts /\ GeoFence \in Steps
    BY DEF Parts, Steps, GeoFence, Earlier, Complete
  <1>1. CASE v \in Capable
    <2> DEFINE a == [g EXCEPT !.initial[v].step = GeoFence]
    <2>1. ConnectionBecomes(g, a, v, [g.initial[v] EXCEPT !.step = GeoFence])
      BY StepChanges
    <2>2. h = LoadFromVehicle(a, v, "fence") /\ Supported(v, "fence")
      BY <1>1 DEF RequestGeoFence, Supported
    <2> HIDE DEF a
    <2>3. a \in Systems /\ OnlyVehicle(g, a, v)
      BY <2>1, ConnectionIsOnlyVehicle DEF ConnectionBecomes
    <2>4. OnlyVehicle(a, h, v) /\ h.initial = a.initial
      BY <2>2, <2>3, LoadIsOnlyVehicle
    <2>5. h.initial[v] = [g.initial[v] EXCEPT !.step = GeoFence] /\ g.initial[v] \in Connections
      BY <2>1, <2>4, ConnectionFields DEF ConnectionBecomes
    <2>6. QED BY <1>1, <2>3, <2>4, <2>5, OnlyVehicleTwice DEF Connections
  <1>2. CASE v \notin Capable
    <2> DEFINE x == g.initial[v].first \ {"fence"}
               a == [g EXCEPT !.initial[v].first = x]
    <2>1. x \in SUBSET Awaited /\ g.initial[v] \in Connections
      BY ConnectionFields DEF Connections, Awaited
    <2>2. h = RequestRallyPoints(a, v)
      BY <1>2 DEF RequestGeoFence, Supported
    <2>3. ConnectionBecomes(g, a, v, [g.initial[v] EXCEPT !.first = x])
      BY <2>1, FirstChanges
    <2>4. a.initial[v].first = x /\ a.initial[v].planComplete = g.initial[v].planComplete
      BY <2>1, <2>3 DEF ConnectionBecomes, Connections
    <2>5. a \in Systems /\ OnlyVehicle(g, a, v)
      BY <2>3, ConnectionIsOnlyVehicle DEF ConnectionBecomes
    <2> HIDE DEF a
    <2>6. /\ OnlyVehicle(a, h, v) /\ h.initial[v].step = Complete
          /\ h.initial[v].first = x \ {"rally"}
          /\ g.initial[v].planComplete => h.initial[v].planComplete
      BY <1>2, <2>2, <2>4, <2>5, RallyPointsRequested
    <2>7. QED BY <1>2, <2>5, <2>6, OnlyVehicleTwice
  <1>3. QED BY <1>1, <1>2

\* The mission is always asked for.
LEMMA MissionRequested ==
    ASSUME NEW g \in Systems, NEW v \in Vehicles, NEW h, h = RequestMission(g, v)
    PROVE  /\ OnlyVehicle(g, h, v)
           /\ g.initial[v].planComplete => h.initial[v].planComplete
           /\ h.initial[v].step = Mission /\ h.initial[v].first = g.initial[v].first
  <1> "mission" \in Parts /\ Mission \in Steps
    BY DEF Parts, Steps, Mission, Earlier, Complete
  <1> DEFINE a == [g EXCEPT !.initial[v].step = Mission]
  <1>1. ConnectionBecomes(g, a, v, [g.initial[v] EXCEPT !.step = Mission])
    BY StepChanges
  <1>2. h = LoadFromVehicle(a, v, "mission") /\ Supported(v, "mission")
    BY DEF RequestMission, Supported
  <1> HIDE DEF a
  <1>3. a \in Systems /\ OnlyVehicle(g, a, v)
    BY <1>1, ConnectionIsOnlyVehicle DEF ConnectionBecomes
  <1>4. OnlyVehicle(a, h, v) /\ h.initial = a.initial
    BY <1>2, <1>3, LoadIsOnlyVehicle
  <1>5. h.initial[v] = [g.initial[v] EXCEPT !.step = Mission] /\ g.initial[v] \in Connections
    BY <1>1, <1>4, ConnectionFields DEF ConnectionBecomes
  <1>6. QED BY <1>3, <1>4, <1>5, OnlyVehicleTwice DEF Connections

\* The state machine is put to a step.
LEMMA StepIsSet ==
    ASSUME NEW g \in Systems, NEW v \in Vehicles, NEW x \in Steps,
           NEW h, h = [g EXCEPT !.initial[v].step = x]
    PROVE  /\ OnlyVehicle(g, h, v) /\ h.manager = g.manager
           /\ h.initial[v].planComplete = g.initial[v].planComplete
           /\ h.initial[v].step = x /\ h.initial[v].first = g.initial[v].first
  <1>1. ConnectionBecomes(g, h, v, [g.initial[v] EXCEPT !.step = x])
    BY StepChanges
  <1>2. OnlyVehicle(g, h, v)
    BY <1>1, ConnectionIsOnlyVehicle
  <1>3. g.initial[v] \in Connections
    BY ConnectionFields
  <1>4. QED BY <1>1, <1>2, <1>3 DEF ConnectionBecomes, Connections

\* The state machine advances: one advance of the connection, and only a vehicle that was not
\* connected yet is asked for anything.
LEMMA AdvanceIs ==
    ASSUME NEW g \in Systems, NEW v \in Vehicles
    PROVE  /\ OnlyVehicle(g, Advance(g, v), v)
           /\ Advanced(v, g.initial[v], Advance(g, v).initial[v])
           /\ g.initial[v].step = Complete => Advance(g, v).manager = g.manager
  <1> DEFINE h == Advance(g, v)
  <1> USE DEF Earlier, Parameters, Mission, GeoFence, RallyPoints, Complete
  <1> g.initial[v].step \in 0..5 /\ 1 \in Steps /\ 5 \in Steps
    BY ConnectionFields DEF Connections, Steps
  <1>1. CASE g.initial[v].step = 0 /\ v \notin UsbDirect
    <2>1. h = [g EXCEPT !.initial[v].step = 1]
      BY <1>1 DEF Advance
    <2>2. QED BY <1>1, <2>1, StepIsSet DEF Advanced
  <1>2. CASE g.initial[v].step = 0 /\ v \in UsbDirect
    <2>1. h = RequestMission(g, v)
      BY <1>2 DEF Advance
    <2>2. QED BY <1>2, <2>1, MissionRequested DEF Advanced
  <1>3. CASE g.initial[v].step = 1
    <2>1. h = RequestMission(g, v)
      BY <1>3 DEF Advance
    <2>2. QED BY <1>3, <2>1, MissionRequested DEF Advanced
  <1>4. CASE g.initial[v].step = 2
    <2>1. h = RequestGeoFence(g, v)
      BY <1>4 DEF Advance
    <2>2. QED BY <1>4, <2>1, GeoFenceRequested DEF Advanced
  <1>5. CASE g.initial[v].step = 3
    <2>1. h = RequestRallyPoints(g, v)
      BY <1>5 DEF Advance
    <2>2. QED BY <1>5, <2>1, RallyPointsRequested DEF Advanced
  <1>6. CASE g.initial[v].step \in {4, 5}
    <2>1. h = [g EXCEPT !.initial[v].step = 5]
      BY <1>6 DEF Advance
    <2>2. QED BY <1>6, <2>1, StepIsSet DEF Advanced
  <1>7. QED BY <1>1, <1>2, <1>3, <1>4, <1>5, <1>6

\* What is awaited can be counted.
LEMMA AwaitedIsFinite ==
    ASSUME NEW S \in SUBSET Awaited
    PROVE  IsFiniteSet(S)
  <1>1. \A x : IsFiniteSet({x})
    BY FS_Singleton
  <1>2. IsFiniteSet({"mission"} \cup {"fence"})
    BY <1>1, FS_Union
  <1>3. IsFiniteSet(({"mission"} \cup {"fence"}) \cup {"rally"})
    BY <1>1, <1>2, FS_Union
  <1>4. IsFiniteSet({"earlier"} \cup {"parameters"})
    BY <1>1, FS_Union
  <1>5. IsFiniteSet((({"mission"} \cup {"fence"}) \cup {"rally"}) \cup ({"earlier"} \cup {"parameters"}))
    BY <1>3, <1>4, FS_Union
  <1>6. Awaited = (({"mission"} \cup {"fence"}) \cup {"rally"}) \cup ({"earlier"} \cup {"parameters"})
    BY DEF Awaited, Parts
  <1>7. IsFiniteSet(Awaited)
    BY <1>5, <1>6
  <1>8. QED BY <1>7, FS_Subset

\* Each of the firsts takes the machine on by one step, and one that the vehicle does not
\* support is passed over with its step.
LEMMA AnsweredStays ==
    ASSUME NEW v \in Vehicles, NEW c \in Connections, NEW d, NEW e \in Connections,
           NEW p \in c.first,
           p \in {"fence", "rally"} => v \in Capable,
           d.step = c.step, d.first = c.first \ {p}, Answered(v, c), Advanced(v, d, e)
    PROVE  Answered(v, e)
  <1> USE DEF Earlier, Parameters, Mission, GeoFence, RallyPoints, Complete
  <1>1. c.first \in SUBSET Awaited /\ c.step \in 0..5
    BY DEF Connections, Awaited
  <1>2. IsFiniteSet(c.first) /\ IsFiniteSet(d.first)
    BY <1>1, AwaitedIsFinite
  <1>3. Cardinality(c.first) \in Nat /\ Cardinality(d.first) = Cardinality(c.first) - 1
    BY <1>2, FS_CardinalityType, FS_RemoveElement
  <1>4. CASE v \in Capable \/ c.step \notin {2, 3}
    <2>1. e.first = d.first
      BY <1>1, <1>4 DEF Advanced
    <2> DEFINE n == Cardinality(c.first)
               m == Cardinality(e.first)
    <2>2. n \in Nat /\ m = n - 1 /\ c.step \in 0..5
      BY <1>1, <1>3, <2>1
    <2>3. v \notin Capable => e.step = 5 \/ (e.step <= 2 /\ {"fence", "rally"} \subseteq e.first)
      BY <1>1, <1>4, <2>1 DEF Answered, Advanced
    <2>4. CASE v \notin UsbDirect
      <3>1. n = 5 - c.step
        BY <2>4 DEF Answered
      <3>2. c.step # 5
        BY <3>1, <2>2, <1>2, FS_EmptySet
      <3>3. e.step = c.step + 1
        BY <1>4, <2>2, <2>4, <3>2 DEF Advanced
      <3>4. m = 5 - e.step
        BY <2>2, <3>1, <3>3
      <3>5. QED BY <2>3, <2>4, <3>4 DEF Answered
    <2>5. CASE v \in UsbDirect
      <3>1. \/ c.step = 0 /\ n = 5
            \/ c.step \in 2..4 /\ n = 6 - c.step
            \/ c.step = 5 /\ n <= 1
        BY <2>5 DEF Answered
      <3>2. \/ c.step = 0 /\ e.step = 2
            \/ c.step \in 2..4 /\ e.step = c.step + 1
            \/ c.step = 5 /\ e.step = 5
        BY <1>4, <2>2, <2>5, <3>1 DEF Advanced
      <3>3. \/ e.step \in 2..4 /\ m = 6 - e.step
            \/ e.step = 5 /\ m <= 1
        BY <2>2, <3>1, <3>2
      <3>4. QED BY <2>3, <2>5, <3>3 DEF Answered
    <2>6. QED BY <2>4, <2>5
  <1>5. CASE v \notin Capable /\ c.step \in {2, 3}
    <2>1. c.step = 2 /\ {"fence", "rally"} \subseteq c.first
      BY <1>5 DEF Answered
    <2>2. e.step = 5 /\ e.first = (d.first \ {"fence"}) \ {"rally"}
      BY <1>5, <2>1 DEF Advanced
    <2>3. "fence" \in d.first /\ "rally" \in d.first \ {"fence"}
      BY <1>5, <2>1
    <2>4. IsFiniteSet(d.first \ {"fence"})
      BY <1>1, AwaitedIsFinite
    <2>5. Cardinality(d.first \ {"fence"}) = Cardinality(d.first) - 1
      BY <1>2, <2>3, FS_RemoveElement
    <2>6. Cardinality(e.first) = Cardinality(d.first \ {"fence"}) - 1
      <3> DEFINE S == d.first \ {"fence"}
      <3>1. IsFiniteSet(S) /\ "rally" \in S
        BY <2>3, <2>4
      <3> HIDE DEF S
      <3>2. Cardinality(S \ {"rally"}) = Cardinality(S) - 1
        BY <3>1, FS_RemoveElement
      <3>3. QED BY <2>2, <3>2 DEF S
    <2>7. Cardinality(e.first) = Cardinality(c.first) - 3
      BY <1>3, <2>5, <2>6
    <2>8. Cardinality(c.first) = IF v \in UsbDirect THEN 4 ELSE 3
      BY <2>1 DEF Answered
    <2>9. QED BY <1>3, <1>5, <2>2, <2>7, <2>8 DEF Answered
  <1>6. QED BY <1>4, <1>5

\* What a first completion leaves of the system.
LEMMA FirstCompleteIs ==
    ASSUME NEW g, Good(g), NEW v \in Vehicles, NEW p \in Awaited,
           p \in {"fence", "rally"} => v \in Capable,
           NEW h, h = FirstComplete(g, v, p)
    PROVE  /\ Good(h)
           /\ OnlyVehicle(g, h, v)
           /\ g.initial[v].planComplete => h.initial[v].planComplete
           /\ g.initial[v].step = Complete =>
                h.manager = g.manager /\ h.initial[v].step = Complete
  <1> g \in Systems
    BY DEF Good
  <1>1. CASE p \notin g.initial[v].first
    BY <1>1 DEF FirstComplete, OnlyVehicle
  <1>2. CASE p \in g.initial[v].first
    <2> DEFINE x == g.initial[v].first \ {p}
               y == g.initial[v].planComplete \/ p = "rally"
               a == [g EXCEPT !.initial[v].first = x]
               b == [a EXCEPT !.initial[v].planComplete = a.initial[v].planComplete \/ p = "rally"]
    <2>1. g.initial[v] \in Connections /\ x \in SUBSET Awaited
      BY ConnectionFields DEF Connections, Awaited
    <2>2. h = Advance(b, v)
      BY <1>2 DEF FirstComplete
    <2>3. ConnectionBecomes(g, a, v, [g.initial[v] EXCEPT !.first = x])
      BY <2>1, FirstChanges
    <2>4. a \in Systems /\ a.initial[v].planComplete \in BOOLEAN
      BY <2>3, ConnectionFields DEF ConnectionBecomes, Connections
    <2>5. (a.initial[v].planComplete \/ p = "rally") \in BOOLEAN
      OBVIOUS
    <2>6. ConnectionBecomes(a, b, v, [a.initial[v] EXCEPT
                              !.planComplete = a.initial[v].planComplete \/ p = "rally"])
      BY <2>4, <2>5, PlanCompleteChanges
    <2> HIDE DEF a, b
    <2>7. /\ a.initial[v] = [g.initial[v] EXCEPT !.first = x]
          /\ b.initial[v] = [a.initial[v] EXCEPT
                               !.planComplete = a.initial[v].planComplete \/ p = "rally"]
          /\ b \in Systems /\ b.manager = g.manager
      BY <2>3, <2>6 DEF ConnectionBecomes
    <2>8. /\ b.initial[v].step = g.initial[v].step /\ b.initial[v].first = x
          /\ g.initial[v].planComplete => b.initial[v].planComplete
      BY <2>1, <2>7 DEF Connections
    <2>9. OnlyVehicle(g, b, v)
      BY <2>3, <2>6, ConnectedTwice, ConnectionIsOnlyVehicle
    <2>10. /\ OnlyVehicle(b, h, v)
           /\ Advanced(v, b.initial[v], h.initial[v])
           /\ b.initial[v].step = Complete => h.manager = b.manager
      <3>1. b \in Systems
        BY <2>7
      <3>2. /\ OnlyVehicle(b, Advance(b, v), v)
            /\ Advanced(v, b.initial[v], Advance(b, v).initial[v])
            /\ b.initial[v].step = Complete => Advance(b, v).manager = b.manager
        BY ONLY <3>1, v \in Vehicles, AdvanceIs
      <3>3. QED BY <2>2, <3>2
    <2>11. OnlyVehicle(g, h, v)
      BY <2>9, <2>10, OnlyVehicleTwice
    <2>12. h.initial[v] \in Connections
      BY <2>11, ConnectionFields DEF OnlyVehicle
    <2>13. Answered(v, h.initial[v])
      BY <1>2, <2>1, <2>8, <2>10, <2>12, AnsweredStays DEF Good
    <2>14. Good(h)
      BY <2>11, <2>13 DEF Good, OnlyVehicle
    <2>15. /\ g.initial[v].planComplete => h.initial[v].planComplete
           /\ g.initial[v].step = Complete => h.initial[v].step = Complete
      BY <2>8, <2>10 DEF Advanced
    <2>16. QED BY <2>7, <2>8, <2>10, <2>11, <2>14, <2>15
  <1>3. QED BY <1>1, <1>2

-----------------------------------------------------------------------------
(* The controllers. *)

\* Only the parts shown have changed.
OnlyView(g, h) ==
    /\ h \in Systems
    /\ h.vehicle = g.vehicle /\ h.chain = g.chain /\ h.prompt = g.prompt
    /\ h.manager = g.manager /\ h.initial = g.initial

\* Such a change is one of a controller's operations.
LEMMA OnlyViewKeeps ==
    ASSUME NEW g, NEW h, OnlyView(g, h)
    PROVE  Keeps(g, h)
  BY DEF OnlyView, Keeps, SameConnections, Sound, Busy

\* A part of the view that becomes another is such a change.
LEMMA ViewIsOnlyView ==
    ASSUME NEW g, NEW h, NEW p, NEW x, ViewBecomes(g, h, p, x)
    PROVE  OnlyView(g, h)
  BY DEF OnlyView, ViewBecomes

\* Marking the plan changes no items.
LEMMA SetDirtyIs ==
    ASSUME NEW g \in Systems, NEW dirty \in BOOLEAN, NEW h, h = SetDirty(g, dirty)
    PROVE  /\ OnlyView(g, h)
           /\ \A p \in Parts :
                /\ h.view[p].items = g.view[p].items
                /\ h.view[p].requested = g.view[p].requested
                /\ ~dirty => h.view[p].dirty = IF p = "fence" /\ g.view[p].dirty = 2 THEN 1 ELSE 0
  <1> DEFINE New(p) == IF dirty THEN IF g.view[p].dirty = 0 THEN 1 ELSE g.view[p].dirty
                       ELSE IF p = "fence" /\ g.view[p].dirty = 2 THEN 1 ELSE 0
             x == [p \in Parts |-> [g.view[p] EXCEPT !.dirty = New(p)]]
  <1>1. h = [g EXCEPT !.view = x]
    BY DEF SetDirty
  <1>2. \A p \in Parts : g.view[p] \in Views /\ New(p) \in 0..2
    BY ViewFields DEF Views
  <1> HIDE DEF New
  <1>3. \A p \in Parts :
           /\ x[p] \in Views /\ x[p].items = g.view[p].items
           /\ x[p].requested = g.view[p].requested /\ x[p].dirty = New(p)
    BY <1>2 DEF Views
  <1>4. x \in [Parts -> Views]
    BY <1>3
  <1> HIDE DEF x
  <1>5. OnlyView(g, h) /\ h.view = x
    BY <1>1, <1>4 DEF OnlyView, Systems
  <1>6. QED BY <1>3, <1>5 DEF New

\* Marking it as clean leaves no part that a vehicle has yet to be sent.
LEMMA PlanIsCleaned ==
    ASSUME NEW g \in Systems
    PROVE  /\ OnlyView(g, SetDirty(g, FALSE))
           /\ \A p \in Parts :
                /\ SetDirty(g, FALSE).view[p].items = g.view[p].items
                /\ SetDirty(g, FALSE).view[p].requested = g.view[p].requested
                /\ SetDirty(g, FALSE).view[p].dirty =
                     IF p = "fence" /\ g.view[p].dirty = 2 THEN 1 ELSE 0
  <1> DEFINE dirty == FALSE
             h == SetDirty(g, dirty)
  <1>1. dirty \in BOOLEAN /\ ~dirty
    OBVIOUS
  <1> HIDE DEF dirty
  <1>2. /\ OnlyView(g, h)
        /\ \A p \in Parts :
             /\ h.view[p].items = g.view[p].items
             /\ h.view[p].requested = g.view[p].requested
             /\ ~dirty => h.view[p].dirty = IF p = "fence" /\ g.view[p].dirty = 2 THEN 1 ELSE 0
    BY <1>1, SetDirtyIs
  <1>3. QED BY <1>1, <1>2 DEF dirty

\* A part's mark changes alone.
LEMMA DirtyChanges ==
    ASSUME NEW g \in Systems, NEW p \in Parts, NEW n \in 0..2
    PROVE  ViewBecomes(g, [g EXCEPT !.view[p].dirty = n], p, [g.view[p] EXCEPT !.dirty = n])
  <1> DEFINE x == [g.view[p] EXCEPT !.dirty = n]
  <1>1. x \in Views
    BY ViewFields DEF Views
  <1>2. [g EXCEPT !.view[p].dirty = n] = [g EXCEPT !.view[p] = x]
    OBVIOUS
  <1>3. QED BY <1>1, <1>2, ViewChanges

\* Whether the view waits for a part changes alone.
LEMMA RequestedChanges ==
    ASSUME NEW g \in Systems, NEW p \in Parts, NEW b \in BOOLEAN
    PROVE  ViewBecomes(g, [g EXCEPT !.view[p].requested = b], p,
                       [g.view[p] EXCEPT !.requested = b])
  <1> DEFINE x == [g.view[p] EXCEPT !.requested = b]
  <1>1. x \in Views
    BY ViewFields DEF Views
  <1>2. [g EXCEPT !.view[p].requested = b] = [g EXCEPT !.view[p] = x]
    OBVIOUS
  <1>3. QED BY <1>1, <1>2, ViewChanges

\* The items shown of a part change alone.
LEMMA ShownItemsChange ==
    ASSUME NEW g \in Systems, NEW p \in Parts, NEW items \in Plans
    PROVE  ViewBecomes(g, [g EXCEPT !.view[p].items = items], p,
                       [g.view[p] EXCEPT !.items = items])
  <1> DEFINE x == [g.view[p] EXCEPT !.items = items]
  <1>1. x \in Views
    BY ViewFields DEF Views
  <1>2. [g EXCEPT !.view[p].items = items] = [g EXCEPT !.view[p] = x]
    OBVIOUS
  <1>3. QED BY <1>1, <1>2, ViewChanges

\* The flags of the master controller change alone.
LEMMA ChainChanges ==
    ASSUME NEW g \in Systems, NEW x \in SUBSET Chains
    PROVE  LET h == [g EXCEPT !.chain = x] IN
           /\ Keeps(g, h)
           /\ h \in Systems
           /\ h.chain = x /\ h.vehicle = g.vehicle /\ h.prompt = g.prompt
           /\ h.view = g.view /\ h.manager = g.manager /\ h.initial = g.initial
  BY DEF Systems, Keeps, SameConnections, Sound, Busy

\* A part is marked as clean, and no other.
LEMMA SetPartCleanIs ==
    ASSUME NEW g \in Systems, NEW p \in Parts
    PROVE  ViewBecomes(g, SetPartClean(g, p), p,
             [g.view[p] EXCEPT !.dirty = IF p = "fence" /\ g.view[p].dirty = 2 THEN 1 ELSE 0])
  <1> DEFINE n == IF p = "fence" /\ g.view[p].dirty = 2 THEN 1 ELSE 0
  <1>1. n \in 0..2 /\ SetPartClean(g, p) = [g EXCEPT !.view[p].dirty = n]
    BY DEF SetPartClean
  <1>2. ViewBecomes(g, [g EXCEPT !.view[p].dirty = n], p, [g.view[p] EXCEPT !.dirty = n])
    <2> HIDE DEF n
    <2>1. QED BY <1>1, DirtyChanges
  <1>3. QED BY <1>1, <1>2

\* A part is no longer shown, and is to be sent as empty.
LEMMA RemovePartIs ==
    ASSUME NEW g \in Systems, NEW p \in Parts
    PROVE  ViewBecomes(g, RemovePart(g, p), p, [g.view[p] EXCEPT !.items = Empty])
  BY ShownItemsChange DEF RemovePart, Plans

\* A part whose manager has loaded it: it is shown if the view waits for it or is empty.
LEMMA ShowLoadedIs ==
    ASSUME NEW g \in Systems, g.vehicle \in Vehicles, NEW p \in Parts
    PROVE  IF g.view[p].requested \/ g.view[p].items = Empty
             THEN ViewBecomes(g, ShowLoaded(g, p), p,
                    [items |-> g.manager[g.vehicle][p].items, requested |-> FALSE, dirty |-> 0])
             ELSE ShowLoaded(g, p) = g
  <1>1. [items |-> g.manager[g.vehicle][p].items, requested |-> FALSE, dirty |-> 0] \in Views
    BY ManagerFields DEF Views, Managers
  <1>2. QED BY <1>1, ViewChanges DEF ShowLoaded

\* Which is a change of the view.
LEMMA ShowLoadedIsOnlyView ==
    ASSUME NEW g \in Systems, g.vehicle \in Vehicles, NEW p \in Parts
    PROVE  OnlyView(g, ShowLoaded(g, p))
  <1>1. CASE ShowLoaded(g, p) = g
    BY <1>1 DEF OnlyView
  <1>2. CASE ShowLoaded(g, p) # g
    BY <1>2, ShowLoadedIs, ViewIsOnlyView
  <1>3. QED BY <1>1, <1>2

\* The controller of a part asks for it and its manager reads it.
LEMMA LoadPartIs ==
    ASSUME NEW g \in Systems, NEW p \in Parts, NEW h, h = LoadPart(g, p),
           g.vehicle \in Vehicles => Supported(g.vehicle, p)
    PROVE  /\ Keeps(g, h)
           /\ h.vehicle = g.vehicle /\ h.chain = g.chain /\ h.prompt = g.prompt
           /\ h.initial = g.initial
           /\ \A q \in Parts : /\ h.view[q].items = g.view[q].items
                               /\ h.view[q].dirty = g.view[q].dirty
                               /\ q # p => h.view[q] = g.view[q]
           /\ \A w \in Vehicles : w # g.vehicle => h.manager[w] = g.manager[w]
           /\ g.vehicle \in Vehicles =>
                \A q \in Parts : q # p => h.manager[g.vehicle][q] = g.manager[g.vehicle][q]
           /\ g.vehicle \in Vehicles /\ ~Busy(g, g.vehicle, p) =>
                /\ h.manager[g.vehicle][p].transaction = "Read"
                /\ h.view[p].requested
  <1>1. CASE g.vehicle = Offline \/ Busy(g, g.vehicle, p)
    BY <1>1, KeepsItself, PlanMasterAssumption DEF LoadPart
  <1>2. CASE g.vehicle # Offline /\ ~Busy(g, g.vehicle, p)
    <2> DEFINE a == [g EXCEPT !.view[p].requested = TRUE]
    <2>1. ViewBecomes(g, a, p, [g.view[p] EXCEPT !.requested = TRUE])
      BY RequestedChanges
    <2>2. h = LoadFromVehicle(a, g.vehicle, p)
      BY <1>2 DEF LoadPart
    <2>3. g.vehicle \in Vehicles /\ g.view[p] \in Views
      BY <1>2, ViewFields, SystemFields
    <2> HIDE DEF a
    <2>4. OnlyView(g, a)
      BY <2>1, ViewIsOnlyView
    <2>5. a \in Systems /\ ~Busy(a, g.vehicle, p)
      BY <1>2, <2>4 DEF OnlyView, Busy
    <2>6. ManagerBecomes(a, h, g.vehicle, p,
                         [a.manager[g.vehicle][p] EXCEPT !.transaction = "Read"])
      BY <2>2, <2>3, <2>5, LoadIs
    <2>7. Keeps(g, a) /\ Keeps(a, h)
      BY <2>2, <2>3, <2>4, <2>5, OnlyViewKeeps, LoadKeeps
    <2>8. Keeps(g, h)
      BY <2>7, KeepsTwice
    <2>9. g.manager[g.vehicle][p] \in Managers
      BY <2>3, ManagerFields
    <2>10. h.view = a.view /\ h.manager[g.vehicle][p].transaction = "Read"
      BY <2>4, <2>6, <2>9 DEF OnlyView, ManagerBecomes, Managers
    <2>11. \A q \in Parts : /\ h.view[q].items = g.view[q].items
                            /\ h.view[q].dirty = g.view[q].dirty
                            /\ q # p => h.view[q] = g.view[q]
      BY <2>1, <2>3, <2>10 DEF ViewBecomes, Views
    <2>12. h.view[p].requested
      BY <2>1, <2>3, <2>10 DEF ViewBecomes, Views
    <2>13. QED BY <2>4, <2>6, <2>8, <2>10, <2>11, <2>12 DEF OnlyView, ManagerBecomes
  <1>3. QED BY <1>1, <1>2

\* The manager of a part writes what is shown, and the part is marked as clean.
LEMMA SendPartIs ==
    ASSUME NEW g \in Systems, NEW p \in Parts, NEW h, h = SendPart(g, p),
           g.vehicle \in Vehicles => Supported(g.vehicle, p)
    PROVE  /\ Keeps(g, h)
           /\ h.vehicle = g.vehicle /\ h.chain = g.chain /\ h.prompt = g.prompt
           /\ h.initial = g.initial
           /\ \A q \in Parts : /\ h.view[q].items = g.view[q].items
                               /\ q # p => h.view[q] = g.view[q]
           /\ \A w \in Vehicles : w # g.vehicle => h.manager[w] = g.manager[w]
           /\ g.vehicle \in Vehicles =>
                \A q \in Parts : q # p => h.manager[g.vehicle][q] = g.manager[g.vehicle][q]
           /\ g.vehicle \in Vehicles /\ ~Busy(g, g.vehicle, p) =>
                /\ h.manager[g.vehicle][p].transaction = "Write"
                /\ h.manager[g.vehicle][p].sending = g.view[p].items
                /\ h.view[p].dirty = IF p = "fence" /\ g.view[p].dirty = 2 THEN 1 ELSE 0
  <1>1. CASE g.vehicle = Offline \/ Busy(g, g.vehicle, p)
    BY <1>1, KeepsItself, PlanMasterAssumption DEF SendPart
  <1>2. CASE g.vehicle # Offline /\ ~Busy(g, g.vehicle, p)
    <2> DEFINE a == WriteItems(g, g.vehicle, p, g.view[p].items)
               m == [g.manager[g.vehicle][p] EXCEPT !.transaction = "Write",
                                                    !.sending = g.view[p].items]
               n == IF p = "fence" /\ g.view[p].dirty = 2 THEN 1 ELSE 0
    <2>1. g.vehicle \in Vehicles /\ g.view[p] \in Views /\ g.view[p].items \in Plans
      BY <1>2, ViewFields, SystemFields DEF Views
    <2>2. h = SetPartClean(a, p)
      BY <1>2 DEF SendPart
    <2>3. ManagerBecomes(g, a, g.vehicle, p, m)
      BY <1>2, <2>1, WriteIs
    <2>4. Keeps(g, a)
      BY <2>1, WriteKeeps
    <2> HIDE DEF a
    <2>5. a \in Systems /\ a.view = g.view
      BY <2>3 DEF ManagerBecomes
    <2>6. ViewBecomes(a, h, p, [g.view[p] EXCEPT !.dirty = n])
      BY <2>2, <2>5, SetPartCleanIs
    <2>7. OnlyView(a, h)
      BY <2>6, ViewIsOnlyView
    <2>8. Keeps(g, h)
      BY <2>4, <2>7, OnlyViewKeeps, KeepsTwice
    <2>9. g.manager[g.vehicle][p] \in Managers
      BY <2>1, ManagerFields
    <2>10. m.transaction = "Write" /\ m.sending = g.view[p].items
      BY <2>9 DEF Managers
    <2> HIDE DEF m
    <2>11. \A q \in Parts : /\ h.view[q].items = g.view[q].items
                            /\ q # p => h.view[q] = g.view[q]
      BY <2>1, <2>5, <2>6 DEF ViewBecomes, Views
    <2>12. h.view[p].dirty = n
      BY <2>1, <2>6 DEF ViewBecomes, Views
    <2>13. QED BY <2>3, <2>7, <2>8, <2>10, <2>11, <2>12 DEF OnlyView, ManagerBecomes
  <1>3. QED BY <1>1, <1>2

-----------------------------------------------------------------------------
(* The slots that sequence the parts. *)

\* Nothing but the plan shown and the managers of the active vehicle has changed.
Frame(g, h) ==
    /\ Keeps(g, h)
    /\ h.vehicle = g.vehicle /\ h.prompt = g.prompt
    /\ \A w \in Vehicles : w # g.vehicle => h.manager[w] = g.manager[w]

\* Two slots in a row are one.
LEMMA FrameTwice ==
    ASSUME NEW g, NEW h, NEW k, Frame(g, h), Frame(h, k)
    PROVE  Frame(g, k)
  <1>1. Keeps(g, k)
    BY KeepsTwice DEF Frame
  <1>2. QED BY <1>1 DEF Frame

\* A slot that does nothing is one.
LEMMA FrameItself == ASSUME NEW g \in Systems PROVE Frame(g, g)
  BY KeepsItself DEF Frame

\* A change of the view is one.
LEMMA OnlyViewIsFrame ==
    ASSUME NEW g, NEW h, OnlyView(g, h)
    PROVE  Frame(g, h)
  BY OnlyViewKeeps DEF Frame, OnlyView

\* The three parts.
LEMMA PartsAre ==
    /\ Parts = {"mission", "fence", "rally"}
    /\ {"mission", "fence", "rally"} \subseteq Parts
    /\ \A v : Supported(v, "mission")
    /\ \A v : Supported(v, "fence") <=> v \in Capable
    /\ \A v : Supported(v, "rally") <=> v \in Capable
  BY DEF Parts, Supported

\* The fence has been loaded: if the chain says so, the rally points are next, unless the
\* vehicle does not support them.
LEMMA LoadGeoFenceCompleteIs ==
    ASSUME NEW g \in Systems, g.vehicle \in Vehicles, NEW h, h = LoadGeoFenceComplete(g)
    PROVE  /\ Frame(g, h)
           /\ "loadRallyPoints" \notin g.chain => h = g
           /\ "loadRallyPoints" \in g.chain =>
                /\ \A q \in {"mission", "fence"} :
                     /\ h.manager[g.vehicle][q] = g.manager[g.vehicle][q]
                     /\ h.view[q].items = g.view[q].items
                     /\ h.view[q].requested = g.view[q].requested
                     /\ h.view[q].dirty = IF q = "fence" /\ g.view[q].dirty = 2 THEN 1 ELSE 0
                /\ h.view["rally"].dirty = 0
                /\ g.vehicle \in Capable /\ ~Busy(g, g.vehicle, "rally") =>
                     /\ h.manager[g.vehicle]["rally"].transaction = "Read"
                     /\ h.view["rally"].requested
                /\ g.vehicle \notin Capable =>
                     /\ h.manager = g.manager
                     /\ h.view["rally"].items = Empty
  <1> USE PartsAre
  <1>1. CASE "loadRallyPoints" \notin g.chain
    BY <1>1, FrameItself DEF LoadGeoFenceComplete
  <1>2. CASE "loadRallyPoints" \in g.chain
    <2> DEFINE x == g.chain \ {"loadRallyPoints"}
               a == [g EXCEPT !.chain = x]
               b == IF Supported(g.vehicle, "rally") THEN LoadPart(a, "rally")
                    ELSE RemovePart(a, "rally")
    <2>1. x \in SUBSET Chains
      BY SystemFields
    <2>2. /\ Keeps(g, a) /\ a \in Systems
          /\ a.chain = x /\ a.vehicle = g.vehicle /\ a.prompt = g.prompt
          /\ a.view = g.view /\ a.manager = g.manager /\ a.initial = g.initial
      BY <2>1, ChainChanges
    <2>3. h = SetDirty(b, FALSE)
      BY <1>2, <2>2 DEF LoadGeoFenceComplete
    <2> HIDE DEF a
    <2>4. Frame(g, a)
      BY <2>2 DEF Frame
    <2>5. CASE g.vehicle \in Capable
      <3>1. b = LoadPart(a, "rally") /\ Supported(a.vehicle, "rally")
        BY <2>2, <2>5
      <3> HIDE DEF b
      <3>2. /\ Keeps(a, b)
            /\ b.vehicle = a.vehicle /\ b.prompt = a.prompt
            /\ \A q \in Parts : /\ b.view[q].items = a.view[q].items
                                /\ b.view[q].dirty = a.view[q].dirty
                                /\ q # "rally" => b.view[q] = a.view[q]
            /\ \A w \in Vehicles : w # a.vehicle => b.manager[w] = a.manager[w]
            /\ \A q \in Parts : q # "rally" => b.manager[a.vehicle][q] = a.manager[a.vehicle][q]
            /\ ~Busy(a, a.vehicle, "rally") =>
                 /\ b.manager[a.vehicle]["rally"].transaction = "Read"
                 /\ b.view["rally"].requested
        BY <2>2, <3>1, LoadPartIs
      <3>3. Frame(a, b) /\ b \in Systems
        BY <3>2 DEF Frame, Keeps
      <3>4. /\ OnlyView(b, h)
            /\ \A p \in Parts :
                 /\ h.view[p].items = b.view[p].items
                 /\ h.view[p].requested = b.view[p].requested
                 /\ h.view[p].dirty = IF p = "fence" /\ b.view[p].dirty = 2 THEN 1 ELSE 0
        <4>1. b \in Systems
          BY <3>3
        <4>2. QED BY ONLY <4>1, <2>3, PlanIsCleaned
      <3>5. Frame(g, h)
        BY <2>4, <3>3, <3>4, FrameTwice, OnlyViewIsFrame
      <3>6. h.manager = b.manager
        BY <3>4 DEF OnlyView
      <3>7. Busy(a, a.vehicle, "rally") <=> Busy(g, g.vehicle, "rally")
        BY <2>2 DEF Busy
      <3>8. QED BY <1>2, <2>2, <2>5, <3>2, <3>4, <3>5, <3>6, <3>7
    <2>6. CASE g.vehicle \notin Capable
      <3>1. b = RemovePart(a, "rally")
        BY <2>2, <2>6
      <3> HIDE DEF b
      <3>2. ViewBecomes(a, b, "rally", [a.view["rally"] EXCEPT !.items = Empty])
        BY <2>2, <3>1, RemovePartIs
      <3>3. OnlyView(a, b) /\ b \in Systems /\ a.view["rally"] \in Views
        <4>1. OnlyView(a, b)
          BY <3>2, ViewIsOnlyView
        <4>2. a.view["rally"] \in Views
          BY <2>2, ViewFields
        <4>3. QED BY <4>1, <4>2 DEF OnlyView
      <3>4. /\ OnlyView(b, h)
            /\ \A p \in Parts :
                 /\ h.view[p].items = b.view[p].items
                 /\ h.view[p].requested = b.view[p].requested
                 /\ h.view[p].dirty = IF p = "fence" /\ b.view[p].dirty = 2 THEN 1 ELSE 0
        <4>1. b \in Systems
          BY <3>3
        <4>2. QED BY ONLY <4>1, <2>3, PlanIsCleaned
      <3>5. Frame(g, h)
        BY <2>4, <3>3, <3>4, FrameTwice, OnlyViewIsFrame
      <3>6. h.manager = g.manager
        BY <2>2, <3>3, <3>4 DEF OnlyView
      <3>7. b.view["rally"].items = Empty /\ \A q \in {"mission", "fence"} : b.view[q] = g.view[q]
        BY <2>2, <3>2, <3>3 DEF ViewBecomes, Views
      <3>8. QED BY <1>2, <2>6, <3>4, <3>5, <3>6, <3>7
    <2>7. QED BY <2>5, <2>6
  <1>3. QED BY <1>1, <1>2

\* The mission has been loaded: if the chain says so, the fence is next, unless the vehicle
\* supports neither it nor rally points.
LEMMA LoadMissionCompleteIs ==
    ASSUME NEW g \in Systems, g.vehicle \in Vehicles, NEW h, h = LoadMissionComplete(g)
    PROVE  /\ Frame(g, h)
           /\ "loadGeoFence" \notin g.chain => h = g
           /\ "loadGeoFence" \in g.chain =>
                /\ h.manager[g.vehicle]["mission"] = g.manager[g.vehicle]["mission"]
                /\ h.view["mission"].items = g.view["mission"].items
                /\ h.view["mission"].requested = g.view["mission"].requested
                /\ h.view["mission"].dirty = 0
                /\ g.vehicle \in Capable =>
                     /\ "loadRallyPoints" \in h.chain
                     /\ h.manager[g.vehicle]["rally"] = g.manager[g.vehicle]["rally"]
                     /\ ~Busy(g, g.vehicle, "fence") =>
                          /\ h.manager[g.vehicle]["fence"].transaction = "Read"
                          /\ h.view["fence"].requested
                /\ g.vehicle \notin Capable =>
                     /\ h.manager = g.manager
                     /\ \A q \in {"fence", "rally"} :
                          h.view[q].items = Empty /\ h.view[q].dirty = 0
  <1> USE PartsAre
  <1>1. CASE "loadGeoFence" \notin g.chain
    BY <1>1, FrameItself DEF LoadMissionComplete
  <1>2. CASE "loadGeoFence" \in g.chain
    <2> DEFINE x == (g.chain \ {"loadGeoFence"}) \cup {"loadRallyPoints"}
               a == [g EXCEPT !.chain = x]
               b == IF Supported(g.vehicle, "fence") THEN LoadPart(a, "fence")
                    ELSE LoadGeoFenceComplete(RemovePart(a, "fence"))
    <2>1. x \in SUBSET Chains
      BY SystemFields DEF Chains
    <2>2. /\ Keeps(g, a) /\ a \in Systems
          /\ a.chain = x /\ a.vehicle = g.vehicle /\ a.prompt = g.prompt
          /\ a.view = g.view /\ a.manager = g.manager /\ a.initial = g.initial
      BY <2>1, ChainChanges
    <2>3. h = SetDirty(b, FALSE)
      BY <1>2, <2>2 DEF LoadMissionComplete
    <2> HIDE DEF a
    <2>4. Frame(g, a)
      BY <2>2 DEF Frame
    <2>5. CASE g.vehicle \in Capable
      <3>1. b = LoadPart(a, "fence") /\ Supported(a.vehicle, "fence")
        BY <2>2, <2>5
      <3> HIDE DEF b
      <3>2. /\ Keeps(a, b)
            /\ b.vehicle = a.vehicle /\ b.prompt = a.prompt /\ b.chain = a.chain
            /\ \A q \in Parts : /\ b.view[q].items = a.view[q].items
                                /\ b.view[q].dirty = a.view[q].dirty
                                /\ q # "fence" => b.view[q] = a.view[q]
            /\ \A w \in Vehicles : w # a.vehicle => b.manager[w] = a.manager[w]
            /\ \A q \in Parts : q # "fence" => b.manager[a.vehicle][q] = a.manager[a.vehicle][q]
            /\ ~Busy(a, a.vehicle, "fence") =>
                 /\ b.manager[a.vehicle]["fence"].transaction = "Read"
                 /\ b.view["fence"].requested
        BY <2>2, <3>1, LoadPartIs
      <3>3. Frame(a, b) /\ b \in Systems
        BY <3>2 DEF Frame, Keeps
      <3>4. /\ OnlyView(b, h)
            /\ \A p \in Parts :
                 /\ h.view[p].items = b.view[p].items
                 /\ h.view[p].requested = b.view[p].requested
                 /\ h.view[p].dirty = IF p = "fence" /\ b.view[p].dirty = 2 THEN 1 ELSE 0
        <4>1. b \in Systems
          BY <3>3
        <4>2. QED BY ONLY <4>1, <2>3, PlanIsCleaned
      <3>5. Frame(g, h)
        BY <2>4, <3>3, <3>4, FrameTwice, OnlyViewIsFrame
      <3>6. h.manager = b.manager /\ h.chain = b.chain
        BY <3>4 DEF OnlyView
      <3>7. Busy(a, a.vehicle, "fence") <=> Busy(g, g.vehicle, "fence")
        BY <2>2 DEF Busy
      <3>8. "loadRallyPoints" \in h.chain
        BY <2>2, <3>2, <3>6
      <3>9. QED BY <1>2, <2>2, <2>5, <3>2, <3>4, <3>5, <3>6, <3>7, <3>8
    <2>6. CASE g.vehicle \notin Capable
      <3> DEFINE d == RemovePart(a, "fence")
      <3>1. b = LoadGeoFenceComplete(d)
        BY <2>2, <2>6
      <3>2. ViewBecomes(a, d, "fence", [a.view["fence"] EXCEPT !.items = Empty])
        BY <2>2, RemovePartIs
      <3> HIDE DEF b, d
      <3>3. OnlyView(a, d) /\ d \in Systems /\ a.view["fence"] \in Views
        <4>1. OnlyView(a, d)
          BY <3>2, ViewIsOnlyView
        <4>2. a.view["fence"] \in Views
          BY <2>2, ViewFields
        <4>3. QED BY <4>1, <4>2 DEF OnlyView
      <3>4. d.vehicle = g.vehicle /\ d.manager = g.manager /\ "loadRallyPoints" \in d.chain
        BY <2>2, <3>3 DEF OnlyView
      <3>5. d.view["fence"].items = Empty /\ d.view["mission"] = g.view["mission"]
        BY <2>2, <3>2, <3>3 DEF ViewBecomes, Views
      <3>6. /\ Frame(d, b)
            /\ \A q \in {"mission", "fence"} :
                 /\ b.view[q].items = d.view[q].items
                 /\ b.view[q].requested = d.view[q].requested
                 /\ b.view[q].dirty = IF q = "fence" /\ d.view[q].dirty = 2 THEN 1 ELSE 0
            /\ b.view["rally"].dirty = 0
            /\ b.manager = d.manager
            /\ b.view["rally"].items = Empty
        BY <2>6, <3>1, <3>3, <3>4, LoadGeoFenceCompleteIs
      <3>7. b \in Systems
        BY <3>6 DEF Frame, Keeps
      <3>8. /\ OnlyView(b, h)
            /\ \A p \in Parts :
                 /\ h.view[p].items = b.view[p].items
                 /\ h.view[p].requested = b.view[p].requested
                 /\ h.view[p].dirty = IF p = "fence" /\ b.view[p].dirty = 2 THEN 1 ELSE 0
        <4>1. b \in Systems
          BY <3>7
        <4>2. QED BY ONLY <4>1, <2>3, PlanIsCleaned
      <3>9. Frame(g, h)
        BY <2>4, <3>3, <3>6, <3>8, FrameTwice, OnlyViewIsFrame
      <3>10. h.manager = g.manager
        BY <3>4, <3>6, <3>8 DEF OnlyView
      <3>11. QED BY <1>2, <2>6, <3>5, <3>6, <3>8, <3>9, <3>10
    <2>7. QED BY <2>5, <2>6
  <1>3. QED BY <1>1, <1>2

\* The fence has been sent: if the chain says so, the rally points are next, likewise.
LEMMA SendGeoFenceCompleteIs ==
    ASSUME NEW g \in Systems, g.vehicle \in Vehicles, NEW h, h = SendGeoFenceComplete(g)
    PROVE  /\ Frame(g, h)
           /\ "sendRallyPoints" \notin g.chain => h = g
           /\ "sendRallyPoints" \in g.chain =>
                /\ \A q \in {"mission", "fence"} :
                     /\ h.manager[g.vehicle][q] = g.manager[g.vehicle][q]
                     /\ h.view[q] = g.view[q]
                /\ h.view["rally"].items = g.view["rally"].items
                /\ g.vehicle \in Capable /\ ~Busy(g, g.vehicle, "rally") =>
                     /\ h.manager[g.vehicle]["rally"].transaction = "Write"
                     /\ h.manager[g.vehicle]["rally"].sending = g.view["rally"].items
                     /\ h.view["rally"].dirty = 0
                /\ g.vehicle \notin Capable => h.manager = g.manager /\ h.view = g.view
  <1> USE PartsAre
  <1>1. CASE "sendRallyPoints" \notin g.chain
    BY <1>1, FrameItself DEF SendGeoFenceComplete
  <1>2. CASE "sendRallyPoints" \in g.chain
    <2> DEFINE x == g.chain \ {"sendRallyPoints"}
               a == [g EXCEPT !.chain = x]
    <2>1. x \in SUBSET Chains
      BY SystemFields
    <2>2. /\ Keeps(g, a) /\ a \in Systems
          /\ a.chain = x /\ a.vehicle = g.vehicle /\ a.prompt = g.prompt
          /\ a.view = g.view /\ a.manager = g.manager /\ a.initial = g.initial
      BY <2>1, ChainChanges
    <2>3. h = IF Supported(g.vehicle, "rally") THEN SendPart(a, "rally") ELSE a
      BY <1>2, <2>2 DEF SendGeoFenceComplete
    <2> HIDE DEF a
    <2>4. Frame(g, a)
      BY <2>2 DEF Frame
    <2>5. CASE g.vehicle \in Capable
      <3>1. h = SendPart(a, "rally") /\ Supported(a.vehicle, "rally")
        BY <2>2, <2>3, <2>5
      <3>2. /\ Keeps(a, h)
            /\ h.vehicle = a.vehicle /\ h.prompt = a.prompt
            /\ \A q \in Parts : /\ h.view[q].items = a.view[q].items
                                /\ q # "rally" => h.view[q] = a.view[q]
            /\ \A w \in Vehicles : w # a.vehicle => h.manager[w] = a.manager[w]
            /\ \A q \in Parts : q # "rally" => h.manager[a.vehicle][q] = a.manager[a.vehicle][q]
            /\ ~Busy(a, a.vehicle, "rally") =>
                 /\ h.manager[a.vehicle]["rally"].transaction = "Write"
                 /\ h.manager[a.vehicle]["rally"].sending = a.view["rally"].items
                 /\ h.view["rally"].dirty = 0
        BY <2>2, <3>1, SendPartIs
      <3>3. Frame(g, h)
        BY <2>4, <3>2, FrameTwice DEF Frame
      <3>4. Busy(a, a.vehicle, "rally") <=> Busy(g, g.vehicle, "rally")
        BY <2>2 DEF Busy
      <3>5. QED BY <1>2, <2>2, <2>5, <3>2, <3>3, <3>4
    <2>6. CASE g.vehicle \notin Capable
      BY <1>2, <2>2, <2>3, <2>4, <2>6
    <2>7. QED BY <2>5, <2>6
  <1>3. QED BY <1>1, <1>2

\* The mission has been sent: if the chain says so, the fence is next, likewise.
LEMMA SendMissionCompleteIs ==
    ASSUME NEW g \in Systems, g.vehicle \in Vehicles, NEW h, h = SendMissionComplete(g)
    PROVE  /\ Frame(g, h)
           /\ "sendGeoFence" \notin g.chain => h = g
           /\ "sendGeoFence" \in g.chain =>
                /\ h.manager[g.vehicle]["mission"] = g.manager[g.vehicle]["mission"]
                /\ \A q \in Parts : h.view[q].items = g.view[q].items
                /\ h.view["mission"].dirty = 0 /\ h.view["rally"].dirty = 0
                /\ g.vehicle \in Capable =>
                     /\ "sendRallyPoints" \in h.chain
                     /\ h.manager[g.vehicle]["rally"] = g.manager[g.vehicle]["rally"]
                     /\ ~Busy(g, g.vehicle, "fence") =>
                          /\ h.manager[g.vehicle]["fence"].transaction = "Write"
                          /\ h.manager[g.vehicle]["fence"].sending = g.view["fence"].items
                          /\ h.view["fence"].dirty = 0
                /\ g.vehicle \notin Capable =>
                     /\ h.manager = g.manager
                     /\ g.view["fence"].dirty < 2 => h.view["fence"].dirty = 0
  <1> USE PartsAre
  <1>1. CASE "sendGeoFence" \notin g.chain
    BY <1>1, FrameItself DEF SendMissionComplete
  <1>2. CASE "sendGeoFence" \in g.chain
    <2> DEFINE x == (g.chain \ {"sendGeoFence"}) \cup {"sendRallyPoints"}
               a == [g EXCEPT !.chain = x]
               b == IF Supported(g.vehicle, "fence") THEN SendPart(a, "fence")
                    ELSE SendGeoFenceComplete(a)
    <2>1. x \in SUBSET Chains
      BY SystemFields DEF Chains
    <2>2. /\ Keeps(g, a) /\ a \in Systems
          /\ a.chain = x /\ a.vehicle = g.vehicle /\ a.prompt = g.prompt
          /\ a.view = g.view /\ a.manager = g.manager /\ a.initial = g.initial
      BY <2>1, ChainChanges
    <2>3. h = SetDirty(b, FALSE)
      BY <1>2, <2>2 DEF SendMissionComplete
    <2> HIDE DEF a
    <2>4. Frame(g, a)
      BY <2>2 DEF Frame
    <2>5. CASE g.vehicle \in Capable
      <3>1. b = SendPart(a, "fence") /\ Supported(a.vehicle, "fence")
        BY <2>2, <2>5
      <3> HIDE DEF b
      <3>2. /\ Keeps(a, b)
            /\ b.vehicle = a.vehicle /\ b.prompt = a.prompt /\ b.chain = a.chain
            /\ \A q \in Parts : /\ b.view[q].items = a.view[q].items
                                /\ q # "fence" => b.view[q] = a.view[q]
            /\ \A w \in Vehicles : w # a.vehicle => b.manager[w] = a.manager[w]
            /\ \A q \in Parts : q # "fence" => b.manager[a.vehicle][q] = a.manager[a.vehicle][q]
            /\ ~Busy(a, a.vehicle, "fence") =>
                 /\ b.manager[a.vehicle]["fence"].transaction = "Write"
                 /\ b.manager[a.vehicle]["fence"].sending = a.view["fence"].items
                 /\ b.view["fence"].dirty = IF a.view["fence"].dirty = 2 THEN 1 ELSE 0
        BY <2>2, <3>1, SendPartIs
      <3>3. Frame(a, b) /\ b \in Systems
        BY <3>2 DEF Frame, Keeps
      <3>4. /\ OnlyView(b, h)
            /\ \A p \in Parts :
                 /\ h.view[p].items = b.view[p].items
                 /\ h.view[p].requested = b.view[p].requested
                 /\ h.view[p].dirty = IF p = "fence" /\ b.view[p].dirty = 2 THEN 1 ELSE 0
        <4>1. b \in Systems
          BY <3>3
        <4>2. QED BY ONLY <4>1, <2>3, PlanIsCleaned
      <3>5. Frame(g, h)
        BY <2>4, <3>3, <3>4, FrameTwice, OnlyViewIsFrame
      <3>6. h.manager = b.manager /\ h.chain = b.chain
        BY <3>4 DEF OnlyView
      <3>7. Busy(a, a.vehicle, "fence") <=> Busy(g, g.vehicle, "fence")
        BY <2>2 DEF Busy
      <3>8. "sendRallyPoints" \in h.chain
        BY <2>2, <3>2, <3>6
      <3>9. QED BY <1>2, <2>2, <2>5, <3>2, <3>4, <3>5, <3>6, <3>7, <3>8
    <2>6. CASE g.vehicle \notin Capable
      <3>1. b = SendGeoFenceComplete(a) /\ "sendRallyPoints" \in a.chain
        BY <2>2, <2>6
      <3> HIDE DEF b
      <3>2. Frame(a, b) /\ b.manager = a.manager /\ b.view = a.view
        BY <2>2, <2>6, <3>1, SendGeoFenceCompleteIs
      <3>3. b \in Systems
        BY <3>2 DEF Frame, Keeps
      <3>4. /\ OnlyView(b, h)
            /\ \A p \in Parts :
                 /\ h.view[p].items = b.view[p].items
                 /\ h.view[p].requested = b.view[p].requested
                 /\ h.view[p].dirty = IF p = "fence" /\ b.view[p].dirty = 2 THEN 1 ELSE 0
        <4>1. b \in Systems
          BY <3>3
        <4>2. QED BY ONLY <4>1, <2>3, PlanIsCleaned
      <3>5. Frame(g, h)
        BY <2>4, <3>2, <3>4, FrameTwice, OnlyViewIsFrame
      <3>6. h.manager = g.manager
        BY <2>2, <3>2, <3>4 DEF OnlyView
      <3>7. g.view["fence"].dirty < 2 => g.view["fence"].dirty # 2
        OBVIOUS
      <3>8. QED BY <1>2, <2>2, <2>6, <3>2, <3>4, <3>5, <3>6, <3>7
    <2>7. QED BY <2>5, <2>6
  <1>3. QED BY <1>1, <1>2

\* Whatever the flags, a slot of the master controller leaves the rest alone.
LEMMA CompletionsAreFrames ==
    ASSUME NEW g \in Systems, g.vehicle \in Vehicles, NEW p \in Parts
    PROVE  Frame(g, LoadComplete(g, p)) /\ Frame(g, SendComplete(g, p))
  <1>1. LoadComplete(g, p) \in {g, LoadMissionComplete(g), LoadGeoFenceComplete(g)}
    BY PartsAre DEF LoadComplete
  <1>2. SendComplete(g, p) \in {g, SendMissionComplete(g), SendGeoFenceComplete(g)}
    BY PartsAre DEF SendComplete
  <1>3. Frame(g, LoadMissionComplete(g)) /\ Frame(g, LoadGeoFenceComplete(g))
    BY LoadMissionCompleteIs, LoadGeoFenceCompleteIs
  <1>4. Frame(g, SendMissionComplete(g)) /\ Frame(g, SendGeoFenceComplete(g))
    BY SendMissionCompleteIs, SendGeoFenceCompleteIs
  <1>5. QED BY <1>1, <1>2, <1>3, <1>4, FrameItself

-----------------------------------------------------------------------------
(* The plan of a vehicle is shown. *)

\* Only the parts shown have changed, and whose initial plan request is over.
Showing(g, h) ==
    /\ Keeps(g, h)
    /\ h.vehicle = g.vehicle /\ h.chain = g.chain /\ h.prompt = g.prompt
    /\ h.manager = g.manager

\* Two such changes are one.
LEMMA ShowingTwice ==
    ASSUME NEW g, NEW h, NEW k, Showing(g, h), Showing(h, k)
    PROVE  Showing(g, k)
  <1>1. Keeps(g, k)
    BY KeepsTwice DEF Showing
  <1>2. QED BY <1>1 DEF Showing

\* A change of the view is one.
LEMMA OnlyViewIsShowing ==
    ASSUME NEW g, NEW h, OnlyView(g, h)
    PROVE  Showing(g, h)
  BY OnlyViewKeeps DEF Showing, OnlyView

\* A part of a vehicle is shown unless the view has to wait for it.
LEMMA ShowPartIs ==
    ASSUME NEW g \in Systems, NEW p \in Parts, NEW h, h = ShowPart(g, p)
    PROVE  /\ Showing(g, h)
           /\ \A q \in Parts : q # p => h.view[q] = g.view[q]
           /\ ~Waits(g, p) => h.view[p].items = g.manager[g.vehicle][p].items
  <1> DEFINE asked == IF p = "fence" /\ g.vehicle # Offline
                        THEN [g EXCEPT !.view[p].requested = TRUE] ELSE g
             a == [g EXCEPT !.view[p].requested = TRUE]
  <1>1. ViewBecomes(g, a, p, [g.view[p] EXCEPT !.requested = TRUE])
    BY RequestedChanges
  <1>2. h = IF Waits(g, p) THEN asked ELSE ShowLoaded(a, p)
    BY DEF ShowPart
  <1>3. OnlyView(g, a)
    BY <1>1, ViewIsOnlyView
  <1>4. Waits(g, p) => h \in {g, a}
    BY <1>2
  <1> HIDE DEF a
  <1>5. CASE Waits(g, p)
    <2>1. OnlyView(g, h)
      BY <1>3, <1>4, <1>5 DEF OnlyView
    <2>2. \A q \in Parts : q # p => h.view[q] = g.view[q]
      BY <1>1, <1>4, <1>5 DEF ViewBecomes
    <2>3. QED BY <1>5, <2>1, <2>2, OnlyViewIsShowing
  <1>6. CASE ~Waits(g, p)
    <2>1. g.vehicle \in Vehicles /\ g.view[p] \in Views
      BY <1>6, SystemFields, ViewFields DEF Waits
    <2>2. a \in Systems /\ a.vehicle \in Vehicles /\ a.view[p].requested
      BY <1>1, <1>3, <2>1 DEF OnlyView, ViewBecomes, Views
    <2>3. h = ShowLoaded(a, p)
      BY <1>2, <1>6
    <2>4. ViewBecomes(a, h, p,
            [items |-> a.manager[a.vehicle][p].items, requested |-> FALSE, dirty |-> 0])
      BY <2>2, <2>3, ShowLoadedIs
    <2>5. OnlyView(a, h)
      BY <2>4, ViewIsOnlyView
    <2>6. Showing(g, h)
      BY <1>3, <2>5, OnlyViewIsShowing, ShowingTwice
    <2>7. QED BY <1>1, <1>3, <1>6, <2>4, <2>6 DEF OnlyView, ViewBecomes
  <1>7. QED BY <1>5, <1>6

\* The whole plan of a vehicle is shown when its managers are idle and its own plan is loaded.
LEMMA ShowPlanIs ==
    ASSUME NEW g \in Systems, NEW h, h = ShowPlan(g)
    PROVE  /\ Showing(g, h)
           /\ g.vehicle \in Vehicles /\ g.initial[g.vehicle].planComplete
                /\ (\A p \in Parts : ~Busy(g, g.vehicle, p)) =>
                \A p \in Parts : h.view[p].items = g.manager[g.vehicle][p].items
  <1> USE PartsAre
  <1> DEFINE forced == IF g.vehicle # Offline /\ ~SyncInProgress(g)
                         THEN [g EXCEPT !.initial[g.vehicle].planComplete = TRUE] ELSE g
             mission == ShowPart(forced, "mission")
             fence == ShowPart(mission, "fence")
             rally == ShowPart(fence, "rally")
  <1>1. h = IF Waits(forced, "mission") THEN mission
            ELSE IF Waits(mission, "fence") THEN fence ELSE rally
    BY DEF ShowPlan
  <1>2. Showing(g, forced) /\ forced \in Systems
    <2>1. CASE g.vehicle # Offline /\ ~SyncInProgress(g)
      <3> DEFINE v == g.vehicle
      <3>1. v \in Vehicles /\ forced = [g EXCEPT !.initial[v].planComplete = TRUE]
        BY <2>1, SystemFields
      <3> HIDE DEF forced
      <3>2. ConnectionBecomes(g, forced, v, [g.initial[v] EXCEPT !.planComplete = TRUE])
        BY <3>1, PlanCompleteChanges
      <3>3. g.initial[v] \in Connections
        BY <3>1, ConnectionFields
      <3>4. SameConnections(g, forced)
        BY <3>2, <3>3 DEF ConnectionBecomes, SameConnections, Connections
      <3>5. QED BY <3>2, <3>4 DEF ConnectionBecomes, Showing, Keeps, Sound, Busy
    <2>2. CASE ~(g.vehicle # Offline /\ ~SyncInProgress(g))
      BY <2>2, KeepsItself DEF Showing
    <2>3. QED BY <2>1, <2>2
  <1> HIDE DEF forced
  <1>3. /\ Showing(forced, mission)
        /\ ~Waits(forced, "mission") =>
             mission.view["mission"].items = forced.manager[forced.vehicle]["mission"].items
    BY <1>2, ShowPartIs
  <1>4. mission \in Systems
    BY <1>3 DEF Showing, Keeps
  <1> HIDE DEF mission
  <1>5. /\ Showing(mission, fence)
        /\ fence.view["mission"] = mission.view["mission"]
        /\ ~Waits(mission, "fence") =>
             fence.view["fence"].items = mission.manager[mission.vehicle]["fence"].items
    BY <1>4, ShowPartIs
  <1>6. fence \in Systems
    BY <1>5 DEF Showing, Keeps
  <1> HIDE DEF fence
  <1>7. /\ Showing(fence, rally)
        /\ rally.view["mission"] = fence.view["mission"] /\ rally.view["fence"] = fence.view["fence"]
        /\ ~Waits(fence, "rally") =>
             rally.view["rally"].items = fence.manager[fence.vehicle]["rally"].items
    BY <1>6, ShowPartIs
  <1> HIDE DEF rally
  <1>8. Showing(g, mission) /\ Showing(g, fence) /\ Showing(g, rally)
    BY <1>2, <1>3, <1>5, <1>7, ShowingTwice
  <1>9. Showing(g, h)
    BY <1>1, <1>8
  <1>10. ASSUME g.vehicle \in Vehicles, g.initial[g.vehicle].planComplete,
                \A p \in Parts : ~Busy(g, g.vehicle, p)
         PROVE  \A p \in Parts : h.view[p].items = g.manager[g.vehicle][p].items
    <2>1. ASSUME NEW k, Showing(g, k), NEW p \in Parts PROVE ~Waits(k, p)
      BY <1>10, <2>1, PlanMasterAssumption DEF Waits, Showing, Keeps, SameConnections, Busy
    <2>2. ~Waits(forced, "mission") /\ ~Waits(mission, "fence") /\ ~Waits(fence, "rally")
      BY <1>2, <1>8, <2>1
    <2>3. h = rally
      BY <1>1, <2>2
    <2>4. \A k : Showing(g, k) => k.manager = g.manager /\ k.vehicle = g.vehicle
      BY DEF Showing
    <2>5. QED BY <1>2, <1>3, <1>5, <1>7, <1>8, <2>2, <2>3, <2>4
  <1>11. QED BY <1>9, <1>10

-----------------------------------------------------------------------------
(* The operations. *)

\* The question whether to keep the plan is asked or answered.
LEMMA PromptChanges ==
    ASSUME NEW g \in Systems, NEW b \in BOOLEAN
    PROVE  LET h == [g EXCEPT !.prompt = b] IN
           /\ Keeps(g, h) /\ h \in Systems /\ h.prompt = b
           /\ h.vehicle = g.vehicle /\ h.chain = g.chain
           /\ h.view = g.view /\ h.manager = g.manager /\ h.initial = g.initial
  BY DEF Systems, Keeps, SameConnections, Sound, Busy

\* The active vehicle changes alone.
LEMMA VehicleChanges ==
    ASSUME NEW g \in Systems, NEW v \in Vehicles \cup {Offline}
    PROVE  LET h == [g EXCEPT !.vehicle = v] IN
           /\ Keeps(g, h) /\ h \in Systems /\ h.vehicle = v
           /\ h.prompt = g.prompt /\ h.chain = g.chain
           /\ h.view = g.view /\ h.manager = g.manager /\ h.initial = g.initial
  BY DEF Systems, Keeps, SameConnections, Sound, Busy

\* Removing all parts from the view changes the view alone.
LEMMA PlanIsRemoved ==
    ASSUME NEW g \in Systems
    PROVE  OnlyView(g, RemoveAll(g))
  <1> DEFINE x == [p \in Parts |-> [g.view[p] EXCEPT !.items = Empty, !.dirty = 0]]
  <1>1. RemoveAll(g) = [g EXCEPT !.view = x]
    BY DEF RemoveAll
  <1>2. \A p \in Parts : [g.view[p] EXCEPT !.items = Empty, !.dirty = 0] \in Views
    <2>1. \A y \in Views : [y EXCEPT !.items = Empty, !.dirty = 0] \in Views
      <3>1. \A y \in Views : [y EXCEPT !.items = Empty] \in Views
        BY DEF Views, Plans
      <3>2. \A y \in Views : [y EXCEPT !.dirty = 0] \in Views
        BY DEF Views
      <3>3. QED BY <3>1, <3>2
    <2>2. QED BY <2>1, ViewFields
  <1>3. x \in [Parts -> Views]
    BY <1>2
  <1> HIDE DEF x
  <1>4. QED BY <1>1, <1>3 DEF OnlyView, Systems

\* Another vehicle becomes the active one: with a clean plan, its own is shown.
LEMMA ActiveVehicleIs ==
    ASSUME NEW g \in Systems, NEW v \in Vehicles \cup {Offline},
           NEW h, h = ActiveVehicleBecomes(g, v)
    PROVE  /\ Keeps(g, h)
           /\ h.vehicle = v
           /\ v # Offline /\ ~Dirty(g) /\ g.initial[v].planComplete
                /\ (\A p \in Parts : ~Busy(g, v, p)) => Shown(h)
  <1> DEFINE new == [g EXCEPT !.vehicle = v]
  <1>1. /\ Keeps(g, new) /\ new \in Systems /\ new.vehicle = v /\ new.view = g.view
        /\ new.manager = g.manager /\ new.initial = g.initial
    BY VehicleChanges
  <1>2. \/ ContainsItems(g) /\ Dirty(g) /\ h = [new EXCEPT !.prompt = TRUE]
        \/ v = Offline /\ h \in {new, RemoveAll(new)}
        \/ ~(ContainsItems(g) /\ Dirty(g)) /\ h = ShowPlan(new)
    BY DEF ActiveVehicleBecomes
  <1> HIDE DEF new
  <1>3. CASE ContainsItems(g) /\ Dirty(g) /\ h = [new EXCEPT !.prompt = TRUE]
    <2>1. Keeps(new, h) /\ h.vehicle = v
      BY <1>1, <1>3, PromptChanges
    <2>2. QED BY <1>1, <1>3, <2>1, KeepsTwice
  <1>4. CASE v = Offline /\ h \in {new, RemoveAll(new)}
    <2>1. Keeps(new, h) /\ h.vehicle = v
      BY <1>1, <1>4, PlanIsRemoved, OnlyViewKeeps, KeepsItself DEF OnlyView
    <2>2. QED BY <1>1, <1>4, <2>1, KeepsTwice
  <1>5. CASE h = ShowPlan(new)
    <2>1. /\ Showing(new, h)
          /\ v \in Vehicles /\ new.initial[v].planComplete
               /\ (\A p \in Parts : ~Busy(new, v, p)) =>
               \A p \in Parts : h.view[p].items = new.manager[v][p].items
      BY <1>1, <1>5, ShowPlanIs
    <2>2. Keeps(g, h) /\ h.vehicle = v /\ h.manager = g.manager
      BY <1>1, <2>1, KeepsTwice DEF Showing
    <2>3. \A p \in Parts : Busy(new, v, p) <=> Busy(g, v, p)
      BY <1>1 DEF Busy
    <2>4. QED BY <1>1, <2>1, <2>2, <2>3 DEF Shown, Idle, Busy
  <1>6. QED BY <1>2, <1>3, <1>4, <1>5

\* A part is removed from the view and from the vehicle.
LEMMA RemovePartFromVehicleKeeps ==
    ASSUME NEW g \in Systems, NEW p \in Parts, NEW h,
           h = IF Supported(g.vehicle, p) THEN RemovePartFromVehicle(g, p) ELSE g
    PROVE  Keeps(g, h) /\ h.vehicle = g.vehicle
  <1>1. CASE h = g
    BY <1>1, KeepsItself
  <1>2. CASE h # g
    <2> DEFINE b == g.view[p].requested \/ p = "mission"
               a == [g EXCEPT !.view[p].requested = g.view[p].requested \/ p = "mission"]
    <2>1. g.vehicle \in Vehicles /\ Supported(g.vehicle, p)
          /\ h = RemoveAllItems(a, g.vehicle, p)
      BY <1>2, SystemFields DEF RemovePartFromVehicle
    <2>2. b \in BOOLEAN
      BY ViewFields DEF Views
    <2>3. ViewBecomes(g, a, p, [g.view[p] EXCEPT !.requested = b])
      <3> HIDE DEF b
      <3>1. ViewBecomes(g, [g EXCEPT !.view[p].requested = b], p,
                        [g.view[p] EXCEPT !.requested = b])
        BY <2>2, RequestedChanges
      <3>2. QED BY <3>1 DEF b
    <2> HIDE DEF a, b
    <2>4. OnlyView(g, a) /\ a \in Systems
      BY <2>3, ViewIsOnlyView DEF ViewBecomes
    <2>5. Keeps(a, h) /\ h.vehicle = a.vehicle
      <3>1. Keeps(a, h)
        BY <2>1, <2>4, RemoveAllKeeps
      <3>2. h.vehicle = a.vehicle
        <4>1. g.vehicle \in Vehicles /\ a \in Systems
          BY <2>1, <2>4
        <4>2. RemoveAllItems(a, g.vehicle, p).vehicle = a.vehicle
          BY ONLY <4>1, p \in Parts, RemoveAllIs DEF ManagerBecomes
        <4>3. QED BY <2>1, <4>2
      <3>3. QED BY <3>1, <3>2
    <2>6. QED BY <2>4, <2>5, OnlyViewKeeps, KeepsTwice DEF OnlyView
  <1>3. QED BY <1>1, <1>2

\* A part is removed from the vehicle.
LEMMA RemoveAllItemsKeeps ==
    ASSUME NEW g \in Systems, g.vehicle \in Vehicles, NEW p \in Parts, NEW h,
           h = IF Supported(g.vehicle, p) THEN RemoveAllItems(g, g.vehicle, p) ELSE g
    PROVE  Keeps(g, h) /\ h.vehicle = g.vehicle
  BY KeepsItself, RemoveAllKeeps, RemoveAllIs DEF ManagerBecomes

\* Five first completions are awaited in all.
LEMMA CardinalityOfAwaited == Cardinality(Awaited) = 5
  <1>1. Cardinality({}) = 0 /\ IsFiniteSet({})
    BY FS_EmptySet
  <1>2. Cardinality({} \cup {"mission"}) = 1 /\ IsFiniteSet({} \cup {"mission"})
    BY <1>1, FS_AddElement
  <1>3. /\ Cardinality(({} \cup {"mission"}) \cup {"fence"}) = 2
        /\ IsFiniteSet(({} \cup {"mission"}) \cup {"fence"})
    BY <1>2, FS_AddElement
  <1>4. /\ Cardinality((({} \cup {"mission"}) \cup {"fence"}) \cup {"rally"}) = 3
        /\ IsFiniteSet((({} \cup {"mission"}) \cup {"fence"}) \cup {"rally"})
    BY <1>3, FS_AddElement
  <1>5. /\ Cardinality(((({} \cup {"mission"}) \cup {"fence"}) \cup {"rally"}) \cup {"earlier"}) = 4
        /\ IsFiniteSet(((({} \cup {"mission"}) \cup {"fence"}) \cup {"rally"}) \cup {"earlier"})
    BY <1>4, FS_AddElement
  <1>6. Cardinality((((({} \cup {"mission"}) \cup {"fence"}) \cup {"rally"}) \cup {"earlier"})
                      \cup {"parameters"}) = 5
    BY <1>5, FS_AddElement
  <1>7. Awaited = (((({} \cup {"mission"}) \cup {"fence"}) \cup {"rally"}) \cup {"earlier"})
                    \cup {"parameters"}
    BY DEF Awaited, Parts
  <1>8. QED BY <1>6, <1>7

\* The managers and the connection of a vehicle are new.
VehicleIsReset(g, h, v) ==
    /\ Good(h)
    /\ h.vehicle = g.vehicle /\ h.prompt = g.prompt /\ h.chain = g.chain
    /\ h.view = g.view
    /\ \A w \in Vehicles : w # v => h.manager[w] = g.manager[w] /\ h.initial[w] = g.initial[w]

\* A vehicle that comes or goes has new managers and a new connection.
LEMMA ResetIs ==
    ASSUME NEW g, Good(g), NEW v \in Vehicles, NEW m \in [Parts -> {NewManager}]
    PROVE  VehicleIsReset(g, [g EXCEPT !.manager[v] = m, !.initial[v] = NewConnection], v)
  <1> DEFINE h == [g EXCEPT !.manager[v] = m, !.initial[v] = NewConnection]
  <1>1. g \in Systems /\ m \in [Parts -> Managers] /\ NewConnection \in Connections
    BY DEF Good, NewManager, NewConnection, Managers, Connections, Plans, Earlier, Complete
  <1>2. \A p \in Parts : m[p].transaction = "None"
    BY DEF NewManager
  <1>3. Answered(v, NewConnection)
    BY CardinalityOfAwaited DEF Answered, NewConnection, Awaited, Earlier, Mission, Complete, Parts
  <1>4. h = [g EXCEPT !.manager[v] = m, !.initial[v] = NewConnection]
    OBVIOUS
  <1> HIDE DEF NewConnection, h
  <1>5. /\ h \in Systems
        /\ h.vehicle = g.vehicle /\ h.prompt = g.prompt /\ h.chain = g.chain
        /\ h.view = g.view
        /\ \A w \in Vehicles : w # v => h.manager[w] = g.manager[w] /\ h.initial[w] = g.initial[w]
        /\ h.manager[v] = m /\ h.initial[v] = NewConnection
    <2> DEFINE a == [g EXCEPT !.manager[v] = m]
    <2>1. /\ a \in Systems
          /\ a.vehicle = g.vehicle /\ a.prompt = g.prompt /\ a.chain = g.chain
          /\ a.view = g.view /\ a.initial = g.initial
          /\ \A w \in Vehicles : w # v => a.manager[w] = g.manager[w]
          /\ a.manager[v] = m
      BY <1>1 DEF Systems
    <2>2. h = [a EXCEPT !.initial[v] = NewConnection]
      BY <1>4
    <2> HIDE DEF a
    <2>3. ConnectionBecomes(a, h, v, NewConnection)
      <3>1. ConnectionBecomes(a, [a EXCEPT !.initial[v] = NewConnection], v, NewConnection)
        BY <1>1, <2>1, ConnectionChanges
      <3>2. QED BY <2>2, <3>1
    <2>4. QED BY <2>1, <2>3 DEF ConnectionBecomes
  <1>6. Good(h)
    BY <1>2, <1>3, <1>5 DEF Good, Sound, Busy
  <1>7. QED BY <1>5, <1>6 DEF VehicleIsReset, h

-----------------------------------------------------------------------------
(* The whole plan, part by part. *)

\* The read of a part ends, and the next part is read.
LEMMA PartIsLoaded ==
    ASSUME NEW g \in Systems, g.vehicle \in Vehicles, NEW p \in Parts, NEW held,
           \A q \in Parts : Idle(g, q),
           g.manager[g.vehicle][p].items = held[g.vehicle][p],
           g.view[p].requested,
           p = "mission" => "loadGeoFence" \in g.chain,
           p = "fence" => "loadRallyPoints" \in g.chain /\ Loaded(g, held, "mission"),
           p = "rally" => Loaded(g, held, "mission") /\ Loaded(g, held, "fence"),
           \A q \in Parts : ~Supported(g.vehicle, q) => held[g.vehicle][q] = Empty
    PROVE  Loading(ShowLoaded(LoadComplete(g, p), p), held)
  <1> USE PartsAre
  <1> DEFINE b == LoadComplete(g, p)
             h == ShowLoaded(b, p)
  <1> SUFFICES Loading(h, held)
    OBVIOUS
  <1>1. Frame(g, b)
    BY CompletionsAreFrames
  <1>2. b \in Systems /\ b.vehicle = g.vehicle
    BY <1>1 DEF Frame, Keeps
  <1>3. \A q \in Parts : ~Busy(g, g.vehicle, q)
    BY DEF Idle, Busy
  <1>4. /\ p = "mission" => b = LoadMissionComplete(g)
        /\ p = "fence" => b = LoadGeoFenceComplete(g)
        /\ p = "rally" => b = g
    BY DEF LoadComplete
  <1> HIDE DEF b
  <1>5. b.view[p].requested => ViewBecomes(b, h, p,
            [items |-> b.manager[g.vehicle][p].items, requested |-> FALSE, dirty |-> 0])
    BY <1>2, ShowLoadedIs
  <1> HIDE DEF h
  <1>6. CASE p = "mission"
    <2>1. /\ b.manager[g.vehicle]["mission"] = g.manager[g.vehicle]["mission"]
          /\ b.view["mission"].requested
          /\ g.vehicle \in Capable =>
               /\ "loadRallyPoints" \in b.chain
               /\ b.manager[g.vehicle]["rally"] = g.manager[g.vehicle]["rally"]
               /\ b.manager[g.vehicle]["fence"].transaction = "Read"
               /\ b.view["fence"].requested
          /\ g.vehicle \notin Capable =>
               /\ b.manager = g.manager
               /\ \A q \in {"fence", "rally"} :
                    b.view[q].items = Empty /\ b.view[q].dirty = 0
      <3>1. LoadMissionComplete(g) = b
        BY <1>4, <1>6
      <3>2. QED BY <1>3, <1>6, <3>1, LoadMissionCompleteIs
    <2>2. /\ h.manager = b.manager /\ h.vehicle = g.vehicle /\ h.chain = b.chain
          /\ h.view["mission"].items = held[g.vehicle]["mission"] /\ h.view["mission"].dirty = 0
          /\ h.view["fence"] = b.view["fence"] /\ h.view["rally"] = b.view["rally"]
      BY <1>2, <1>5, <1>6, <2>1 DEF ViewBecomes
    <2>3. CASE g.vehicle \in Capable
      BY <1>6, <2>1, <2>2, <2>3 DEF Loading, Only, Idle, Loaded
    <2>4. CASE g.vehicle \notin Capable
      <3>1. held[g.vehicle]["fence"] = Empty /\ held[g.vehicle]["rally"] = Empty
        BY <2>4
      <3>2. \A q \in Parts : Idle(h, q) /\ Loaded(h, held, q)
        BY <1>6, <2>1, <2>2, <2>4, <3>1 DEF Idle, Loaded
      <3>3. QED BY <3>2 DEF Loading
    <2>5. QED BY <2>3, <2>4
  <1>7. CASE p = "fence"
    <2>1. /\ \A q \in {"mission", "fence"} :
               /\ b.manager[g.vehicle][q] = g.manager[g.vehicle][q]
               /\ b.view[q].items = g.view[q].items
               /\ b.view[q].requested = g.view[q].requested
               /\ b.view[q].dirty = IF q = "fence" /\ g.view[q].dirty = 2 THEN 1 ELSE 0
          /\ b.view["rally"].dirty = 0
          /\ g.vehicle \in Capable =>
               /\ b.manager[g.vehicle]["rally"].transaction = "Read"
               /\ b.view["rally"].requested
          /\ g.vehicle \notin Capable =>
               /\ b.manager = g.manager
               /\ b.view["rally"].items = Empty
      <3>1. LoadGeoFenceComplete(g) = b
        BY <1>4, <1>7
      <3>2. QED BY <1>3, <1>7, <3>1, LoadGeoFenceCompleteIs
    <2>2. /\ h.manager = b.manager /\ h.vehicle = g.vehicle
          /\ h.view["fence"].items = held[g.vehicle]["fence"] /\ h.view["fence"].dirty = 0
          /\ h.view["mission"] = b.view["mission"] /\ h.view["rally"] = b.view["rally"]
      BY <1>2, <1>5, <1>7, <2>1 DEF ViewBecomes
    <2>3. Loaded(h, held, "mission") /\ Loaded(h, held, "fence")
      BY <1>7, <2>1, <2>2 DEF Loaded
    <2>4. CASE g.vehicle \in Capable
      BY <1>7, <2>1, <2>2, <2>3, <2>4 DEF Loading, Only, Idle
    <2>5. CASE g.vehicle \notin Capable
      <3>1. held[g.vehicle]["rally"] = Empty
        BY <2>5
      <3>2. \A q \in Parts : Idle(h, q) /\ Loaded(h, held, q)
        BY <1>7, <2>1, <2>2, <2>3, <2>5, <3>1 DEF Idle, Loaded
      <3>3. QED BY <3>2 DEF Loading
    <2>6. QED BY <2>4, <2>5
  <1>8. CASE p = "rally"
    <2>1. b = g /\ b.view["rally"].requested
      BY <1>4, <1>8
    <2>2. /\ h.manager = g.manager /\ h.vehicle = g.vehicle
          /\ h.view["rally"].items = held[g.vehicle]["rally"] /\ h.view["rally"].dirty = 0
          /\ h.view["mission"] = g.view["mission"] /\ h.view["fence"] = g.view["fence"]
      BY <1>5, <1>8, <2>1 DEF ViewBecomes
    <2>3. \A q \in Parts : Idle(h, q) /\ Loaded(h, held, q)
      BY <1>8, <2>1, <2>2 DEF Idle, Loaded
    <2>4. QED BY <2>3 DEF Loading
  <1>9. QED BY <1>6, <1>7, <1>8

\* The write of a part ends, and the next part is written.
LEMMA PartIsSent ==
    ASSUME NEW g \in Systems, g.vehicle \in Vehicles, NEW p \in Parts, NEW held,
           \A q \in Parts : Idle(g, q),
           held[g.vehicle][p] = g.view[p].items,
           g.view[p].dirty = 0,
           p = "mission" => "sendGeoFence" \in g.chain /\ g.view["fence"].dirty < 2,
           p = "fence" => /\ "sendRallyPoints" \in g.chain /\ Sent(g, held, "mission")
                          /\ g.view["rally"].dirty = 0,
           p = "rally" => Sent(g, held, "mission") /\ Sent(g, held, "fence")
    PROVE  Sending(SendComplete(g, p), held)
  <1> USE PartsAre
  <1> DEFINE h == SendComplete(g, p)
  <1> SUFFICES Sending(h, held)
    OBVIOUS
  <1>1. Frame(g, h)
    BY CompletionsAreFrames
  <1>2. h.vehicle = g.vehicle
    BY <1>1 DEF Frame
  <1>3. \A q \in Parts : ~Busy(g, g.vehicle, q)
    BY DEF Idle, Busy
  <1>4. /\ p = "mission" => h = SendMissionComplete(g)
        /\ p = "fence" => h = SendGeoFenceComplete(g)
        /\ p = "rally" => h = g
    BY DEF SendComplete
  <1> HIDE DEF h
  <1>5. CASE p = "mission"
    <2>1. /\ h.manager[g.vehicle]["mission"] = g.manager[g.vehicle]["mission"]
          /\ \A q \in Parts : h.view[q].items = g.view[q].items
          /\ h.view["mission"].dirty = 0 /\ h.view["rally"].dirty = 0
          /\ g.vehicle \in Capable =>
               /\ "sendRallyPoints" \in h.chain
               /\ h.manager[g.vehicle]["rally"] = g.manager[g.vehicle]["rally"]
               /\ h.manager[g.vehicle]["fence"].transaction = "Write"
               /\ h.manager[g.vehicle]["fence"].sending = g.view["fence"].items
               /\ h.view["fence"].dirty = 0
          /\ g.vehicle \notin Capable =>
               /\ h.manager = g.manager
               /\ h.view["fence"].dirty = 0
      <3>1. SendMissionComplete(g) = h
        BY <1>4, <1>5
      <3>2. QED BY <1>3, <1>5, <3>1, SendMissionCompleteIs
    <2>2. CASE g.vehicle \in Capable
      BY <1>2, <1>5, <2>1, <2>2 DEF Sending, Writing, Only, Idle, Sent
    <2>3. CASE g.vehicle \notin Capable
      <3>1. \A q \in Parts : Idle(h, q) /\ Sent(h, held, q)
        BY <1>2, <1>5, <2>1, <2>3 DEF Idle, Sent
      <3>2. QED BY <3>1 DEF Sending
    <2>4. QED BY <2>2, <2>3
  <1>6. CASE p = "fence"
    <2>1. /\ \A q \in {"mission", "fence"} :
               /\ h.manager[g.vehicle][q] = g.manager[g.vehicle][q]
               /\ h.view[q] = g.view[q]
          /\ h.view["rally"].items = g.view["rally"].items
          /\ g.vehicle \in Capable =>
               /\ h.manager[g.vehicle]["rally"].transaction = "Write"
               /\ h.manager[g.vehicle]["rally"].sending = g.view["rally"].items
               /\ h.view["rally"].dirty = 0
          /\ g.vehicle \notin Capable => h.manager = g.manager /\ h.view = g.view
      <3>1. SendGeoFenceComplete(g) = h
        BY <1>4, <1>6
      <3>2. QED BY <1>3, <1>6, <3>1, SendGeoFenceCompleteIs
    <2>2. Sent(h, held, "mission") /\ Sent(h, held, "fence")
      BY <1>2, <1>6, <2>1 DEF Sent
    <2>3. CASE g.vehicle \in Capable
      BY <1>2, <1>6, <2>1, <2>2, <2>3 DEF Sending, Writing, Only, Idle
    <2>4. CASE g.vehicle \notin Capable
      <3>1. \A q \in Parts : Idle(h, q) /\ Sent(h, held, q)
        BY <1>2, <1>6, <2>1, <2>2, <2>4 DEF Idle, Sent
      <3>2. QED BY <3>1 DEF Sending
    <2>5. QED BY <2>3, <2>4
  <1>7. CASE p = "rally"
    <2>1. h = g
      BY <1>4, <1>7
    <2>2. \A q \in Parts : Idle(h, q) /\ Sent(h, held, q)
      BY <1>7, <2>1 DEF Idle, Sent
    <2>3. QED BY <2>2 DEF Sending
  <1>8. QED BY <1>5, <1>6, <1>7

\* What a transaction's end does to the manager.
LEMMA TransactionIsOver ==
    ASSUME NEW g \in Systems, NEW v \in Vehicles, NEW p \in Parts, NEW items \in Plans
    PROVE  ManagerBecomes(g, [g EXCEPT !.manager[v][p].transaction = "None",
                                       !.manager[v][p].items = items], v, p,
             [g.manager[v][p] EXCEPT !.transaction = "None", !.items = items])
  <1> DEFINE h == [g EXCEPT !.manager[v][p].transaction = "None"]
             k == [h EXCEPT !.manager[v][p].items = items]
             m == [h.manager[v][p] EXCEPT !.items = items]
  <1>1. ManagerBecomes(g, h, v, p, [g.manager[v][p] EXCEPT !.transaction = "None"])
    BY TransactionStarts
  <1>2. h \in Systems /\ h.manager[v][p] = [g.manager[v][p] EXCEPT !.transaction = "None"]
    BY <1>1 DEF ManagerBecomes
  <1>3. m \in Managers
    BY <1>2, ManagerFields DEF Managers
  <1>4. k = [h EXCEPT !.manager[v][p] = m]
    OBVIOUS
  <1>5. ManagerBecomes(h, k, v, p, m)
    BY <1>2, <1>3, <1>4, ManagerChanges
  <1>6. ManagerBecomes(g, k, v, p, m)
    BY <1>1, <1>5, ChangedTwice
  <1>7. m = [g.manager[v][p] EXCEPT !.transaction = "None", !.items = items]
    BY <1>2
  <1>8. QED BY <1>6, <1>7

-----------------------------------------------------------------------------
(* The steps. *)

\* A session is left alone by what changes neither the view nor the active vehicle.
LEMMA UndisturbedStays ==
    ASSUME NEW g, NEW h, NEW held, NEW kept, NEW kind, Undisturbed(g, held, kind),
           h.vehicle = g.vehicle, h.prompt = g.prompt, h.chain = g.chain, h.view = g.view,
           h.manager[g.vehicle] = g.manager[g.vehicle],
           h.initial[g.vehicle].step = Complete,
           kept[g.vehicle] = held[g.vehicle]
    PROVE  Undisturbed(h, kept, kind)
  <1>1. kind = "Load" => Loading(h, kept)
    BY PartsAre DEF Undisturbed, Loading, Loaded, Only, Idle
  <1>2. kind = "Send" => Sending(h, kept)
    BY PartsAre DEF Undisturbed, Sending, Sent, Writing, Only, Idle
  <1>3. kind = "Change" => Shown(h)
    BY DEF Undisturbed, Shown, Idle
  <1>4. QED BY <1>1, <1>2, <1>3 DEF Undisturbed

\* Nothing is connected.
LEMMA Initially == Init => IInv
  <1> SUFFICES ASSUME Init PROVE IInv
    OBVIOUS
  <1> USE PartsAre, PlanMasterAssumption
  <1>1. NewManager \in Managers /\ NewConnection \in Connections
    BY DEF NewManager, NewConnection, Managers, Connections, Plans, Earlier, Complete
  <1>2. [items |-> Empty, requested |-> FALSE, dirty |-> 0] \in Views
    BY DEF Views, Plans
  <1>3. gcs \in Systems
    BY <1>1, <1>2 DEF Init, Systems
  <1>4. \A v \in Vehicles : Answered(v, NewConnection)
    BY CardinalityOfAwaited DEF Answered, NewConnection, Awaited, Earlier, Mission, Complete
  <1>5. Good(gcs)
    BY <1>3, <1>4 DEF Good, Sound, Busy, Init, NewManager
  <1>6. onVehicle \in [Vehicles -> [Parts -> Plans]]
    BY DEF Init, Plans
  <1>7. TypeOK
    BY <1>3, <1>6 DEF Init, TypeOK
  <1>8. \A v \in Vehicles, p \in Parts : ~Supported(v, p) => onVehicle[v][p] = Empty
    BY DEF Init
  <1>9. QED BY <1>5, <1>7, <1>8 DEF IInv, Init

\* A vehicle that is not the active one comes or goes.
LEMMA ResetStep ==
    ASSUME IInv, NEW v \in Vehicles, v # gcs.vehicle,
           gcs' = [gcs EXCEPT !.manager[v] = [p \in Parts |-> NewManager],
                              !.initial[v] = NewConnection],
           connected' \in SUBSET Vehicles, gcs.vehicle \in connected' \cup {Offline},
           events' \in 0..MaxEvents,
           UNCHANGED <<onVehicle, session, edits>>
    PROVE  IInv'
  <1>1. /\ Good(gcs')
        /\ gcs'.vehicle = gcs.vehicle /\ gcs'.prompt = gcs.prompt /\ gcs'.chain = gcs.chain
        /\ gcs'.view = gcs.view
        /\ \A w \in Vehicles : w # v => gcs'.manager[w] = gcs.manager[w]
                                        /\ gcs'.initial[w] = gcs.initial[w]
    <2> DEFINE m == [p \in Parts |-> NewManager]
    <2>1. gcs' = [gcs EXCEPT !.manager[v] = m, !.initial[v] = NewConnection] /\ Good(gcs)
      BY DEF IInv
    <2>2. m \in [Parts -> {NewManager}]
      OBVIOUS
    <2> HIDE DEF m
    <2>3. VehicleIsReset(gcs, [gcs EXCEPT !.manager[v] = m, !.initial[v] = NewConnection], v)
      BY <2>1, <2>2, ResetIs
    <2>4. VehicleIsReset(gcs, gcs', v)
      BY <2>1, <2>3
    <2>5. QED BY <2>4 DEF VehicleIsReset
  <1>2. session'.intact => Undisturbed(gcs', onVehicle', session'.kind)
    <2> SUFFICES ASSUME session.intact
                 PROVE  Undisturbed(gcs', onVehicle, session.kind)
      OBVIOUS
    <2>1. Undisturbed(gcs, onVehicle, session.kind)
      BY DEF IInv
    <2>2. gcs.vehicle \in Vehicles /\ gcs.initial[gcs.vehicle].step = Complete
      BY <2>1 DEF Undisturbed
    <2>3. QED BY <1>1, <2>1, <2>2, UndisturbedStays
  <1>3. TypeOK'
    BY <1>1 DEF IInv, TypeOK, Good
  <1>4. QED BY <1>1, <1>2, <1>3 DEF IInv

\* A vehicle connects or disconnects.
LEMMA ConnectKeeps ==
    ASSUME IInv, NEW v \in Vehicles, Connect(v) \/ Disconnect(v)
    PROVE  IInv'
  <1>1. CASE Connect(v)
    <2>1. v # gcs.vehicle /\ gcs.vehicle \in connected' \cup {Offline}
      BY <1>1, PlanMasterAssumption DEF IInv, Connect
    <2>2. connected' \in SUBSET Vehicles /\ events' \in 0..MaxEvents
      BY <1>1, PlanMasterAssumption DEF IInv, TypeOK, Connect
    <2>3. QED BY <1>1, <2>1, <2>2, ResetStep DEF Connect, Becomes
  <1>2. CASE Disconnect(v)
    <2>1. v # gcs.vehicle /\ gcs.vehicle \in connected' \cup {Offline}
      BY <1>2, PlanMasterAssumption DEF IInv, Disconnect
    <2>2. connected' \in SUBSET Vehicles /\ events' \in 0..MaxEvents
      BY <1>2, PlanMasterAssumption DEF IInv, TypeOK, Disconnect
    <2>3. QED BY <1>2, <2>1, <2>2, ResetStep DEF Disconnect, Becomes
  <1>3. QED BY <1>1, <1>2

\* A first completion of a step's work that is not a read.
LEMMA StepDoneKeeps ==
    ASSUME IInv, NEW v \in Vehicles, EarlierStepsDone(v) \/ ParametersReady(v)
    PROVE  IInv'
  <1>1. PICK p \in {"earlier", "parameters"} : gcs' = FirstComplete(gcs, v, p)
    BY DEF EarlierStepsDone, ParametersReady, Becomes
  <1>2. UNCHANGED <<connected, onVehicle, session, edits, events>>
    BY DEF EarlierStepsDone, ParametersReady
  <1>3. p \in Awaited /\ p \notin {"fence", "rally"} /\ Good(gcs)
    BY DEF Awaited, IInv
  <1>4. /\ Good(gcs')
        /\ OnlyVehicle(gcs, gcs', v)
        /\ gcs.initial[v].step = Complete =>
             gcs'.manager = gcs.manager /\ gcs'.initial[v].step = Complete
    <2>1. /\ Good(FirstComplete(gcs, v, p))
          /\ OnlyVehicle(gcs, FirstComplete(gcs, v, p), v)
          /\ gcs.initial[v].step = Complete =>
               /\ FirstComplete(gcs, v, p).manager = gcs.manager
               /\ FirstComplete(gcs, v, p).initial[v].step = Complete
      BY <1>3, FirstCompleteIs
    <2>2. QED BY <1>1, <2>1
  <1>5. session'.intact => Undisturbed(gcs', onVehicle', session'.kind)
    <2> SUFFICES ASSUME session.intact
                 PROVE  Undisturbed(gcs', onVehicle, session.kind)
      BY <1>2
    <2>1. Undisturbed(gcs, onVehicle, session.kind)
      BY DEF IInv
    <2>2. gcs.vehicle \in Vehicles /\ gcs.initial[gcs.vehicle].step = Complete
      BY <2>1 DEF Undisturbed
    <2>3. /\ gcs'.manager[gcs.vehicle] = gcs.manager[gcs.vehicle]
          /\ gcs'.initial[gcs.vehicle].step = Complete
      BY <1>4, <2>2 DEF OnlyVehicle
    <2>4. QED BY <1>4, <2>1, <2>3, UndisturbedStays DEF OnlyVehicle
  <1>6. TypeOK'
    BY <1>2, <1>4 DEF IInv, TypeOK, Good
  <1>7. gcs'.vehicle = gcs.vehicle
    BY <1>4 DEF OnlyVehicle
  <1>8. QED BY <1>2, <1>4, <1>5, <1>6, <1>7 DEF IInv

\* Another vehicle becomes the active one.
LEMMA ActiveVehicleKeeps ==
    ASSUME IInv, NEW v \in Vehicles \cup {Offline}, ActiveVehicleChanged(v)
    PROVE  IInv'
  <1>1. gcs \in Systems /\ Good(gcs)
    BY DEF IInv, Good
  <1>2. /\ Keeps(gcs, gcs')
        /\ gcs'.vehicle = v
        /\ v # Offline /\ ~Dirty(gcs) /\ gcs.initial[v].planComplete
             /\ (\A p \in Parts : ~Busy(gcs, v, p)) => Shown(gcs')
    <2>1. gcs' = ActiveVehicleBecomes(gcs, v)
      BY DEF ActiveVehicleChanged, Becomes
    <2>2. /\ Keeps(gcs, ActiveVehicleBecomes(gcs, v))
          /\ ActiveVehicleBecomes(gcs, v).vehicle = v
          /\ v # Offline /\ ~Dirty(gcs) /\ gcs.initial[v].planComplete
               /\ (\A p \in Parts : ~Busy(gcs, v, p)) => Shown(ActiveVehicleBecomes(gcs, v))
      BY <1>1, ActiveVehicleIs
    <2>3. QED BY <2>1, <2>2
  <1>3. Good(gcs')
    BY <1>1, <1>2, KeepsIsGood
  <1>4. session'.intact => Undisturbed(gcs', onVehicle', session'.kind)
    <2> SUFFICES ASSUME session'.intact
                 PROVE  Undisturbed(gcs', onVehicle', "Change")
      BY DEF ActiveVehicleChanged
    <2>1. /\ v # Offline /\ ~Dirty(gcs) /\ gcs.initial[v].step = Complete
          /\ gcs.initial[v].planComplete /\ \A p \in Parts : ~Busy(gcs, v, p)
      BY DEF ActiveVehicleChanged
    <2>2. Shown(gcs') /\ v \in Vehicles
      BY <1>2, <2>1
    <2>3. gcs'.initial[v].step = Complete
      BY <1>2, <2>1, <2>2 DEF Keeps, SameConnections
    <2>4. QED BY <1>2, <2>2, <2>3 DEF Undisturbed
  <1>5. v \in connected' \cup {Offline}
    BY DEF ActiveVehicleChanged
  <1>6. session' \in [kind : {"None", "Load", "Send", "Change"}, intact : BOOLEAN]
    BY DEF ActiveVehicleChanged
  <1>7. events' \in 0..MaxEvents
    BY PlanMasterAssumption DEF ActiveVehicleChanged, IInv, TypeOK
  <1>8. TypeOK'
    BY <1>3, <1>6, <1>7 DEF ActiveVehicleChanged, IInv, TypeOK, Good
  <1>9. QED BY <1>2, <1>3, <1>4, <1>5, <1>8 DEF IInv, ActiveVehicleChanged

\* An operation that leaves nothing intact may do anything a controller does.
LEMMA DisturbingStep ==
    ASSUME IInv, Keeps(gcs, gcs'), gcs'.vehicle = gcs.vehicle,
           session' \in [kind : {"None", "Load", "Send", "Change"}, intact : BOOLEAN],
           ~session'.intact,
           edits' \in 0..MaxEdits, events' \in 0..MaxEvents,
           UNCHANGED <<connected, onVehicle>>
    PROVE  IInv'
  <1>1. Good(gcs')
    BY KeepsIsGood DEF IInv, Good
  <1>2. TypeOK'
    BY <1>1 DEF IInv, TypeOK, Good
  <1>3. QED BY <1>1, <1>2 DEF IInv

\* An operation in between leaves no session intact.
LEMMA DisturbedSession ==
    ASSUME IInv, Disturbs
    PROVE  /\ session' \in [kind : {"None", "Load", "Send", "Change"}, intact : BOOLEAN]
           /\ ~session'.intact
  BY DEF IInv, TypeOK, Disturbs

\* An operation is counted.
LEMMA EventsCounted ==
    ASSUME IInv, events < MaxEvents, events' = events + 1
    PROVE  events' \in 0..MaxEvents
  BY PlanMasterAssumption DEF IInv, TypeOK

\* The user edits a part.
LEMMA EditKeeps ==
    ASSUME IInv, NEW p \in Parts, Edit(p)
    PROVE  IInv'
  <1>1. PICK n \in Dirtied(p) : gcs' = [gcs EXCEPT !.view[p].items = edits', !.view[p].dirty = n]
    BY DEF Edit, Becomes
  <1>2. gcs \in Systems /\ gcs.view[p] \in Views
    BY ViewFields DEF IInv, Good
  <1>3. n \in 0..2
    BY <1>2 DEF Dirtied, Views
  <1>4. edits' \in 0..MaxEdits /\ edits' \in Plans
    BY PlanMasterAssumption DEF Edit, IInv, TypeOK, Plans
  <1> DEFINE items == edits'
             a == [gcs EXCEPT !.view[p].items = items]
             b == [a EXCEPT !.view[p].dirty = n]
  <1>5. gcs' = b
    BY <1>1
  <1> HIDE DEF items
  <1>6. ViewBecomes(gcs, a, p, [gcs.view[p] EXCEPT !.items = items])
    BY <1>2, <1>4, ShownItemsChange DEF items
  <1>7. OnlyView(gcs, a) /\ a \in Systems
    BY <1>6, ViewIsOnlyView DEF OnlyView
  <1> HIDE DEF a
  <1>8. ViewBecomes(a, b, p, [a.view[p] EXCEPT !.dirty = n])
    BY <1>3, <1>7, DirtyChanges
  <1>9. OnlyView(a, b)
    BY <1>8, ViewIsOnlyView
  <1> HIDE DEF b
  <1>10. Keeps(gcs, b) /\ b.vehicle = gcs.vehicle
    <2>1. Keeps(gcs, a) /\ Keeps(a, b)
      BY <1>7, <1>9, OnlyViewKeeps
    <2>2. QED BY <1>7, <1>9, <2>1, KeepsTwice DEF OnlyView
  <1>11. events' \in 0..MaxEvents
    BY EventsCounted DEF Edit
  <1>12. QED BY <1>4, <1>5, <1>10, <1>11, DisturbedSession, DisturbingStep DEF Edit

\* Marking the plan is a controller's operation.
LEMMA DirtyKeeps ==
    ASSUME NEW g \in Systems, NEW dirty \in BOOLEAN
    PROVE  OnlyView(g, SetDirty(g, dirty))
  BY SetDirtyIs

\* The plan is saved to a file.
LEMMA SavePlanKeeps == ASSUME IInv, SavePlan PROVE IInv'
  <1>1. gcs \in Systems
    BY DEF IInv, Good
  <1>2. OnlyView(gcs, gcs')
    BY <1>1, DirtyKeeps DEF SavePlan, Becomes
  <1>3. ~session.intact
    BY PlanMasterAssumption DEF IInv, Undisturbed, SavePlan
  <1>4. Keeps(gcs, gcs') /\ gcs'.vehicle = gcs.vehicle
    BY <1>2, OnlyViewKeeps DEF OnlyView
  <1>5. QED BY <1>3, <1>4, DisturbingStep DEF SavePlan, IInv, TypeOK

\* The user keeps the plan of the vehicle before.
LEMMA KeepKeeps == ASSUME IInv, Keep PROVE IInv'
  <1> DEFINE closed == [gcs EXCEPT !.prompt = FALSE]
  <1>1. gcs \in Systems /\ Good(gcs)
    BY DEF IInv, Good
  <1>2. /\ Keeps(gcs, closed) /\ closed \in Systems
        /\ closed.vehicle = gcs.vehicle /\ closed.view = gcs.view
        /\ closed.manager = gcs.manager /\ closed.initial = gcs.initial
    BY <1>1, PromptChanges
  <1>3. gcs' = IF gcs.vehicle = Offline THEN closed ELSE SetDirty(closed, TRUE)
    BY DEF Keep, Becomes
  <1> HIDE DEF closed
  <1>4. /\ OnlyView(closed, SetDirty(closed, TRUE))
        /\ \A p \in Parts : SetDirty(closed, TRUE).view[p].items = closed.view[p].items
    <2> DEFINE dirty == TRUE
    <2>1. dirty \in BOOLEAN
      OBVIOUS
    <2> HIDE DEF dirty
    <2>2. /\ OnlyView(closed, SetDirty(closed, dirty))
          /\ \A p \in Parts : SetDirty(closed, dirty).view[p].items = closed.view[p].items
      BY <1>2, <2>1, SetDirtyIs
    <2>3. QED BY <2>2 DEF dirty
  <1>5. Keeps(closed, gcs') /\ gcs'.vehicle = closed.vehicle /\ gcs'.manager = closed.manager
        /\ gcs'.initial = closed.initial
        /\ \A p \in Parts : gcs'.view[p].items = closed.view[p].items
    BY <1>2, <1>3, <1>4, OnlyViewKeeps, KeepsItself DEF OnlyView
  <1>6. Keeps(gcs, gcs')
    BY <1>2, <1>5, KeepsTwice
  <1>7. Good(gcs')
    BY <1>1, <1>6, KeepsIsGood
  <1>8. session.intact => Undisturbed(gcs', onVehicle, session.kind)
    BY <1>2, <1>5 DEF IInv, Undisturbed, Shown, Idle, Keep
  <1>9. TypeOK'
    BY <1>7 DEF IInv, TypeOK, Good, Keep
  <1>10. QED BY <1>2, <1>5, <1>7, <1>8, <1>9 DEF IInv, Keep

\* The user discards it for the new vehicle's, or for none.
LEMMA DiscardKeeps == ASSUME IInv, Discard PROVE IInv'
  <1> DEFINE closed == [gcs EXCEPT !.prompt = FALSE]
  <1>1. gcs \in Systems
    BY DEF IInv, Good
  <1>2. Keeps(gcs, closed) /\ closed \in Systems /\ closed.vehicle = gcs.vehicle
    BY <1>1, PromptChanges
  <1>3. gcs' \in {ShowPlan(closed), RemoveAll(closed)}
    BY DEF Discard, Becomes, ShowPlanOrClear
  <1> HIDE DEF closed
  <1>4. Keeps(closed, gcs') /\ gcs'.vehicle = closed.vehicle
    <2>1. CASE gcs' = ShowPlan(closed)
      BY <1>2, <2>1, ShowPlanIs DEF Showing
    <2>2. CASE gcs' = RemoveAll(closed)
      BY <1>2, <2>2, PlanIsRemoved, OnlyViewKeeps DEF OnlyView
    <2>3. QED BY <1>3, <2>1, <2>2
  <1>5. Keeps(gcs, gcs') /\ gcs'.vehicle = gcs.vehicle
    BY <1>2, <1>4, KeepsTwice
  <1>6. /\ session' \in [kind : {"None", "Load", "Send", "Change"}, intact : BOOLEAN]
        /\ ~session'.intact
    BY DEF Discard
  <1>7. QED BY <1>5, <1>6, DisturbingStep DEF Discard, IInv, TypeOK

\* The fly view resumes a mission, or removes the plan from the vehicle.
LEMMA FlyViewKeeps == ASSUME IInv, FlyViewResumes \/ FlyViewRemovesAll PROVE IInv'
  <1> USE PartsAre
  <1>1. gcs \in Systems /\ gcs.vehicle \in Vehicles
    BY SystemFields DEF IInv, Good, FlyViewResumes, FlyViewRemovesAll, Called
  <1>2. Keeps(gcs, gcs') /\ gcs'.vehicle = gcs.vehicle
    <2>1. CASE FlyViewResumes
      <3>1. Resumed \in Plans
        BY DEF Plans
      <3> DEFINE k == WriteItems(gcs, gcs.vehicle, "mission", Resumed)
      <3>2. Keeps(gcs, k)
        BY <1>1, <3>1, WriteKeeps
      <3>3. k.vehicle = gcs.vehicle
        <4>1. CASE Busy(gcs, gcs.vehicle, "mission")
          BY <4>1 DEF WriteItems
        <4>2. CASE ~Busy(gcs, gcs.vehicle, "mission")
          <5> DEFINE m == [gcs.manager[gcs.vehicle]["mission"] EXCEPT
                             !.transaction = "Write", !.sending = Resumed]
          <5> HIDE DEF k
          <5>1. ManagerBecomes(gcs, k, gcs.vehicle, "mission", m)
            BY <1>1, <3>1, <4>2, WriteIs DEF k
          <5>2. QED BY <5>1 DEF ManagerBecomes
        <4>3. QED BY <4>1, <4>2
      <3>4. QED BY <2>1, <3>2, <3>3 DEF FlyViewResumes, Becomes
    <2>2. CASE FlyViewRemovesAll
      <3> DEFINE R(g, p) == IF Supported(g.vehicle, p) THEN RemoveAllItems(g, g.vehicle, p) ELSE g
                 a == R(gcs, "mission")
                 b == R(a, "fence")
                 c == R(b, "rally")
      <3>1. gcs' = c
        BY <2>2 DEF FlyViewRemovesAll, Becomes
      <3>2. \A g \in Systems, p \in Parts : g.vehicle \in Vehicles =>
              Keeps(g, R(g, p)) /\ R(g, p).vehicle = g.vehicle /\ R(g, p) \in Systems
        BY RemoveAllItemsKeeps DEF Keeps
      <3> HIDE DEF R
      <3>3. Keeps(gcs, a) /\ a.vehicle = gcs.vehicle /\ a \in Systems
        BY <1>1, <3>2
      <3> HIDE DEF a
      <3>4. Keeps(a, b) /\ b.vehicle = gcs.vehicle /\ b \in Systems
        BY <1>1, <3>2, <3>3
      <3> HIDE DEF b
      <3>5. Keeps(b, c) /\ c.vehicle = gcs.vehicle
        BY <1>1, <3>2, <3>4
      <3>6. QED BY <3>1, <3>3, <3>4, <3>5, KeepsTwice
    <2>3. QED BY <2>1, <2>2
  <1>3. Disturbs /\ Called
    BY DEF FlyViewResumes, FlyViewRemovesAll
  <1>4. events' \in 0..MaxEvents /\ UNCHANGED <<connected, onVehicle, edits>>
    BY <1>3, EventsCounted DEF Called
  <1>5. QED BY <1>2, <1>3, <1>4, DisturbedSession, DisturbingStep DEF IInv, TypeOK

\* The user removes the plan from the view and the vehicle.
LEMMA RemovePlanKeeps == ASSUME IInv, RemovePlan PROVE IInv'
  <1> USE PartsAre
  <1>1. gcs \in Systems
    BY DEF IInv, Good
  <1> DEFINE R(g, p) == IF Supported(g.vehicle, p) THEN RemovePartFromVehicle(g, p) ELSE g
             a == R(gcs, "mission")
             b == R(a, "fence")
             c == R(b, "rally")
             dirty == FALSE
  <1>2. gcs' = SetDirty(c, dirty) /\ dirty \in BOOLEAN
    BY DEF RemovePlan, Becomes
  <1>3. \A g \in Systems, p \in Parts :
          Keeps(g, R(g, p)) /\ R(g, p).vehicle = g.vehicle /\ R(g, p) \in Systems
    BY RemovePartFromVehicleKeeps DEF Keeps
  <1> HIDE DEF R, dirty
  <1>4. Keeps(gcs, a) /\ a.vehicle = gcs.vehicle /\ a \in Systems
    BY <1>1, <1>3
  <1> HIDE DEF a
  <1>5. Keeps(a, b) /\ b.vehicle = gcs.vehicle /\ b \in Systems
    BY <1>1, <1>3, <1>4
  <1> HIDE DEF b
  <1>6. Keeps(b, c) /\ c.vehicle = gcs.vehicle /\ c \in Systems
    BY <1>1, <1>3, <1>5
  <1> HIDE DEF c
  <1>7. OnlyView(c, gcs')
    BY <1>2, <1>6, DirtyKeeps
  <1>8. Keeps(gcs, c)
    BY <1>4, <1>5, <1>6, KeepsTwice
  <1>9. Keeps(gcs, gcs') /\ gcs'.vehicle = gcs.vehicle
    BY <1>6, <1>7, <1>8, OnlyViewKeeps, KeepsTwice DEF OnlyView
  <1>10. Disturbs /\ Called
    BY DEF RemovePlan
  <1>11. events' \in 0..MaxEvents /\ UNCHANGED <<connected, onVehicle, edits>>
    BY <1>10, EventsCounted DEF Called
  <1>12. QED BY <1>9, <1>10, <1>11, DisturbedSession, DisturbingStep DEF IInv, TypeOK

\* An operation that asks for a whole plan leaves it with its first part under way.
LEMMA AskingStep ==
    ASSUME IInv, Called, NEW kind \in {"Load", "Send"}, Asks(kind),
           Keeps(gcs, gcs'), gcs'.vehicle = gcs.vehicle, gcs'.prompt = gcs.prompt,
           kind = "Load" => Loading(gcs', onVehicle),
           kind = "Send" => Sending(gcs', onVehicle)
    PROVE  IInv'
  <1>1. gcs \in Systems /\ gcs.vehicle \in Vehicles /\ ~gcs.prompt
    BY SystemFields DEF IInv, Good, Called
  <1>2. Good(gcs')
    BY <1>1, KeepsIsGood DEF IInv
  <1>3. session'.kind = kind
        /\ session'.intact = (gcs.initial[gcs.vehicle].step = Complete)
        /\ session' \in [kind : {"None", "Load", "Send", "Change"}, intact : BOOLEAN]
    BY DEF Asks
  <1>4. UNCHANGED <<connected, onVehicle, edits>> /\ events' \in 0..MaxEvents
    BY EventsCounted DEF Called
  <1>5. gcs'.initial[gcs.vehicle].step = gcs.initial[gcs.vehicle].step
    BY <1>1 DEF Keeps, SameConnections
  <1>6. session'.intact => Undisturbed(gcs', onVehicle', session'.kind)
    BY <1>1, <1>3, <1>4, <1>5 DEF Undisturbed
  <1>7. TypeOK'
    BY <1>2, <1>3, <1>4 DEF IInv, TypeOK, Good
  <1>8. QED BY <1>2, <1>4, <1>6, <1>7 DEF IInv

\* A plan that is not being synchronised has idle managers.
LEMMA AllIdle ==
    ASSUME NEW g, g.vehicle # Offline, ~SyncInProgress(g)
    PROVE  \A p \in Parts : ~Busy(g, g.vehicle, p) /\ Idle(g, p)
  BY DEF SyncInProgress, Busy, Idle

\* The user loads the plan.
LEMMA LoadPlanKeeps == ASSUME IInv, LoadPlan PROVE IInv'
  <1> USE PartsAre
  <1>1. gcs \in Systems /\ gcs.vehicle \in Vehicles /\ Called /\ Asks("Load")
        /\ ~SyncInProgress(gcs) /\ gcs.vehicle # Offline
    BY SystemFields DEF IInv, Good, LoadPlan, Called
  <1> DEFINE x == gcs.chain \cup {"loadGeoFence"}
             a == [gcs EXCEPT !.chain = x]
             b == LoadPart(a, "mission")
  <1>2. gcs' = SetDirty(b, FALSE) /\ x \in SUBSET Chains
    BY <1>1, SystemFields DEF LoadPlan, Becomes, Chains
  <1>3. /\ Keeps(gcs, a) /\ a \in Systems
        /\ a.chain = x /\ a.vehicle = gcs.vehicle /\ a.prompt = gcs.prompt
        /\ a.view = gcs.view /\ a.manager = gcs.manager /\ a.initial = gcs.initial
    BY <1>1, <1>2, ChainChanges
  <1> HIDE DEF a
  <1>4. ~Busy(a, a.vehicle, "mission") /\ \A p \in Parts : Idle(a, p)
    BY <1>1, <1>3, AllIdle DEF Busy, Idle
  <1>5. /\ Keeps(a, b)
        /\ b.vehicle = a.vehicle /\ b.prompt = a.prompt /\ b.chain = a.chain
        /\ \A q \in Parts : q # "mission" => b.manager[a.vehicle][q] = a.manager[a.vehicle][q]
        /\ b.manager[a.vehicle]["mission"].transaction = "Read"
        /\ b.view["mission"].requested
    BY <1>1, <1>3, <1>4, LoadPartIs
  <1> HIDE DEF b
  <1>6. b \in Systems
    BY <1>5 DEF Keeps
  <1>7. /\ OnlyView(b, gcs')
        /\ \A p \in Parts : gcs'.view[p].requested = b.view[p].requested
    BY ONLY <1>6, <1>2, PlanIsCleaned
  <1>8. Loading(gcs', onVehicle)
    BY <1>3, <1>4, <1>5, <1>7 DEF OnlyView, Loading, Only, Idle
  <1>9. Keeps(gcs, gcs')
    BY <1>3, <1>5, <1>7, OnlyViewKeeps, KeepsTwice
  <1>10. gcs'.vehicle = gcs.vehicle /\ gcs'.prompt = gcs.prompt
    BY <1>3, <1>5, <1>7 DEF OnlyView
  <1>11. QED BY <1>1, <1>8, <1>9, <1>10, AskingStep

\* The user sends the plan.
LEMMA SendPlanKeeps == ASSUME IInv, SendPlan PROVE IInv'
  <1> USE PartsAre
  <1>1. gcs \in Systems /\ gcs.vehicle \in Vehicles /\ Called /\ Asks("Send")
        /\ ~SyncInProgress(gcs) /\ gcs.vehicle # Offline
    BY SystemFields DEF IInv, Good, SendPlan, Called
  <1> DEFINE x == gcs.chain \cup {"sendGeoFence"}
             a == [gcs EXCEPT !.chain = x]
             b == SendPart(a, "mission")
  <1>2. gcs' = SetDirty(b, FALSE) /\ x \in SUBSET Chains
    BY <1>1, SystemFields DEF SendPlan, Becomes, Chains
  <1>3. /\ Keeps(gcs, a) /\ a \in Systems
        /\ a.chain = x /\ a.vehicle = gcs.vehicle /\ a.prompt = gcs.prompt
        /\ a.view = gcs.view /\ a.manager = gcs.manager /\ a.initial = gcs.initial
    BY <1>1, <1>2, ChainChanges
  <1> HIDE DEF a
  <1>4. ~Busy(a, a.vehicle, "mission") /\ \A p \in Parts : Idle(a, p)
    BY <1>1, <1>3, AllIdle DEF Busy, Idle
  <1>5. /\ Keeps(a, b)
        /\ b.vehicle = a.vehicle /\ b.prompt = a.prompt /\ b.chain = a.chain
        /\ \A q \in Parts : b.view[q].items = a.view[q].items
        /\ \A q \in Parts : q # "mission" => b.manager[a.vehicle][q] = a.manager[a.vehicle][q]
        /\ b.manager[a.vehicle]["mission"].transaction = "Write"
        /\ b.manager[a.vehicle]["mission"].sending = a.view["mission"].items
    BY <1>1, <1>3, <1>4, SendPartIs
  <1> HIDE DEF b
  <1>6. b \in Systems
    BY <1>5 DEF Keeps
  <1>7. /\ OnlyView(b, gcs')
        /\ \A p \in Parts :
             /\ gcs'.view[p].items = b.view[p].items
             /\ gcs'.view[p].dirty = IF p = "fence" /\ b.view[p].dirty = 2 THEN 1 ELSE 0
    BY ONLY <1>6, <1>2, PlanIsCleaned
  <1>8. b.view["fence"].dirty \in 0..2
    BY <1>6, ViewFields DEF Views
  <1>9. gcs'.view["fence"].dirty < 2 /\ gcs'.view["mission"].dirty = 0
    BY <1>7, <1>8
  <1>10. Sending(gcs', onVehicle)
    BY <1>3, <1>4, <1>5, <1>7, <1>9 DEF OnlyView, Sending, Writing, Only, Idle
  <1>11. Keeps(gcs, gcs')
    BY <1>3, <1>5, <1>7, OnlyViewKeeps, KeepsTwice
  <1>12. gcs'.vehicle = gcs.vehicle /\ gcs'.prompt = gcs.prompt
    BY <1>3, <1>5, <1>7 DEF OnlyView
  <1>13. QED BY <1>1, <1>10, <1>11, <1>12, AskingStep

\* A transaction of another vehicle's ends.
LEMMA ElsewhereIsUndisturbed ==
    ASSUME NEW g, NEW h, NEW v \in Vehicles, NEW held, NEW kept, NEW kind,
           Undisturbed(g, held, kind), v # g.vehicle,
           OnlyVehicle(g, h, v), kept[g.vehicle] = held[g.vehicle]
    PROVE  Undisturbed(h, kept, kind)
  <1>1. g.vehicle \in Vehicles /\ g.initial[g.vehicle].step = Complete
    BY DEF Undisturbed
  <1>2. QED BY <1>1, UndisturbedStays DEF OnlyVehicle

\* A manager that changes is a change of its vehicle.
LEMMA ManagerIsOnlyVehicle ==
    ASSUME NEW g, NEW h, NEW v \in Vehicles, NEW p \in Parts, NEW m,
           ManagerBecomes(g, h, v, p, m), m.transaction = "None"
    PROVE  OnlyVehicle(g, h, v)
  BY DEF ManagerBecomes, OnlyVehicle, Sound, Busy

\* A slot leaves a good system and the connections as they were.
LEMMA KeepsOfFrame ==
    ASSUME NEW g, Good(g), NEW h, Frame(g, h)
    PROVE  Good(h) /\ h.vehicle = g.vehicle /\ h.prompt = g.prompt
           /\ \A v \in Vehicles : h.initial[v].step = g.initial[v].step
  BY KeepsIsGood DEF Frame, Keeps, SameConnections, Good

\* A read ends with the items the vehicle holds, or the active vehicle's with any.
LEMMA ReadEndsIs ==
    ASSUME NEW g, Good(g), NEW v \in Vehicles, NEW p \in Parts,
           g.manager[v][p].transaction = "Read", NEW items \in Plans, NEW held, NEW kind,
           \A q \in Parts : ~Supported(v, q) => held[v][q] = Empty,
           v = g.vehicle => items = held[v][p]
    PROVE  /\ Good(ReadEnds(g, v, p, items))
           /\ ReadEnds(g, v, p, items).vehicle = g.vehicle
           /\ Undisturbed(g, held, kind) => Undisturbed(ReadEnds(g, v, p, items), held, kind)
  <1> USE PartsAre
  <1> DEFINE a == [g EXCEPT !.manager[v][p].transaction = "None", !.manager[v][p].items = items]
             read == FirstComplete(a, v, p)
             b == LoadComplete(read, p)
             h == ShowLoaded(b, p)
             m == [g.manager[v][p] EXCEPT !.transaction = "None", !.items = items]
  <1>1. ReadEnds(g, v, p, items) = IF g.vehicle = v THEN h ELSE read
    BY DEF ReadEnds
  <1>2. g \in Systems /\ Supported(v, p) /\ g.manager[v][p] \in Managers
    BY ManagerFields DEF Good, Sound, Busy
  <1>3. m.transaction = "None" /\ m.items = items
    BY <1>2 DEF Managers
  <1>4. ManagerBecomes(g, a, v, p, m)
    BY <1>2, TransactionIsOver
  <1> HIDE DEF a, m
  <1>5. Good(a) /\ OnlyVehicle(g, a, v)
    BY <1>2, <1>3, <1>4, ManagerKeeps, KeepsIsGood, ManagerIsOnlyVehicle
  <1>6. /\ Good(read)
        /\ OnlyVehicle(a, read, v)
        /\ a.initial[v].step = Complete =>
             read.manager = a.manager /\ read.initial[v].step = Complete
    <2>1. p \in Awaited /\ (p \in {"fence", "rally"} => v \in Capable)
      BY <1>2 DEF Awaited
    <2>2. QED BY <1>5, <2>1, FirstCompleteIs
  <1> HIDE DEF read
  <1>7. OnlyVehicle(g, read, v)
    BY <1>5, <1>6, OnlyVehicleTwice
  <1>8. CASE v # g.vehicle
    <2>1. ReadEnds(g, v, p, items) = read
      BY <1>1, <1>8
    <2>2. read.vehicle = g.vehicle
      BY <1>7 DEF OnlyVehicle
    <2>3. Undisturbed(g, held, kind) => Undisturbed(read, held, kind)
      BY <1>7, <1>8, ElsewhereIsUndisturbed
    <2>4. QED BY <1>6, <2>1, <2>2, <2>3
  <1>9. CASE v = g.vehicle
    <2>1. ReadEnds(g, v, p, items) = h
      BY <1>1, <1>9
    <2>2. read \in Systems /\ read.vehicle = v
      BY <1>7, <1>9 DEF OnlyVehicle
    <2>3. Frame(read, b)
      BY <2>2, CompletionsAreFrames
    <2> HIDE DEF b
    <2>4. b \in Systems /\ b.vehicle = v
      BY <2>2, <2>3 DEF Frame, Keeps
    <2>5. OnlyView(b, h)
      BY <2>4, ShowLoadedIsOnlyView
    <2> HIDE DEF h
    <2>6. Frame(read, h)
      BY <2>3, <2>5, OnlyViewIsFrame, FrameTwice
    <2>7. Good(h) /\ h.vehicle = v /\ h.prompt = read.prompt
          /\ h.initial[v].step = read.initial[v].step
      BY <1>6, <2>2, <2>6, KeepsOfFrame
    <2>8. ASSUME Undisturbed(g, held, kind)
          PROVE  Undisturbed(h, held, kind)
      <3>1. g.initial[v].step = Complete
        BY <1>9, <2>8 DEF Undisturbed
      <3>2. read.manager = a.manager /\ read.initial[v].step = Complete
            /\ read.prompt = g.prompt /\ read.view = g.view /\ read.chain = g.chain
        BY <1>4, <1>6, <1>7, <3>1 DEF OnlyVehicle, ManagerBecomes
      <3>3. /\ kind = "Load" => ~g.prompt /\ Loading(g, held)
            /\ kind = "Send" => Sending(g, held)
            /\ kind = "Change" => Shown(g)
        BY <2>8 DEF Undisturbed
      <3>4. kind # "Change" /\ kind # "Send"
        BY <1>9, <3>3 DEF Shown, Idle, Sending, Writing, Only
      <3>5. ASSUME kind = "Load" PROVE Loading(h, held)
        <4>1. Loading(g, held)
          BY <3>3, <3>5
        <4>2. Only(g, p, "Read")
          BY <1>9, <4>1 DEF Loading, Only, Idle
        <4>3. \A q \in Parts : Idle(read, q)
          BY <1>3, <1>4, <1>9, <2>2, <3>2, <4>2 DEF Idle, Only, ManagerBecomes
        <4>4. read.manager[v][p].items = held[v][p]
          BY <1>3, <1>4, <1>9, <3>2 DEF ManagerBecomes
        <4>5. /\ g.view[p].requested
              /\ p = "mission" => "loadGeoFence" \in g.chain
              /\ p = "fence" => "loadRallyPoints" \in g.chain /\ Loaded(g, held, "mission")
              /\ p = "rally" => Loaded(g, held, "mission") /\ Loaded(g, held, "fence")
          BY <1>9, <4>1, <4>2 DEF Loading, Only, Idle
        <4>6. /\ read.view[p].requested
              /\ p = "mission" => "loadGeoFence" \in read.chain
              /\ p = "fence" => "loadRallyPoints" \in read.chain /\ Loaded(read, held, "mission")
              /\ p = "rally" => Loaded(read, held, "mission") /\ Loaded(read, held, "fence")
          BY <1>9, <2>2, <3>2, <4>5 DEF Loaded
        <4>7. Loading(ShowLoaded(LoadComplete(read, p), p), held)
          BY <2>2, <4>3, <4>4, <4>6, PartIsLoaded
        <4>8. QED BY <4>7 DEF h, b
      <3>6. QED BY <1>9, <2>2, <2>7, <3>2, <3>3, <3>4, <3>5 DEF Undisturbed
    <2>9. QED BY <1>9, <2>1, <2>7, <2>8
  <1>10. QED BY <1>8, <1>9

\* A write ends: unless it is the active vehicle's that failed, the session goes on.
LEMMA WriteEndsIs ==
    ASSUME NEW g, Good(g), NEW v \in Vehicles, NEW p \in Parts, NEW ok \in BOOLEAN,
           g.manager[v][p].transaction = "Write", NEW held, NEW kept, NEW kind,
           \A w \in Vehicles : w # v => kept[w] = held[w],
           \A q \in Parts : q # p => kept[v][q] = held[v][q],
           ok => kept[v][p] = g.manager[v][p].sending
    PROVE  /\ Good(WriteEnds(g, v, p, ok))
           /\ WriteEnds(g, v, p, ok).vehicle = g.vehicle
           /\ (ok \/ v # g.vehicle) /\ Undisturbed(g, held, kind) =>
                Undisturbed(WriteEnds(g, v, p, ok), kept, kind)
  <1> USE PartsAre
  <1> DEFINE items == IF ok THEN g.manager[v][p].sending
                      ELSE IF p = "mission" THEN g.manager[v][p].items ELSE Empty
             a == [g EXCEPT !.manager[v][p].transaction = "None", !.manager[v][p].items = items]
             h == SendComplete(a, p)
             m == [g.manager[v][p] EXCEPT !.transaction = "None", !.items = items]
  <1>1. g \in Systems /\ Supported(v, p) /\ g.manager[v][p] \in Managers
    BY ManagerFields DEF Good, Sound, Busy
  <1>2. items \in Plans
    BY <1>1 DEF Managers, Plans
  <1>3. a = [g EXCEPT !.manager[v][p].transaction = "None",
                      !.manager[v][p].items = IF ok THEN g.manager[v][p].sending
                                              ELSE IF p = "mission" THEN @ ELSE Empty]
    <2>1. [g EXCEPT !.manager[v][p].transaction = "None"].manager[v][p].items
            = g.manager[v][p].items
      <3>1. ManagerBecomes(g, [g EXCEPT !.manager[v][p].transaction = "None"], v, p,
                           [g.manager[v][p] EXCEPT !.transaction = "None"])
        BY <1>1, TransactionStarts
      <3>2. [g.manager[v][p] EXCEPT !.transaction = "None"].items = g.manager[v][p].items
        BY <1>1 DEF Managers
      <3>3. QED BY <3>1, <3>2 DEF ManagerBecomes
    <2>2. QED BY <2>1
  <1>4. WriteEnds(g, v, p, ok) = IF g.vehicle = v THEN h ELSE a
    BY <1>3 DEF WriteEnds
  <1> HIDE DEF items
  <1>5. m.transaction = "None"
    BY <1>1 DEF Managers
  <1>6. ManagerBecomes(g, a, v, p, m)
    BY <1>1, <1>2, TransactionIsOver
  <1> HIDE DEF a, m
  <1>7. Good(a) /\ OnlyVehicle(g, a, v)
    BY <1>1, <1>5, <1>6, ManagerKeeps, KeepsIsGood, ManagerIsOnlyVehicle
  <1>8. CASE v # g.vehicle
    <2>1. WriteEnds(g, v, p, ok) = a
      BY <1>4, <1>8
    <2>2. a.vehicle = g.vehicle
      BY <1>7 DEF OnlyVehicle
    <2>3. Undisturbed(g, held, kind) => Undisturbed(a, kept, kind)
      <3>1. Undisturbed(g, held, kind) => g.vehicle \in Vehicles
        BY DEF Undisturbed
      <3>2. QED BY <1>7, <1>8, <3>1, ElsewhereIsUndisturbed
    <2>4. QED BY <1>7, <2>1, <2>2, <2>3
  <1>9. CASE v = g.vehicle
    <2>1. WriteEnds(g, v, p, ok) = h
      BY <1>4, <1>9
    <2>2. /\ a \in Systems /\ a.vehicle = v /\ a.view = g.view /\ a.chain = g.chain
          /\ a.prompt = g.prompt /\ a.initial = g.initial
      BY <1>6, <1>9 DEF ManagerBecomes
    <2>3. Frame(a, h)
      BY <2>2, CompletionsAreFrames
    <2> HIDE DEF h
    <2>4. Good(h) /\ h.vehicle = v /\ h.prompt = a.prompt
          /\ h.initial[v].step = a.initial[v].step
      BY <1>7, <2>2, <2>3, KeepsOfFrame
    <2>5. ASSUME Undisturbed(g, held, kind), ok
          PROVE  Undisturbed(h, kept, kind)
      <3>1. /\ g.initial[v].step = Complete
            /\ kind = "Load" => Loading(g, held)
            /\ kind = "Send" => ~g.prompt /\ Sending(g, held)
            /\ kind = "Change" => Shown(g)
        BY <1>9, <2>5 DEF Undisturbed
      <3>2. kind # "Change" /\ kind # "Load"
        BY <1>9, <3>1 DEF Shown, Idle, Loading, Only
      <3>3. ASSUME kind = "Send" PROVE Sending(h, kept)
        <4>1. Sending(g, held)
          BY <3>1, <3>3
        <4>2. Only(g, p, "Write")
          BY <1>9, <4>1 DEF Sending, Writing, Only, Idle
        <4>3. \A q \in Parts : Idle(a, q)
          BY <1>5, <1>6, <1>9, <2>2, <4>2 DEF Idle, Only, ManagerBecomes
        <4>4. /\ g.manager[v][p].sending = g.view[p].items
              /\ g.view[p].dirty = 0
              /\ p = "mission" => "sendGeoFence" \in g.chain /\ g.view["fence"].dirty < 2
              /\ p = "fence" => /\ "sendRallyPoints" \in g.chain /\ Sent(g, held, "mission")
                                /\ g.view["rally"].dirty = 0
              /\ p = "rally" => Sent(g, held, "mission") /\ Sent(g, held, "fence")
          BY <1>9, <4>1, <4>2 DEF Sending, Writing, Only, Idle
        <4>5. /\ kept[v][p] = a.view[p].items
              /\ a.view[p].dirty = 0
              /\ p = "mission" => "sendGeoFence" \in a.chain /\ a.view["fence"].dirty < 2
              /\ p = "fence" => /\ "sendRallyPoints" \in a.chain /\ Sent(a, kept, "mission")
                                /\ a.view["rally"].dirty = 0
              /\ p = "rally" => Sent(a, kept, "mission") /\ Sent(a, kept, "fence")
          BY <1>9, <2>2, <2>5, <4>4 DEF Sent
        <4>6. Sending(SendComplete(a, p), kept)
          BY <2>2, <4>3, <4>5, PartIsSent
        <4>7. QED BY <4>6 DEF h
      <3>4. QED BY <1>9, <2>2, <2>4, <3>1, <3>2, <3>3 DEF Undisturbed
    <2>6. QED BY <1>9, <2>1, <2>4, <2>5
  <1>10. QED BY <1>8, <1>9

\* A removal ends, which is part of no whole plan.
LEMMA RemoveAllEndsIs ==
    ASSUME NEW g, Good(g), NEW v \in Vehicles, NEW p \in Parts, NEW ok \in BOOLEAN,
           g.manager[v][p].transaction = "RemoveAll", NEW held, NEW kept, NEW kind,
           \A w \in Vehicles : w # v => kept[w] = held[w]
    PROVE  /\ Good(RemoveAllEnds(g, v, p, ok))
           /\ RemoveAllEnds(g, v, p, ok).vehicle = g.vehicle
           /\ Undisturbed(g, held, kind) => Undisturbed(RemoveAllEnds(g, v, p, ok), kept, kind)
  <1> USE PartsAre
  <1> DEFINE a == [g EXCEPT !.manager[v][p].transaction = "None"]
             h == ShowPart(a, p)
             m == [g.manager[v][p] EXCEPT !.transaction = "None"]
  <1>1. RemoveAllEnds(g, v, p, ok) = IF g.vehicle = v /\ ok THEN h ELSE a
    BY DEF RemoveAllEnds
  <1>2. g \in Systems /\ g.manager[v][p] \in Managers
    BY ManagerFields DEF Good
  <1>3. m.transaction = "None"
    BY <1>2 DEF Managers
  <1>4. ManagerBecomes(g, a, v, p, m)
    BY <1>2, TransactionStarts
  <1> HIDE DEF a, m
  <1>5. Good(a) /\ OnlyVehicle(g, a, v) /\ a \in Systems /\ a.vehicle = g.vehicle
    BY <1>2, <1>3, <1>4, ManagerKeeps, KeepsIsGood, ManagerIsOnlyVehicle DEF ManagerBecomes
  <1>6. Showing(a, h)
    BY <1>5, ShowPartIs
  <1> HIDE DEF h
  <1>7. Good(h) /\ h.vehicle = g.vehicle
    BY <1>5, <1>6, KeepsIsGood DEF Showing
  <1>8. Undisturbed(g, held, kind) => kind \notin {"Load", "Send", "Change"} \/ v # g.vehicle
    BY DEF Undisturbed, Loading, Sending, Shown, Writing, Only, Idle
  <1>9. ASSUME Undisturbed(g, held, kind), v # g.vehicle
        PROVE  Undisturbed(RemoveAllEnds(g, v, p, ok), kept, kind)
    <2>1. g.vehicle \in Vehicles
      BY <1>9 DEF Undisturbed
    <2>2. Undisturbed(a, kept, kind)
      BY <1>5, <1>9, <2>1, ElsewhereIsUndisturbed
    <2>3. QED BY <1>1, <1>9, <2>2
  <1>10. ASSUME Undisturbed(g, held, kind), kind \notin {"Load", "Send", "Change"}
         PROVE  Undisturbed(RemoveAllEnds(g, v, p, ok), kept, kind)
    <2>1. g.vehicle \in Vehicles /\ g.initial[g.vehicle].step = Complete
      BY <1>10 DEF Undisturbed
    <2>2. a.initial = g.initial
      BY <1>4 DEF ManagerBecomes
    <2>3. h.initial[g.vehicle].step = Complete
      BY <1>6, <2>1, <2>2 DEF Showing, Keeps, SameConnections
    <2>4. QED BY <1>1, <1>5, <1>7, <1>10, <2>1, <2>2, <2>3 DEF Undisturbed
  <1>11. QED BY <1>1, <1>5, <1>7, <1>8, <1>9, <1>10

\* A transaction ends, whether it succeeds or fails and whatever the vehicle then holds.
LEMMA TransactionEndsKeeps ==
    ASSUME IInv, NEW v \in Vehicles, NEW p \in Parts, NEW ok \in BOOLEAN,
           TransactionEnds(v, p, ok)
    PROVE  IInv'
  <1> DEFINE m == gcs.manager[v][p]
             done == CASE m.transaction = "Write" -> m.sending
                       [] m.transaction = "RemoveAll" -> Empty
                       [] OTHER -> onVehicle[v][p]
             items == IF ok THEN onVehicle[v][p] ELSE Empty
  <1>1. gcs \in Systems /\ Good(gcs) /\ Busy(gcs, v, p) /\ m \in Managers
    BY ManagerFields DEF TransactionEnds, IInv, Good
  <1>2. Supported(v, p) /\ m.transaction \in {"Read", "Write", "RemoveAll"}
    BY <1>1 DEF Good, Sound, Busy, Managers
  <1>3. onVehicle \in [Vehicles -> [Parts -> Plans]]
    BY DEF IInv, TypeOK
  <1>4. done \in Plans /\ items \in Plans /\ onVehicle[v][p] \in Plans
    BY <1>1, <1>2, <1>3 DEF Managers, Plans
  <1>5. PICK held \in IF ok THEN {done} ELSE {done, onVehicle[v][p]} :
          onVehicle' = [onVehicle EXCEPT ![v][p] = held]
    BY DEF TransactionEnds
  <1>6. gcs' = CASE m.transaction = "Read" -> ReadEnds(gcs, v, p, items)
                 [] m.transaction = "Write" -> WriteEnds(gcs, v, p, ok)
                 [] m.transaction = "RemoveAll" -> RemoveAllEnds(gcs, v, p, ok)
    BY DEF TransactionEnds, Becomes
  <1>7. held \in Plans /\ (ok => held = done)
    BY <1>4, <1>5
  <1>8. /\ onVehicle' \in [Vehicles -> [Parts -> Plans]]
        /\ \A w \in Vehicles : w # v => onVehicle'[w] = onVehicle[w]
        /\ \A q \in Parts : q # p => onVehicle'[v][q] = onVehicle[v][q]
        /\ onVehicle'[v][p] = held
    BY <1>3, <1>5, <1>7
  <1>9. \A w \in Vehicles, q \in Parts : ~Supported(w, q) => onVehicle'[w][q] = Empty
    BY <1>2, <1>8 DEF IInv
  <1>10. session.intact => Undisturbed(gcs, onVehicle, session.kind)
    BY DEF IInv
  <1>11. /\ Good(gcs') /\ gcs'.vehicle = gcs.vehicle
         /\ session.intact /\ (ok \/ v # gcs.vehicle) =>
              Undisturbed(gcs', onVehicle', session.kind)
    <2>1. CASE m.transaction = "Read"
      <3>1. done = onVehicle[v][p]
        BY <2>1
      <3>2. gcs' = ReadEnds(gcs, v, p, items)
        BY <1>6, <2>1
      <3>3. held = onVehicle[v][p]
        BY <1>5, <3>1
      <3>4. onVehicle' = onVehicle
        BY <1>3, <1>5, <3>3
      <3>5. CASE ok \/ v # gcs.vehicle
        <4>1. /\ Good(ReadEnds(gcs, v, p, items))
              /\ ReadEnds(gcs, v, p, items).vehicle = gcs.vehicle
              /\ Undisturbed(gcs, onVehicle, session.kind) =>
                   Undisturbed(ReadEnds(gcs, v, p, items), onVehicle, session.kind)
          <5>1. \A q \in Parts : ~Supported(v, q) => onVehicle[v][q] = Empty
            BY DEF IInv
          <5>2. v = gcs.vehicle => items = onVehicle[v][p]
            BY <3>5
          <5> HIDE DEF items
          <5>3. QED BY <1>1, <1>4, <2>1, <5>1, <5>2, ReadEndsIs
        <4>2. QED BY <1>10, <3>2, <3>4, <4>1
      <3>6. CASE ~(ok \/ v # gcs.vehicle)
        \* A read of the active vehicle fails.
        <4> DEFINE none == [w \in Vehicles |-> [q \in Parts |-> Empty]]
        <4>1. \A q \in Parts : ~Supported(v, q) => none[v][q] = Empty
          BY <1>1
        <4>2. v = gcs.vehicle => items = none[v][p]
          BY <1>1, <3>6
        <4> HIDE DEF items, none
        <4>3. /\ Good(ReadEnds(gcs, v, p, items))
              /\ ReadEnds(gcs, v, p, items).vehicle = gcs.vehicle
              /\ Undisturbed(gcs, none, session.kind) =>
                   Undisturbed(ReadEnds(gcs, v, p, items), none, session.kind)
          BY <1>1, <1>4, <2>1, <4>1, <4>2, ReadEndsIs
        <4>4. QED BY <3>2, <3>6, <4>3
      <3>7. QED BY <3>5, <3>6
    <2>2. CASE m.transaction = "Write"
      <3>1. done = m.sending
        BY <2>2
      <3>2. gcs' = WriteEnds(gcs, v, p, ok)
        BY <1>6, <2>2
      <3>3. ok => onVehicle'[v][p] = m.sending
        BY <1>7, <1>8, <3>1
      <3> DEFINE kept == onVehicle'
      <3>4. /\ \A w \in Vehicles : w # v => kept[w] = onVehicle[w]
            /\ \A q \in Parts : q # p => kept[v][q] = onVehicle[v][q]
            /\ ok => kept[v][p] = gcs.manager[v][p].sending
        BY <1>8, <3>3
      <3> HIDE DEF kept
      <3>5. /\ Good(WriteEnds(gcs, v, p, ok))
            /\ WriteEnds(gcs, v, p, ok).vehicle = gcs.vehicle
            /\ (ok \/ v # gcs.vehicle) /\ Undisturbed(gcs, onVehicle, session.kind) =>
                 Undisturbed(WriteEnds(gcs, v, p, ok), kept, session.kind)
        BY <1>1, <2>2, <3>4, WriteEndsIs
      <3>6. QED BY <1>10, <3>2, <3>5 DEF kept
    <2>3. CASE m.transaction = "RemoveAll"
      <3>1. gcs' = RemoveAllEnds(gcs, v, p, ok)
        BY <1>6, <2>3
      <3> DEFINE kept == onVehicle'
      <3>2. \A w \in Vehicles : w # v => kept[w] = onVehicle[w]
        BY <1>8
      <3> HIDE DEF kept
      <3>3. /\ Good(RemoveAllEnds(gcs, v, p, ok))
            /\ RemoveAllEnds(gcs, v, p, ok).vehicle = gcs.vehicle
            /\ Undisturbed(gcs, onVehicle, session.kind) =>
                 Undisturbed(RemoveAllEnds(gcs, v, p, ok), kept, session.kind)
        BY <1>1, <2>3, <3>2, RemoveAllEndsIs
      <3>4. QED BY <1>10, <3>1, <3>3 DEF kept
    <2>4. QED BY <1>2, <2>1, <2>2, <2>3
  <1>12. /\ session' \in [kind : {"None", "Load", "Send", "Change"}, intact : BOOLEAN]
         /\ session'.intact =>
              session' = session /\ session.intact /\ (ok \/ v # gcs.vehicle)
    BY DisturbedSession DEF TransactionEnds, IInv, TypeOK
  <1>13. events' \in 0..MaxEvents /\ UNCHANGED <<connected, edits>>
    BY PlanMasterAssumption DEF TransactionEnds, IInv, TypeOK
  <1>14. TypeOK'
    BY <1>8, <1>11, <1>12, <1>13 DEF IInv, TypeOK, Good
  <1>15. QED BY <1>9, <1>11, <1>12, <1>13, <1>14 DEF IInv

\* Every step keeps the invariant.
LEMMA NextKeeps == IInv /\ [Next]_vars => IInv'
  <1> SUFFICES ASSUME IInv, [Next]_vars PROVE IInv'
    OBVIOUS
  <1>1. ASSUME NEW v \in Vehicles, Connect(v) \/ Disconnect(v) PROVE IInv'
    BY <1>1, ConnectKeeps
  <1>2. ASSUME NEW v \in Vehicles, EarlierStepsDone(v) \/ ParametersReady(v) PROVE IInv'
    BY <1>2, StepDoneKeeps
  <1>3. ASSUME NEW v \in Vehicles \cup {Offline}, ActiveVehicleChanged(v) PROVE IInv'
    BY <1>3, ActiveVehicleKeeps
  <1>4. ASSUME NEW p \in Parts, Edit(p) PROVE IInv'
    BY <1>4, EditKeeps
  <1>5. ASSUME NEW v \in Vehicles, NEW p \in Parts, NEW ok \in BOOLEAN, TransactionEnds(v, p, ok)
        PROVE  IInv'
    BY <1>5, TransactionEndsKeeps
  <1>6. CASE UNCHANGED vars
    BY <1>6 DEF vars, IInv, TypeOK, Good, Sound, Busy, Undisturbed, Loading, Sending, Shown, Only,
                Idle, Loaded, Sent, Writing
  <1>7. QED
    BY <1>1, <1>2, <1>3, <1>4, <1>5, <1>6, SavePlanKeeps, LoadPlanKeeps, SendPlanKeeps,
       RemovePlanKeeps, DiscardKeeps, KeepKeeps, FlyViewKeeps DEF Next

\* The inductive invariant holds in every state.
THEOREM Invariance == Spec => []IInv
  <1>1. Init => IInv
    BY Initially
  <1>2. IInv /\ [Next]_vars => IInv'
    BY NextKeeps
  <1>3. QED BY <1>1, <1>2, PTL DEF Spec

\* Whole plans are loaded and sent: once a load or send that nothing came between has settled,
\* the parts shown and those of the vehicle are the same, though the parts are chained by flags
\* that outlive refusals and are shared with the loads of the initial connection.
THEOREM WholePlansHolds == Spec => []WholePlans
  <1>1. IInv => WholePlans
    <2> SUFFICES ASSUME IInv PROVE WholePlans
      OBVIOUS
    <2>1. TypeOK
      BY DEF IInv
    <2>2. ASSUME NEW kind, Settled(kind)
          PROVE  /\ Undisturbed(gcs, onVehicle, kind)
                 /\ \A p \in Parts : Idle(gcs, p)
      <3>1. Undisturbed(gcs, onVehicle, kind)
        BY <2>2 DEF IInv, Settled
      <3>2. gcs.vehicle # Offline
        BY <3>1, PlanMasterAssumption DEF Undisturbed
      <3>3. QED BY <2>2, <3>1, <3>2, AllIdle DEF Settled
    <2>3. LoadIsWhole
      <3> SUFFICES ASSUME Settled("Load")
                   PROVE  \A p \in Parts : /\ gcs.view[p].dirty = 0
                                           /\ gcs.view[p].items = onVehicle[gcs.vehicle][p]
        BY DEF LoadIsWhole
      <3>1. Loading(gcs, onVehicle) /\ \A p \in Parts : Idle(gcs, p)
        BY <2>2 DEF Undisturbed
      <3>2. QED BY <3>1, PartsAre DEF Loading, Only, Idle, Loaded
    <2>4. SendIsWhole
      <3> SUFFICES ASSUME Settled("Send")
                   PROVE  \A p \in Parts :
                            /\ gcs.view[p].dirty = 0
                            /\ Supported(gcs.vehicle, p) =>
                                 onVehicle[gcs.vehicle][p] = gcs.view[p].items
        BY DEF SendIsWhole
      <3>1. Sending(gcs, onVehicle) /\ \A p \in Parts : Idle(gcs, p)
        BY <2>2 DEF Undisturbed
      <3>2. QED BY <3>1, PartsAre DEF Sending, Writing, Only, Idle, Sent
    <2>5. QED BY <2>1, <2>3, <2>4 DEF WholePlans
  <1>2. QED BY <1>1, Invariance, PTL

\* The initial connection is over only when each of its requests has been answered once, though
\* the slots that advance it are those in which the user's own loads end.
THEOREM CompleteMeansAnsweredHolds == Spec => []CompleteMeansAnswered
  <1>1. IInv => CompleteMeansAnswered
    <2> SUFFICES ASSUME IInv, NEW v \in connected, gcs.initial[v].step = Complete
                 PROVE  Cardinality(gcs.initial[v].first) <= IF v \in UsbDirect THEN 1 ELSE 0
      BY DEF CompleteMeansAnswered
    <2>1. v \in Vehicles /\ Answered(v, gcs.initial[v])
      BY DEF IInv, TypeOK, Good
    <2>2. QED BY <2>1 DEF Answered, Earlier, Mission, RallyPoints, Complete
  <1>2. QED BY <1>1, Invariance, PTL

\* A vehicle that becomes the active one with a clean plan shown and its own plan loaded has its
\* plan shown.
THEOREM NewVehiclesPlanIsShownHolds == Spec => []NewVehiclesPlanIsShown
  <1>1. IInv => NewVehiclesPlanIsShown
    BY DEF IInv, NewVehiclesPlanIsShown, Settled, Undisturbed, Shown
  <1>2. QED BY <1>1, Invariance, PTL

=============================================================================
