-------------------------- MODULE VehicleLinkManager --------------------------
(***************************************************************************)
(* VehicleLinkManager (src/src/Vehicle/VehicleLinkManager.cc): the links   *)
(* over which a vehicle is heard, which of them is primary, and the loss   *)
(* and return of communication; with the reference counts that             *)
(* LinkInterface keeps of the vehicles on a link.                          *)
(*                                                                         *)
(* Every vehicle has a manager of its own; they share the links.  A        *)
(* heartbeat timer is abstracted to whether it has run out.  A link's      *)
(* disconnect() is followed by its `disconnected' signal at any later      *)
(* time, as for the links with a worker thread; until then its messages    *)
(* still arrive.  Spoken and shown messages are left out, and so are       *)
(* RADIO_STATUS messages, which change nothing.                            *)
(***************************************************************************)
EXTENDS Integers, Sequences, SequencesExt, FiniteSets

CONSTANTS
  Vehicles,   \* vehicle objects
  Links,      \* link objects
  Kind,       \* the kind of each link
  NoLink

ASSUME LinkAssumption ==
  /\ IsFiniteSet(Vehicles)
  /\ Kind \in [Links -> {"usb", "normal", "highLatency"}]
  /\ NoLink \notin Links

VARIABLES
  manager,      \* the link manager of each vehicle
  open,         \* LinkManager::_rgLinks
  closing,      \* open links whose disconnect() has been called
  references,   \* _vehicleReferenceCount of each link
  removed       \* vehicles that signalled allLinksRemoved in the last step

vars == <<manager, open, closing, references, removed>>

Managers ==
  [links : Seq(Links),                  \* _rgLinkInfo, in order
   lost : SUBSET Links,                 \* those with commLost
   elapsed : SUBSET Links,              \* those not heard for too long
   primary : Links \cup {NoLink},       \* _primaryLink
   communicationLost : BOOLEAN,         \* _communicationLost
   communicationLostEnabled : BOOLEAN,  \* _communicationLostEnabled
   autoDisconnect : BOOLEAN,            \* _autoDisconnect
   signalledByClose : BOOLEAN,          \* _allLinksRemovedSignalledByCloseVehicle
   checking : BOOLEAN,                  \* _commLostCheckTimer->isActive()
   transmission : {"unset", "stopped", "started"}]
                                        \* the last MAV_CMD_CONTROL_HIGH_LATENCY

NewManager ==
  [links |-> <<>>, lost |-> {}, elapsed |-> {}, primary |-> NoLink,
   communicationLost |-> FALSE, communicationLostEnabled |-> TRUE,
   autoDisconnect |-> FALSE, signalledByClose |-> FALSE, checking |-> FALSE,
   transmission |-> "unset"]

-----------------------------------------------------------------------------
(* One manager.                                                            *)

HighLatency(link) == link # NoLink /\ Kind[link] = "highLatency"

Listed(m)  == Range(m.links)
Healthy(m) == Listed(m) \ m.lost

\* _containsLinkIndex of a link that is listed.
LinkIndex(m, link) == CHOOSE i \in DOMAIN m.links : m.links[i] = link

\* The first of the listed links that is a candidate.
First(m, candidates) ==
  m.links[Min({i \in DOMAIN m.links : m.links[i] \in candidates})]

\* Mutant: a high latency link is kept before a normal one is looked for.
BestActivePrimaryLink_Kept(m) ==
  IF HighLatency(m.primary) THEN m.primary
  ELSE IF Healthy(m) # {} THEN First(m, Healthy(m))
  ELSE NoLink

BestActivePrimaryLink(m) ==
  LET usb    == {link \in Healthy(m) : Kind[link] = "usb"}
      normal == {link \in Healthy(m) : ~HighLatency(link)}
  IN  IF usb # {} THEN First(m, usb)
      ELSE IF normal # {} THEN First(m, normal)
      ELSE IF HighLatency(m.primary) THEN m.primary
      ELSE IF Healthy(m) # {} THEN First(m, Healthy(m))
      ELSE NoLink

UpdatePrimaryLink(m) ==
  LET best == BestActivePrimaryLink(m)
      keep == /\ m.primary \in Listed(m)
              /\ \/ m.primary \notin m.lost /\ ~HighLatency(m.primary)
                 \/ best = NoLink
  IN  IF keep \/ best = m.primary THEN m
      ELSE [m EXCEPT !.primary = best,
                     !.transmission = IF HighLatency(best) THEN "started"
                                      ELSE IF HighLatency(m.primary) THEN "stopped"
                                      ELSE @]

\* Mutant: the check is started with the second link.
AddLink_SecondStarts(m, link) ==
  LET longer == [m EXCEPT !.links = Append(@, link)]
  IN  [UpdatePrimaryLink(longer) EXCEPT !.checking = @ \/ Len(longer.links) = 2]

\* The link is not listed.
AddLink(m, link) ==
  LET longer == [m EXCEPT !.links = Append(@, link)]
  IN  [UpdatePrimaryLink(longer) EXCEPT !.checking = @ \/ Len(longer.links) = 1]

\* Mutant: the primary link is not given up.
RemoveLink_KeepsPrimary(m, link) ==
  LET rest == RemoveAt(m.links, LinkIndex(m, link))
  IN  [m EXCEPT !.links = rest, !.lost = @ \ {link}, !.elapsed = @ \ {link},
                !.checking = @ /\ rest # <<>>]

RemoveLink(m, link) ==
  LET rest == RemoveAt(m.links, LinkIndex(m, link))
  IN  [m EXCEPT !.links = rest,
                !.lost = @ \ {link},
                !.elapsed = @ \ {link},
                !.primary = IF @ = link THEN NoLink ELSE @,
                !.checking = @ /\ rest # <<>>]

\* closeVehicle: every link is removed and no other is chosen.
Closed(m) ==
  [m EXCEPT !.links = <<>>, !.lost = {}, !.elapsed = {}, !.primary = NoLink,
            !.checking = FALSE, !.signalledByClose = TRUE]

\* Mutant: a regained link ends the total loss whatever the others do.
CommRegainedOnLink_Any(m, link) ==
  [UpdatePrimaryLink([m EXCEPT !.lost = @ \ {link}])
     EXCEPT !.communicationLost = FALSE]

\* The link is listed and lost.  Total loss is over when no link is lost.
CommRegainedOnLink(m, link) ==
  LET regained == UpdatePrimaryLink([m EXCEPT !.lost = @ \ {link}])
  IN  [regained EXCEPT !.communicationLost = @ /\ regained.lost # {}]

\* A message that is not RADIO_STATUS.
Heard(m, link) ==
  IF link \notin Listed(m) THEN AddLink(m, link)
  ELSE LET restarted == [m EXCEPT !.elapsed = @ \ {link}]
       IN  IF link \in m.lost THEN CommRegainedOnLink(restarted, link)
           ELSE restarted

\* The links after the loop of _commLostCheck.  High latency links are never
\* lost.
LinksChecked(m) ==
  UpdatePrimaryLink(
    [m EXCEPT !.lost = @ \cup {link \in m.elapsed : ~HighLatency(link)}])

-----------------------------------------------------------------------------
(* Events.                                                                 *)

\* The vehicles that list a link.
On(link) == {v \in Vehicles : link \in Listed(manager[v])}

\* Mutant: the count is looked at before it is decreased.
Unreferenced_Before(links) == {link \in links : references[link] = 0}

\* The links that lose their last reference; they are disconnected.
Unreferenced(links) == {link \in links : references[link] = 1}

\* closeVehicle: references of all its links, allLinksRemoved always.
Close(v) ==
  LET links == Listed(manager[v])
  IN  /\ references' = [link \in Links |->
                          IF link \in links THEN references[link] - 1
                          ELSE references[link]]
      /\ closing' = closing \cup (Unreferenced(links) \cap open)
      /\ removed' = {v}
      /\ UNCHANGED open

CloseVehicle(v) ==
  /\ manager' = [manager EXCEPT ![v] = Closed(@)]
  /\ Close(v)

\* A message of the vehicle, heard by all its objects.
MessageReceived(hearers, link) ==
  /\ link \in open
  /\ manager' = [v \in Vehicles |->
                   IF v \in hearers THEN Heard(manager[v], link) ELSE manager[v]]
  /\ references' = [references EXCEPT ![link] =
                      @ + Cardinality({v \in hearers : link \notin Listed(manager[v])})]
  /\ removed' = {}
  /\ UNCHANGED <<open, closing>>

\* heartbeatElapsedTimer passes _heartbeatMaxElpasedMSecs.
HeartbeatElapsed(v, link) ==
  /\ link \in Listed(manager[v]) \ manager[v].elapsed
  /\ ~HighLatency(link)
  /\ manager' = [manager EXCEPT ![v].elapsed = @ \cup {link}]
  /\ removed' = {}
  /\ UNCHANGED <<open, closing, references>>

\* The timer of the check; closes says whether a listener closes the vehicle on
\* communicationLostChanged.
CommLostCheck(v, closes) ==
  \E m \in {LinksChecked(manager[v])} :
    LET total == ~m.communicationLost /\ Healthy(m) = {}
    IN  /\ manager[v].checking
        /\ manager[v].communicationLostEnabled
        /\ \/ /\ ~total
              /\ manager' = [manager EXCEPT ![v] = m]
              /\ removed' = {}
              /\ UNCHANGED <<open, closing, references>>
           \/ /\ total
              /\ ~m.autoDisconnect /\ ~closes
              /\ manager' = [manager EXCEPT ![v] =
                               [m EXCEPT !.communicationLost = TRUE]]
              /\ removed' = {}
              /\ UNCHANGED <<open, closing, references>>
           \/ /\ total
              /\ m.autoDisconnect
              /\ manager' = [manager EXCEPT ![v] = Closed(m)]
              /\ Close(v)
           \/ /\ total
              /\ ~m.autoDisconnect /\ closes
              /\ manager' = [manager EXCEPT ![v] =
                               [Closed(m) EXCEPT !.communicationLost = TRUE]]
              /\ Close(v)

\* `disconnected': LinkManager forgets the link, the vehicles remove it.
LinkDisconnected(link) ==
  LET on      == On(link)
      left(v) == UpdatePrimaryLink(RemoveLink(manager[v], link))
  IN  /\ link \in open
      /\ open' = open \ {link}
      /\ closing' = closing \ {link}
      /\ manager' = [v \in Vehicles |-> IF v \in on THEN left(v) ELSE manager[v]]
      /\ references' = [references EXCEPT ![link] = @ - Cardinality(on)]
      /\ removed' = {v \in on : /\ left(v).links = <<>>
                                /\ ~left(v).signalledByClose}

\* createConnectedLink, with a new link object.
CreateConnectedLink(link) ==
  /\ link \notin open
  /\ open' = open \cup {link}
  /\ references' = [references EXCEPT ![link] = 0]
  /\ removed' = {}
  /\ UNCHANGED <<manager, closing>>

SetPrimaryLinkByName(v, link) ==
  /\ link \in Listed(manager[v])
  /\ manager' = [manager EXCEPT ![v].primary = link]
  /\ removed' = {}
  /\ UNCHANGED <<open, closing, references>>

SetCommunicationLostEnabled(v, communicationLostEnabled) ==
  /\ manager' = [manager EXCEPT ![v].communicationLostEnabled =
                   communicationLostEnabled]
  /\ removed' = {}
  /\ UNCHANGED <<open, closing, references>>

\* A property the firmware upgrade page sets, never to be unset.
SetAutoDisconnect(v) ==
  /\ manager' = [manager EXCEPT ![v].autoDisconnect = TRUE]
  /\ removed' = {}
  /\ UNCHANGED <<open, closing, references>>

-----------------------------------------------------------------------------

Init ==
  /\ manager = [v \in Vehicles |-> NewManager]
  /\ open = {}
  /\ closing = {}
  /\ references = [link \in Links |-> 0]
  /\ removed = {}

Next ==
  \/ \E v \in Vehicles :
       \/ \E link \in Links :
            \/ MessageReceived({v}, link)
            \/ HeartbeatElapsed(v, link)
            \/ SetPrimaryLinkByName(v, link)
       \/ CommLostCheck(v, FALSE)
       \/ CloseVehicle(v)
       \/ \E b \in BOOLEAN : SetCommunicationLostEnabled(v, b)
       \/ SetAutoDisconnect(v)
  \/ \E link \in Links : LinkDisconnected(link) \/ CreateConnectedLink(link)

Spec == Init /\ [][Next]_vars

\* The check has something to notice.
SomethingToNotice(v) ==
  LET m == LinksChecked(manager[v])
  IN  /\ manager[v].checking
      /\ manager[v].communicationLostEnabled
      /\ m # manager[v] \/ (~m.communicationLost /\ Healthy(m) = {})

\* The check's timer runs, and so does the heartbeat timer of a link that counts
\* as lost when it is silent.  Weak fairness is written out, with what enables
\* the action, to spare TLC the evaluation of ENABLED.
FairSpec ==
  /\ Spec
  /\ \A v \in Vehicles :
       /\ []<>~SomethingToNotice(v) \/ []<><<CommLostCheck(v, FALSE)>>_vars
       /\ \A link \in Links :
            \/ []<>(\/ link \notin Listed(manager[v]) \ manager[v].elapsed
                    \/ HighLatency(link))
            \/ []<><<HeartbeatElapsed(v, link)>>_vars

-----------------------------------------------------------------------------
(* Properties.                                                             *)

\* The fields of every manager keep their types and the shared variables
\* theirs (VehicleLinkManager.h:76-89, LinkInterface.h:79).
TypeOK ==
  /\ manager \in [Vehicles -> Managers]
  /\ open \subseteq Links
  /\ closing \subseteq open
  /\ references \in [Links -> Nat]
  /\ removed \subseteq Vehicles

\* A vehicle lists open links only, each once, and counts as a reference to
\* each of them (_addLink, _removeLink, LinkInterface).
ReferencesAreListings ==
  /\ \A v \in Vehicles :
       /\ Listed(manager[v]) \subseteq open
       /\ IsInjective(manager[v].links)
       /\ manager[v].lost \cup manager[v].elapsed \subseteq Listed(manager[v])
  /\ \A link \in Links : references[link] = Cardinality(On(link))

\* A link is disconnected with the last vehicle that leaves it, and not while
\* another is on it (LinkInterface::_connectionRemoved, removeVehicleReference).
DisconnectedWithLastVehicle ==
  [][\A link \in open \cap open' :
       /\ On(link) # {} /\ On(link)' = {} => link \in closing'
       /\ link \in closing' \ closing => On(link)' = {}]_vars

\* The primary link is one of the vehicle's own links, and there is none only
\* when no link is left over which the vehicle is heard: requests are never
\* handed to a link that has been removed, nor dropped while a link works
\* (_updatePrimaryLink after every change of the list).
PrimaryIsListed ==
  \A v \in Vehicles :
    LET m == manager[v]
    IN  IF m.primary = NoLink THEN Healthy(m) = {} ELSE m.primary \in Listed(m)

\* The three together, which hold in every state.
Consistent == TypeOK /\ ReferencesAreListings /\ PrimaryIsListed

\* High latency links are used sparingly: they never count as lost, and no
\* step moves the primary link to one while a normal link is healthy, unless
\* the user names it; the vehicle is told to transmit over it.
HighLatencyIsLastResort ==
  [][\A v \in Vehicles :
       LET m == manager'[v]
       IN  /\ \A link \in m.lost : ~HighLatency(link)
           /\ m.primary # manager[v].primary /\ HighLatency(m.primary) =>
                \/ /\ \A link \in Healthy(m) : HighLatency(link)
                   /\ m.transmission = "started"
                \/ SetPrimaryLinkByName(v, m.primary)]_vars

\* A total loss is announced only when no link is healthy, and withdrawn only
\* when all are.
TotalLossIsTotal ==
  [][\A v \in Vehicles :
       /\ ~manager[v].communicationLost /\ manager'[v].communicationLost =>
            Healthy(manager'[v]) = {}
       /\ manager[v].communicationLost /\ ~manager'[v].communicationLost =>
            manager'[v].lost = {}]_vars

\* When a vehicle that has links falls silent on all of them, while the check
\* is enabled, this is noticed: the check's timer runs whenever there are links
\* to check (_addLink, _removeLink).
SilenceIsNoticed ==
  \A v \in Vehicles :
    LET m == manager[v]
    IN  (m.links # <<>> /\ Listed(m) = m.elapsed /\ m.communicationLostEnabled) ~>
          \/ m.communicationLost
          \/ Listed(m) # m.elapsed \/ m.links = <<>> \/ ~m.communicationLostEnabled

\* With a healthy normal link that stays so, the primary link is again and
\* again a healthy normal one, whatever link the user or an outage left it on.
PrimaryRecovers ==
  \A v \in Vehicles : \A link \in Links :
    <>[](/\ link \in Healthy(manager[v]) /\ ~HighLatency(link)
         /\ manager[v].communicationLostEnabled)
      => []<>(/\ manager[v].primary \in Healthy(manager[v])
              /\ ~HighLatency(manager[v].primary))

=============================================================================
