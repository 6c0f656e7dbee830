# A verification project for the ground station

The repository is a ground control station: a fork of QGroundControl (C++ and
QML on Qt) with a fly view, an encrypted TCP link and a port scanner of its
own. It talks MAVLink to vehicles over unreliable links, and most of its core
is small protocol machines in one event loop: they send a message, start a
timer, and go on when an answer, a wrong answer, or nothing comes. This
directory models those machines in TLA+, checks them with TLC on small
instances, and proves what matters most about six of them for every instance
with TLAPS.

`PROJECT.json` lists the components, the runs, the mutants that show that each
property can fail, the source lines behind each definition, the hazards and the
theorems. This file explains them.

## 1. Inventory

Paths are below `src/src/`. *Hard* names what a unit test hardly reaches.

### Modelled

**PlanManager** (`MissionManager/PlanManager.cc`). The ground station's half of
the mission protocol, for one plan type (mission, fence, rally points).
*State*: transaction in progress, expected answer, retry count, one timer, the
list of items read so far, the indices still to read or to write, the list
being written, the connections of its message slot. *Operations*: load, write,
remove all, guided item, resume mission. *Interacts* with the vehicle's
primary link, with clients by completion signals. *Hard*: late, duplicated and
unrequested messages; no transaction id in MISSION_ACK; retries; a failure in
the middle. *Correct when* a transaction always ends, by one completion of its
kind; the items received and those missing make up the plan; a partial plan is
never shown; success means that it is so on the vehicle.

**MissionManager** (`MissionManager/MissionManager.cc`). Adds the index the
vehicle is at and the one to resume from. *Hard*: MISSION_CURRENT and HEARTBEAT
are separate messages; a transaction may replace the plan between them.
*Correct when* the resume index is one the vehicle was at in mission mode.

**MockLinkMissionItemHandler** (`Comms/MockLink/`). The simulated vehicle's
half, with the failure modes of the unit tests.

**VehicleLinkManager** (`Vehicle/VehicleLinkManager.cc`), with the reference
counts of `Comms/LinkInterface.cc`. *State*: the links of a vehicle in order,
which are lost, the primary link, whether communication is lost, a timer; per
link a count of vehicles. *Operations*: message received, check of the
heartbeats, link disconnected, close, primary link by name. *Interacts* with
LinkManager (links come and go), with MultiVehicleManager (`allLinksRemoved`),
with every sender (primary link). *Hard*: the order in which links fall
silent, come back and go; links shared between vehicles. *Correct when* the
primary link is a link of the vehicle, and a working one if there is one; loss
is announced, and only when total; a link goes with its last vehicle.

**MultiVehicleManager** (`Vehicle/MultiVehicleManager.cc`). *State*: the list
of vehicles, the active one, two announcements (available, parameters ready),
selected vehicles. *Operations*: a heartbeat of an unknown vehicle, activation
and deletion, each in two phases 20 ms apart. *Interacts* with the link
managers and with the fly view, which sets the active vehicle from slots of
the manager's own signals (`FlightDisplay/CustomFlyView.qml`,
`FlightDisplay/DroneList.qml`). *Hard*: re-entrance, several second phases
pending, a vehicle that comes back while its old object is not destroyed.
*Correct when* no destroyed vehicle is active or about to be; each vehicle is
deleted once; activation settles on what the user selected.

**MAV_CMD queue and message requests** (`Vehicle/Vehicle.cc`). *State*: the list
of commands waiting for an ack, with tries and age; the map of requested
messages, whose entries are raw pointers shared with the list's handlers.
*Operations*: `sendMavCommand`, `requestMessage`, an ack, a message, the
time-out check. *Interacts* with the link managers (primary link), with every
component that commands the vehicle (result handlers, which may make further
calls). *Hard*: acks match by component and command only; no link at a retry;
ack, message, time-out and refusal race for the same info; two requests for one
message. *Correct when* every call is answered, once; no info is used after its
deletion; list and map agree; what the vehicle has is not sent again.

**FTP client and server** (`Vehicle/FTPManager.cc`,
`Comms/MockLink/MockLinkFTP.cc`). *State*: one operation as a table of states, the
expected sequence number, the missing blocks, the bytes counted, one timer; the
server's open file and last reply. *Operations*: download, list directory,
cancel; a reply; a time-out. *Interacts* with component metadata and
parameters, which start operations, and with the primary link. *Hard*: bursts
with holes, late and repeated replies, sequence numbers that wrap, retries that
were not sent. *Correct when* every operation ends; what is reported complete is
the whole file or listing.

**ParameterManager** (`FactSystem/ParameterManager.cc`). *State*: per component
the indices, names and writes waited for with their retry counts, the batch
queue, four timers, the facts. *Operations*: refresh of all or of one
parameter, a write, PARAM_VALUE, `_HASH_CHECK`, time-outs, progress and end of an
FTP download. *Interacts* with FTPManager, with the initial connection and
MultiVehicleManager (`parametersReady`). *Hard*: components answer interleaved;
one timer for loads, reads and writes; the FTP download falls back to messages;
values overtaken by writes. *Correct when* a load ends and tells what is missing;
a write ends; a fact that nothing is pending for has the vehicle's value.

**Encrypted TCP link** (`TcpConnection/`: EncryptedMavlinkLink over
EncryptedTcpPipe over TcpClient or a server socket, CryptoLinkMonitor). *State*:
at each layer whether it is connected; crypto sessions; failure streak,
suspension; the watchdog; whether the client reconnects by itself. *Operations*:
connect, disconnect, resume; socket events, data that can or cannot be
deciphered, two timers. *Hard*: a drop runs the same slots as a disconnection; a
failure can come inside `start`; a suspension closes a socket that then signals
nothing. *Correct when* the layers agree; suspension comes after exactly the
configured failures and lasts until the user ends it; until then the link tries
again.

**Plan view over vehicles** (`MissionManager/PlanMasterController.cc`, the
mission, fence and rally controllers and managers,
`Vehicle/InitialConnectStateMachine.cc`). *State*: the active vehicle, four
flags that chain three transactions into one load or upload, per part what is
shown and whether it is dirty; per vehicle the step of its initial connection.
*Operations*: load, send, remove, edit, change of the active vehicle, the prompt
on a dirty plan, the fly view's resume and remove-all; the end of each
transaction. *Interacts* with three PlanManagers of each vehicle, with
ParameterManager and MultiVehicleManager. *Hard*: user and initial connection
load from the same managers at the same time; flags outlive the vehicle they
were set for; a refused load signals nothing. *Correct when* what has been asked
for is there as a whole; no flag is left for the next completion; a vehicle that
stays connected ends its initial connection, each of its requests answered; the
new active vehicle's plan is the one shown.

### Not modelled

| Component | Why |
| --- | --- |
| Cipher engines, crypto configuration (`TcpConnection/`) | a vendor library and parsing; no control a model could tell apart |
| Mission editing (`MissionManager/MissionController.cc`, complex items) | geometry and presentation; what it sends goes through PlanManager |
| LinkManager, link configurations (`Comms/`) | what others see of it (a link comes, is disconnected, goes with its last reference) is part of VehicleLinkManager; the rest scans devices |
| UDP, TCP, serial, Bluetooth, log replay, port scanner (`Comms/`) | socket and serial I/O behind LinkInterface |
| MAVLink framing, signing, stream rates (`Comms/MAVLinkProtocol.cc`, `MAVLink/`) | the generated library's parsing, loss statistics, log file |
| StatusTextHandler, ImageProtocolManager (`MAVLink/`) | small, with no protocol around them; their one hazard each is listed |
| Component metadata (`Vehicle/ComponentInformation/`) | a queue of requests over the FTP client and `requestMessage`; what it adds is parsing and a file cache |
| Log download (`AnalyzeView/`), log streaming (`Vehicle/MAVLinkLogManager.cc`) | offset arithmetic and file or HTTP I/O around one request and its retry |
| Remote ID, terrain protocol, gimbal, autotune, standard modes; terrain queries | small telemetry-driven helpers; HTTP and tiles |
| Cameras (`Camera/`) | settings from XML definitions; retries resemble those of the command queue |
| Tile cache, video, 3D viewer, UTM service | media and network I/O |
| Facts, settings, firmware and autopilot plug-ins | containers and tables; PlanManager's `SendHome` and `ApmFirmware` are what it takes from them |
| Firmware upgrade | a synchronous serial dialogue |
| Positioning, GPS, follow me, ADS-B, joystick | device input turned into periodic messages |
| User interface | QML; the slots that call back into the managers are modelled with them |

## 2. Plan

What everything else relies on came first. Each step is done.

1. `PlanMessages`, `PlanManager`, `PlanTransaction`: the detailed machine, what
   its clients are promised, the refinement, proofs.
2. `MockLinkMissionItemHandler`, `PlanTransfer`: closes the system with the
   simulated vehicle and a lossy link; proof.
3. `MissionManager` over `PlanManager`; proof.
4. `VehicleLinkManager`, `MultiVehicleManager` over it; proofs of each.
5. `CommandQueue`, against any vehicle; proof.
6. `MockLinkFTP`, `FTPManager` over its packets, `FTPTransfer` composing the two;
   proof.
7. `ParameterManager`, which sees the FTP client as an operation that ends; proof.
8. `PlanMaster`, which sees each PlanManager as `PlanTransaction` promises, with
   the initial connection; proof.
9. `EncryptedTcpPipe`; proof.

What could come next is what section 5 lists as only model-checked.

Bounds throughout: two of each actor, three where an order matters, one retry
instead of three or five, at most three operations in a row. Every recursion is
a fold of the community modules, so that any module can be proved about.

## 3. The modules

| Module | Models | State ↔ code | Actions ↔ code |
| --- | --- | --- | --- |
| `PlanMessages` | the mission protocol's messages, as both sides see them | — | — |
| `PlanManager` | one PlanManager, with MissionManager's writes | a variable for each field, by its name; `connections` counts `connect` calls; `sent`, `outcome`: what the last step sent and signalled | one per public operation, message handler and branch of `_ackTimeout` |
| `PlanTransaction` | what clients are promised: one transaction, one completion, whole plans | what a client can see | start and end per kind |
| `MockLinkMissionItemHandler` | the simulated vehicle | its fields; `replies` | one per message id, with the failure modes |
| `PlanTransfer` | the two, and a link | a queue each way, messages lost and operations used so far; `late`: the timer may fire while answers are under way; `invented`: the vehicle was asked for an item it did not have | `Call`, `GcsReceives`, `VehicleReceives`, `Timeout` |
| `MissionManager` | resume index, over `PlanManager` | three indices; the vehicle's item, mode (and whether it has been left and entered again), and reports under way | the two handlers; the vehicle moves, reports; a report is lost |
| `VehicleLinkManager` | the link managers of all vehicles, reference counts | a record per vehicle; per link open, closing, references | one per slot and operation; the helpers (`AddLink`, `UpdatePrimaryLink`, ...) are functions on the record, composed as the code calls them |
| `MultiVehicleManager` | vehicles come, are active, and go, over `VehicleLinkManager` | the fields; `timers`: pending second phases in order; `selection`: the fly view | one per slot, `SecondPhase` for both timers, the user's choices |
| `CommandQueue` | the command list and the map of requested messages | list, map, waits; `calls`: the calls made, which stand for the infos; `answers`: how often each handler was called; `walk`: where the time-out check has come to | the two calls (also out of a result handler), the timer, one entry of the check, an ack, a requested and any other message, the link |
| `MockLinkFTP` | the simulated server | a record: file open, last reply | what it answers to a request |
| `FTPManager` | the client | a record with the fields of both downloads and listings | functions on it, one per operation, reply handler and time-out |
| `FTPTransfer` | the two, and a link that loses, duplicates, delays and goes away | two queues; `overlapping`: whether a burst was asked for with another on its way | calls, receipts, the time-out, the faults |
| `ParameterManager` | the manager, and the vehicle's parameters | a record with the manager's maps, timers and facts; PARAM_VALUEs in the air | one per public operation, message, timer and FTP signal; the helpers are functions on the record |
| `EncryptedTcpPipe` | the three layers of a link and the monitor | one record for the objects of a link | one per event of the user, the socket, the data and a timer; the slots are functions on the record |
| `PlanMaster` | the plan view over all vehicles | one record for controllers, managers and state machines; what each vehicle holds | the user's operations, the end of a transaction with every slot it reaches, vehicles that come, go and become active |
| `*Proofs` | proofs about `PlanManager`, `MissionManager`, `MultiVehicleManager` with `VehicleLinkManager`, `CommandQueue`, `FTPTransfer`, `ParameterManager`, `EncryptedTcpPipe`, `PlanMaster` | | |
| `MC*` | instances for TLC | | |

What is abstracted. A mission item is its command and the one parameter that
the code changes (DO_JUMP's target). The lists of indices are sets (they are
ascending and only lose elements). A heartbeat timer is whether it has run out.
Signals are slots called at once, as Qt does for objects of one thread, and the
slots that call back are part of the step: the fly view's answer to
`activeVehicleChanged` is inside `ChangeActive`, and the end of a transaction in
`PlanMaster` runs the slots of the vehicle, the master controller and the part's
controller in the order they were connected. A link's disconnection is
signalled at any later time, as with a worker thread. A file is a number of
blocks, each the data of one packet. A parameter is its component and index. A
plan part is the vehicle it came from, an edit, or empty. Bytes on the encrypted
link are chunks that can be deciphered or not, with a MAVLink frame in them or
not. Progress, error texts, speech and log output are left out.

`_retryCount` and, in the simulated vehicle, the request type are read before
they are written in some histories; such a read may give any of the values in
`UninitializedInts`.

## 4. The runs

TLC checks for deadlock except where the bounds make the system stop: when the
operations (`PlanTransfer`), calls (`CommandQueue`, `ParameterManager`), downloads
(`FTPTransfer`) or events (`PlanMaster`) are used up.

| Run | Question | Bounds, and why they suffice |
| --- | --- | --- |
| `plan_manager` | Do the lists, the timer and the connections stay consistent, and does it implement `PlanTransaction`, whatever the vehicle sends and whenever? | plans of 2 items, 1 retry. Two items give a first, a last, a repeated, a skipped and a surplus index; a retry gives a repeated connection. ArduPilot: home position, guided items, ignored acks. The theorems cover all sizes and PX4 |
| `mission_index` | Can the landing sequence of a return to launch become the resume index? | a PX4 vehicle, items 0–1 and the landing sequence, two reports under way, plan transactions of one item at any time; the property is claimed until the vehicle goes back to mission mode |
| `transfer` | Is what is reported done on the vehicle; is the plan read the vehicle's; does every transaction end? | a PX4 vehicle (items are renumbered), two operations, three losses; lists of up to three items to write, since a duplicated MISSION_COUNT and a loss leave a hole in no shorter one; in some behaviours answers are faster than the timer, in others (`late`) it fires while they are under way, so that requests and answers are duplicated. The two safety properties are proved for any number, and in all failure modes |
| `transfer_failures` | Does each failure mode of the simulated vehicle fail the transactions that the tests say, in any sequence of operations? | all modes, three operations, plans of 4 items as in the tests, no losses. Proved for any number and size |
| `vehicle_links` | Primary link and total loss under any order of events; is silence noticed, does the primary link recover? | one vehicle; a cable, a radio and a satellite link, one per kind the code tells apart |
| `vehicles` | Deletion, activation and shared links under any interleaving | two objects and two ids, that is, both two vehicles and one that comes back; one link, so that it is shared. Two pending timers when the user acts; steps that add more are not bounded. A removed object that hears a message leaks its reference: `leaked` notes the links |
| `command_queue` | Is every call answered, and once; do list and map agree; is anything sent again that should not be? | one component and all components, two messages, three calls (the third meets two that are pending), three tries, the link comes and goes. Safety also holds with four calls |
| `ftp` | Is a completed download or listing whole; is every hole known; does every operation end? | a file of four packets in bursts of three, so that a burst ends within the file and with it, and holes lie at its start, in its middle and past it; two operations, two faults (losses, duplicates, delays, early time-outs, failures), one retry. With a file of three packets the server's repetition of its last answers hides what overlapping bursts do. Safety also holds with three faults, and with 5, 7 and 9 packets |
| `parameters` | Does a load end and tell what is missing; does a write end; do facts agree with the vehicle? | an autopilot with two parameters and a component with one, which shares an index; two values; one retry of each kind; batches of one; two calls. A parameter file comes whole, with wrong values, short, or fails half way. Safety also holds with three calls; of one parameter, with four and three PARAM_VALUEs in the air. It is proved for any number |
| `encrypted_tcp` | Do the layers agree; is a suspension earned and does it last; does a client keep trying? | a limit of three failures: first, middle and last. Everything else is finite |
| `plan_master` | Is what has been asked for there as a whole; does the initial connection end; is the new vehicle's plan shown? | two vehicles, one that supports fences and rally points, one connected over USB; one edit, five events (calls, connections, changes, failures): a load or upload, disturbed by another user action, a change of vehicle and a failure. The safety properties are proved for any number |

One run expects a violation: `encrypted_tcp_retry`. The comment at
`EncryptedTcpPipe.cpp:221` promises that a failure below the limit drops the
connection and tries again after a back-off; the drop passes through
`onSocketDisconnected`, which switches automatic reconnection off for a
connection that was up (line 396). So a client that fails once to decipher stays
down, unsuspended, and the user's resume, which looks at the suspension, does
nothing. The quote is under "findings".

### What does not hold, and how the properties say so

Where the code falls short of what a property would say at first, the property
excludes exactly that case, through a history variable or a condition that names
it. These are the disagreements met while modelling.

*Plans.* A MISSION_ACK names no transaction, so with late answers the ack of an
earlier write ends a later one: `ReportedIsDone` makes no claim for writes when
`late`. The simulated vehicle counts the items that arrive and does not look at
their numbers (`MockLinkMissionItemHandler.cc:382`). When a duplicated MISSION_COUNT
and a loss make the same item arrive twice, it acknowledges a plan with a hole. The
ground station notices that, but its next read is told the count, asks for the
missing item, and the `operator[]` that looks it up (line 212) inserts an empty
one: the read succeeds with one item fewer than the vehicle then holds. The attempt
to prove `ReadPlanIsTheVehicles` showed it; the property excludes it
(`invented`). A guided item that times out is signalled as a failed write
(`PlanManager.cc:246`, against the comment at line 830). After a successful write
to PX4 the cached DO_JUMP targets are one too low (line 842 against 833). An index
cached by MissionManager survives the report that the vehicle went back, and the
plan it belongs to (`MissionManager.cc:270`, `PlanManager.cc:909`).

*Links and vehicles.* A high latency link made primary by name is not told to
transmit (`VehicleLinkManager.cc:397`). A total loss is not withdrawn when the lost
link is disconnected instead of regained (line 110; the fly view hides this by
closing a lost vehicle). A removed vehicle that hears a message before it is
destroyed takes a reference to the link that nobody gives back (line 194), so that
the link stays open when the last object that lists it has gone.
`LinkGoesWithLastVehicle` excludes that case and nothing else (`leaked`): it does not
catch the leak.
`activeVehicleAvailable` can stay true with no active vehicle
(`MultiVehicleManager.cc:293`): `SettlesOnSelection` claims the announcement in
one direction, once all timers have fired.

*Commands.* The elapsed timer of a command is not restarted when it is sent again
(`Vehicle.cc:2791`), so that the later tries follow at every check. A second
request for a message overwrites the first in the map (line 3012), and a command
without a link is dropped without a word (line 2666) while its info stays in the
map, whose message may later take the list entry of another request. Both set
`untracked`, under which `ListAndMapAgree` and `CallsAreAnswered` claim nothing;
`AnsweredOnce` and `InfosAreAlive` hold even then.

*FTP.* A retry subtracts 2 from the expected sequence number also when the
request was not sent (`FTPManager.cc:367`): the server then repeats the end of the
file, and a duplicated reply is listed twice (`unsent`). Numbers are compared with
`<` although they wrap (line 394, against the comment at 240), after the timer has
been stopped (391): past 0 the client hangs (`wrapped`; `SeqModulus` is large
enough that it happens only by counting back). A URI that cannot be parsed leaves
the table filled and every later operation refused (line 58; `ValidURIs`). Calling
`cancelDownload` with no download running can drop a listing (`CancelAnytime`).
The server's comparison for repeated requests misses the wrap as well
(`MockLinkFTP.cc:292`). After a time-out with a burst still on its way, bursts
overlap (`overlapping`): the end of one may have the number that is expected of the
other, and the client takes it for the end of the file (`FTPManager.cc:445`). A
download that compares sizes then reads what is missing or fails; one that does not,
as that of the parameters (`ParameterManager.cc:475`), may complete with a block
missing.

*Parameters.* Any PARAM_VALUE of the name ends a pending write
(`ParameterManager.cc:270`; `forgotten`). It need not even have another value:
when a value is written and then the one before it, a PARAM_VALUE from before both
ends the second write, and the answer to the first, still to come, then sets the
fact to a value that the vehicle no longer has. The attempt to prove
`SettledFactsAgree` showed this, with more calls and messages than the run has;
`Mistaken` counts it.

The parameter file is parsed fact by fact (1488-1510). When it fails in mid-parse the
facts set so far stay, while the component gets no waiting lists and no parameter
count (1515-1519 are skipped). When it ends within a value the loop is left as at
the end of a whole file (1511), and it is taken for whole. An FTP download that completes with a block
missing yields such files. Since the end of a load tests only that the default
component has some facts (1094), the answer of another component may then end it as
whole while the autopilot is incomplete: `MissingIsTold` excludes the autopilot after
such a file, until it has answered (`partial`). A write to a fact of a component
without waiting lists is sent once, is not waited for and can be lost (375;
`forgotten`). The values of a damaged file, as those of an older one, may be wrong
(`stale`); names in it are taken to be right. What `SettledFactsAgree` claims of a
half-read file is that the facts it did set agree with the vehicle.

Four paths stop the last timer of a load: a `_HASH_CHECK`
(line 205), progress of a download whose end a second refresh has disconnected
(473), the second time-out of the wait for the default component (661), the start
of a download while other components' parameters wait (474); they set `left`,
which `LoadEnds` excludes. With ArduPilot the last one stops the retry of a write
too: `WritesEnd` is claimed for PX4. The batch queue holds indices without their
component (621), which delays a load and does not stop it.

*Encrypted link.* `max_consecutive_failures` may be 1 (`TngCryptoConfig.cpp:525`);
then a failure inside `start` is undone by the rest of `start`, and neither
`LayersAgree` nor `Suspension` holds. A server whose port cannot be opened starts
silently. Without `fail_on_error`, sessions that cannot be opened leave a
connection that carries nothing. The monitor's flags are shared by all links, so
one link is modelled. A disconnection while suspended leaves the monitor showing
the suspension.

*Plan view.* A vehicle that becomes active while its initial plan is being loaded
keeps the plan of the one before it in view (`PlanMasterController.cc:176`,
`MissionController.cc:2334`); also when the plan request has been forced complete
and the mission is read later: `NewVehiclesPlanIsShown` is claimed of a vehicle
whose initial connection is over. The attempt to prove more showed it, in a
behaviour of seven events, beyond the run's bound. Flags of a vehicle lost in the middle of a download
let a later load overwrite an edited plan (`PlanMasterController.cc:166`). "Keep
current plan" still lets an empty part be filled. What is edited during an upload
is marked clean. Some edits of a fence's second shape, and deleting or moving a
rally point, do not mark the plan dirty. A load refused because a write or removal
is under way stalls the initial connection (`InitialConnectStateMachine.cc:351`;
`InitialPlanIsLoaded` assumes reads only). Parameters requested by hand from a USB
vehicle advance the machine once too often (`CompleteMeansAnswered` allows one).
A fence without a breach return point keeps that of the fence before
(`GeoFenceManager.cc:135`), which is left out of the model: a fence is one value.

### Fairness

Qt's event loop delivers queued events, and a running `QTimer` fires; that is what
is assumed, and nothing of the user, of the application, or of a link. Losses are
bounded in number, and may all fall on one operation.

- `PlanTransfer`: weak fairness of receiving on both sides and of the time-out.
- `VehicleLinkManager` (`FairSpec`): of the check, a repeating one-second timer,
  and of a heartbeat timer running out on a link that stays silent.
- `CommandQueue`: of the repeating timer, of its handler going on to the end, and
  of other messages arriving while a request is overdue: a connected vehicle sends
  heartbeats, and the code looks at overdue requests only when a message arrives.
- `FTPTransfer`: of receiving on both sides and of the time-out.
- `ParameterManager`: timers run out, a message in the air arrives or is lost, and
  FTPManager ends what it has begun, which `OperationsEnd` shows of it.
- `EncryptedTcpPipe`: of the reconnection timer.
- `PlanMaster`: a transaction ends, which `TransactionsEnd` shows of it; what the
  earlier steps of the initial connection ask for is answered or given up; so are
  the parameters.

In `VehicleLinkManager`, `ParameterManager` and `PlanMaster` weak fairness is
written out with the condition that enables the action, to spare TLC the
evaluation of ENABLED.
`PlanManager`, `MissionManager` and `MultiVehicleManager` are checked for safety
and assume none.

**Symmetry.** Objects and ids in `MultiVehicleManager` are only compared, and
`vehicles` checks safety only, so permuting them is sound.

## 5. The proofs

**`PlanTransferProofs`**, first part, for every plan size, number of retries, plan type and
firmware that `ConstantsAssumption` admits: the invariants of `plan_manager`, and
`Implementation`: `PlanManager` implements `PlanTransaction`. None of the
invariants is inductive by itself. That an item is awaited only while one is
missing, so that `_requestNextMissionItem` finds its list non-empty and the timer
stays on (`NeverStranded`), needs that the received and the missing indices
partition the announced plan (`ReadAccounting`), which needs that one message is
handled once while reading (`MultiplyConnectedOnlyInRemoveAll`), which needs that
a RemoveAll ends with all connections undone (`NeverStranded` again). `IInv` is
their conjunction, with `TypeOK`. Lemmas about the data come first: conversion of
items, the lists written, what adding an item to the accounting does. Then one
lemma per operation, handler and time-out branch that it keeps `IInv`, then the
theorems. The refinement uses `IInv` too: a completed read shows a plan with every
index once because of `ReadAccounting`, and the end of a guided write leaves the
plan alone because of `WriteAccounting`.

The second part closes the system with the simulated vehicle and the link
(`TransferSpec`), for any number of operations and losses, any plans the vehicle
may start with and any failure modes: `ReportedIsDone` and `ReadPlanIsTheVehicles`.
`TransferInv` is `IInv` and what the two ends and the messages between them agree
on. `OneUnderWay`: unless answers are late, one message that calls for an answer or
is one is under way, so no answer belongs to an earlier request. `Writes`: what has
been sent to the vehicle is stored there or on its way, and the vehicle holds
nothing but items of the list; an acceptance that meets an empty list of indices has
therefore found the whole plan. `Removals`: only a vehicle without a plan sends the
answer. `ReadData`: what is under way and what has been taken is the vehicle's, and
the number announced is what it holds; this is true of late answers too, which are
answers to the same question, and false once an item has been made up. `ReadOrder`:
no item is ahead of the one awaited, so items come in order. The modes that answer
with a wrong number need a clause of their own: the first (or second) item is never
taken, so the transaction cannot succeed. There is one lemma for each handler of the
vehicle that says what it stores and replies, one for each handler of the manager
that says what it does to its lists and sends, and one for each part of the
invariant and kind of step.

The third part is `OutcomesAsTested`: when nothing is lost and no answer is late, a
transaction fails in exactly the modes the tests of `MissionManager` list for it,
after any number of earlier operations and with plans of any size. It has two
halves, which `OutcomeInv` keeps apart. In a mode that fails a write, one index is
never asked for (`Denied`), so it stays in the list of what has to be sent and an
acceptance that comes anyway counts as an error, or no acceptance is ever sent
(`NeverTold`). In a mode that fails a read, one index is never sent (`Withheld`) and
stays in the list of what is missing, or the plan is never announced. In every other
mode there is always one message under way, and the invariant says which
(`ReadProgress`, `SendProgress`, `RemovalProgress`), or none after the one question
that a mode like `FailReadRequest1FirstResponse` ignores; then the timer finds no
retry used up (`FailedOnce`), asks again, and the vehicle answers (`Again`). So the
timer never ends a transaction, and a message that ends one is the right one. The
theorem has a hypothesis, `PlansInOrder`: the plans the vehicle may start with have
no holes. That of `MockLink` starts with none (`_missionItems` is empty), those of
the runs with none or with items 0 and 1. The hypothesis is needed: a vehicle whose
only item has number 5 announces one, makes up item 0 when it is asked for it, and
so holds two at the end of a read that has succeeded, in a mode that fails the reads
of two. That the plan stays without holes (`SecondIsThere`) needs that a write which
does not fail sends its items in order.

**`MissionManagerProofs`**: `LandingIsNotResumed` for every plan, number of reports
under way and plan transaction, with `LandStart` outside the items flown. The
landing sequence does get into the cache. It gets no further because its report
follows the vehicle's change of mode and reports keep their order: the invariant
says that behind a landing report there is no heartbeat in mission mode, in the
queue or at the vehicle.

**`MultiVehicleManagerProofs`**, first part, for any finite set of vehicles and any
links: `Consistent`, `TotalLossIsTotal`, `HighLatencyIsLastResort`,
`DisconnectedWithLastVehicle`. What each helper does to a manager's record is a
lemma about one record: it leaves it good (links listed once, the primary link
chosen by the code's order), changes the list in one known way, and follows three
rules (loss, latency, counting). The steps then only count: a link's reference
count is the number of vehicles that list it. These theorems are about the link
managers by themselves (`Spec`).

The second part is about the life of vehicles over them (`LifeSpec`), for any
number of objects, ids and links: `ActiveVehicleExists`, `SettlesOnSelection`,
`RemovedOnce`, and `LinkGoesWithLastVehicle` for link managers whose vehicles come
and go. The first invariant is about the second phases that are due: a
vehicle's deletion is the last of them that names it, because what starts one
names a listed vehicle; and while another vehicle than the selected one is active,
an activation of the selected one is due. `RemovedOnce` adds that every removed
vehicle has its deletion due, that the listed objects and their ids differ, and
what is left of the link managers' invariant: their own (`Consistent`) is false
here. A removed vehicle lives on for 20 ms and more, its message handlers
connected; one message makes it list the link again, and its destruction does not
give that reference back. So a link only counts *at least* the vehicles that list
it, and one that has been counted too high is not disconnected with its last
vehicle's departure. `NoOtherLeaks` says that this is the only leak: a link that no
destroyed object had listed counts exactly the vehicles that list it (every step is
`Balanced` but the destruction, which adds to `leaked`). With both,
`LinkGoesWithLastVehicle`: a link is disconnected with the last object that lists
it, removed or not, and never before, unless it is one of the leaked. Which objects
hear a message follows from the ids of all that have not been destroyed.

**`CommandQueueProofs`**, for any components, messages, calls, tries and bounds:
`AnsweredOnce`, `InfosAreAlive`, `ListAndMapAgree`, `HeardIsNotResent`. The list is
seen in two ways: its shape (each call once; what may not be retried, or has been
heard, has one try), which lemmas about removing, adding and marking entries keep;
and the set of calls in it, on which the books about calls depend: a queued call
is unanswered and its info alive, a component has one queued request, an info in
the map stands at its own call's key. That a message may take the list entry of
another request is why the books say of an `untracked` queue only what still
holds then.

**`ParameterManagerProofs`**, for any finite set of components, any number of
parameters, values, retries and batches, and any number of messages and calls:
`SettledFactsAgree` and `MissingIsTold`. The code walks its maps: to refill the batch,
to repeat writes and reads, to take over a cache. Each walk is a fold, and a fold is
a choice of a function on the sets of positions. So the proof first shows, by
induction over a set of numbers, that there is such a function (`FoldExists`) and that
whatever set each step of a walk stays in, the whole walk does (`FoldStays`, and one
lemma for each walk). What a fold computes is not needed, only what it keeps.

The invariant, `Good`, has these parts. `Grounded`: facts belong to components that
have been heard of, or to an autopilot whose file was read in part. `Accounted`: while
nothing has been given up, each parameter of a component that has been heard of has
its fact or is on the list of indices, unless a file lacked it (`partial`); with both,
a load that finds its list empty is complete but for an autopilot read in part
(`Complete`, `TellsMissing`, `MissingIsTold`). `SetsWait`: what is sent to be written
has a fact and waits for its answer, has just been given up, or is not waited for.
`Agree`: outside of `Open` (the write waits, was given up, was ended by another's
answer, or was not waited for) the fact is the vehicle's value unless an older cache
or a damaged file left it `stale`, *and every PARAM_VALUE of it that is on its way
is the vehicle's value, stale or not*. The last clause is what makes it inductive,
since a message is late as often as not, and what the code falls short of: it fails
when a write ends while older values are under way, which is the case named in
section 4. A file that fails half way needs no case of its own in `Agree`: each fact
it set is right or noted as stale when it is set. Within a handler the invariant holds but for the
parameter just taken off the list, whose fact comes later (`hole`); the vehicle's
answer to what was sent follows in the same step. There is one lemma for each
handler, one for each action, and the three theorems. They assume that there are
finitely many components, that batch and retry bounds are numbers, and that the cache's
value is one.

**`EncryptedTcpPipeProofs`**, for every configuration and every limit above one
(`LimitAboveOne`; with a limit of one they are false, see above): `LayersAgree` and
`Suspension`. One lemma per slot says what it makes of a record in which the
layers may disagree in the one way its caller leaves them; each event's step
composes them.

**`PlanMasterProofs`**, for any vehicles, capable or directly connected in any
combination, and any number of edits and events: `WholePlans`,
`CompleteMeansAnswered`, `NewVehiclesPlanIsShown`. That a plan is whole once it has
settled follows from how it is chained. Until then exactly one part is under way
with the view waiting for it, the flag that chains the next one is still set, and
the parts before it are done: `Loaded` and `Sent` are these phases, one disjunct per
part. They are claimed for the active vehicle with its initial connection over,
because the initial connection reads with the same managers and ends in the same
slots. When it is over is the third part: `Answered` says that the first completions
a vehicle still awaits are exactly those of the steps it has not passed, so a later
load of the user's cannot be counted as one of them. Each operation of a controller
is shown to be one of two kinds, a change of the view alone or one that keeps the
system sound and the connections as they were (`Keeps`); the steps compose these.

**`FTPTransferProofs`**, for any file, burst length, width of the sequence numbers,
retries and faults: `NothingIsForgotten`, which includes that a download that
compares sizes is whole. That the sizes agree says that every block is there only if
none was counted twice. The reason is `Accounted`: the holes lie in order and apart,
before the end of what has come in, and a block before that end is written if and
only if it is in no hole. A burst moves the end and notes what it passed over; a
read takes the front of the first hole, which the offset asked for always names. The
invariant holds of any replies the server can send in any order, so it does not need
the sequence numbers, which is why it survives their wrapping.

`ResultsAreWhole` does need them. `ResultsAreWholeHolds` proves it under two
hypotheses. `BurstFits`: a burst takes at most half of the numbers (10 of 65536 in
the code). `[]FirstHalf(client)`: the client's number stays in their first half and
has not wrapped, about 32000 packets from the start. Past that, a reply held back
while half of the numbers went by would be taken for a new one (`Old` compares modulo
the width), and nothing in the code or the link prevents it. The invariant, `Safe`,
says that while every request has been sent, the client and the packets on their way
agree (`Sound`), the reply that the server keeps to repeat included. No reply but a
burst's is ahead of the client. A listing's expected reply has the entry asked for.
The expected reply to an opening comes from a server with nothing else to do and, if
it is positive, with its file open: so the first burst finds no older request behind
it that would close the file. In a burst, numbers and offsets advance together and
only the end of the file can follow the last packet, so a packet lost shows as a
hole. When holes are filled, no read can find the end. What is said of a file holds
while no two bursts have overlapped, what is said of listings always. Each handler
of the client is shown to take a `Sound` client and channel to sound ones
(`Stepping`), then each answer and fault.

Only model-checked: all liveness, since fairness is out of the prover's reach
(`TransactionsEnd`, `SilenceIsNoticed`, `PrimaryRecovers`, `CallsAreAnswered`,
`OperationsEnd`, `LoadEnds`, `WritesEnd`, `ClientKeepsTrying`,
`InitialPlanIsLoaded`, `AskedIsDone`). Every invariant and every other action property
that a passing run checks is also a theorem.

## 6. Not modelled

In modelled components:

- plans: the offline editing vehicle of the managers; a connection lost by
  `PlanManager` in the middle of a call (`sharedLink` null: nothing is sent, which
  is a message lost); which items a resume mission keeps beyond their order (any
  ascending choice);
- links and vehicles: RADIO_STATUS; protocol version negotiation and GCS
  heartbeats;
- commands: the guard of START_RX_PAIR, which no caller reaches, the longer ack
  time-out over high latency links, `sendMavCommandWithLambdaFallback`, and the rest
  of `Vehicle`, which turns telemetry into facts;
- FTP: sessions, names, errors of the local file, malformed replies;
- parameters: offline parameters, log replay and high latency links, saving to and
  loading from streams, name remapping, writing of the cache, the progress bar;
- encrypted link: length of the intervals, framing, ciphers, reports and warnings,
  the status property;
- plan view: files, and the steps of the initial connection that are skipped for
  lack of a link.

Everything else is in the second table of section 1.
