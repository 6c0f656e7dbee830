----------------------------- MODULE PlanManager -----------------------------
(***************************************************************************)
(* PlanManager (src/src/MissionManager/PlanManager.cc), with the           *)
(* operations MissionManager adds to it: the ground station's half of the  *)
(* MAVLink mission protocol, for one plan type.                            *)
(*                                                                         *)
(* The vehicle is not constrained here: any message may arrive at any      *)
(* time.  PlanTransfer closes the system with the vehicle of MockLink and  *)
(* a lossy link.                                                           *)
(*                                                                         *)
(* The read and write lists are ascending lists of indices from which      *)
(* elements are only ever removed, so they are sets here and element [0]   *)
(* is the minimum.  Timer intervals, error texts and progress signals are  *)
(* left out.  The vehicle is not the offline editing vehicle.              *)
(***************************************************************************)
EXTENDS PlanMessages, Sequences, FiniteSets, FiniteSetsExt

CONSTANTS
  PlanItems,          \* plan items the user may write and the vehicle may send
  MaxCount,           \* bound: largest plan
  MaxRetryCount,      \* _maxRetryCount (5 in the code)
  PlanType,           \* _planType: "mission", "fence" or "rally"
  SendHome,           \* firmwarePlugin()->sendHomePositionToVehicle()
  ApmFirmware,        \* vehicle->apmFirmware()
  UninitializedInts   \* what the uninitialized _retryCount may hold at start

ASSUME ConstantsAssumption ==
  /\ PlanItems \subseteq Item
  /\ MaxCount \in Nat
  /\ MaxRetryCount \in Nat
  /\ PlanType \in PlanTypes
  /\ SendHome \in BOOLEAN
  /\ ApmFirmware \in BOOLEAN
  /\ UninitializedInts \subseteq Int

VARIABLES
  expectedAck,             \* _expectedAck
  timerActive,             \* _ackTimeoutTimer->isActive()
  retryCount,              \* _retryCount
  transactionInProgress,   \* _transactionInProgress
  resumeMission,           \* _resumeMission
  itemIndicesToWrite,      \* _itemIndicesToWrite
  itemIndicesToRead,       \* _itemIndicesToRead
  missionItemCountToRead,  \* _missionItemCountToRead
  missionItems,            \* _missionItems
  writeMissionItems,       \* _writeMissionItems
  connections,             \* how often _mavlinkMessageReceived is connected
  homePosition,            \* item last passed to Vehicle::_setHomePosition
  sent,                    \* messages handed to the link in the last step
  outcome                  \* completion signals of the last transaction

readVars  == <<itemIndicesToRead, missionItemCountToRead, missionItems>>
writeVars == <<itemIndicesToWrite, writeMissionItems>>
vars == <<expectedAck, timerActive, retryCount, transactionInProgress,
          resumeMission, readVars, writeVars, connections, homePosition,
          sent, outcome>>

AckTypes == {"AckNone", "AckMissionCount", "AckMissionItem",
             "AckMissionRequest", "AckMissionClearAll", "AckGuidedItem"}
TransactionTypes == {"TransactionNone", "TransactionRead",
                     "TransactionWrite", "TransactionRemoveAll"}

\* An entry of _missionItems or _writeMissionItems.
MissionItem == [seq : Int, cmd : Commands, param1 : Int]
NoHome == NoItem

NoOutcome == [signal |-> "none", error |-> FALSE, resume |-> "none"]
Outcomes  ==
  [signal : {"none", "newMissionItemsAvailable", "sendComplete",
             "removeAllComplete"},
   error  : BOOLEAN,
   resume : {"none", "resumeMissionReady", "resumeMissionUploadFail"}]

-----------------------------------------------------------------------------
(* Pieces shared by the handlers.                                          *)

\* The messages a vehicle may send.
Inbound ==
  {CountMessage(t, c) : t \in PlanTypes, c \in 0..MaxCount}
    \cup {ItemMessage(t, s, i) : t \in PlanTypes, s \in 0..MaxCount, i \in PlanItems}
    \cup {RequestMessage(t, s) : t \in PlanTypes, s \in 0..MaxCount}
    \cup {AckMessage(t, r) : t \in PlanTypes, r \in Results}

inProgress == transactionInProgress # "TransactionNone"

\* Without a home position in the plan the vehicle counts items from 0 where
\* the ground station counts them from 1, and DO_JUMP targets move with them.
SkipFirstItem == PlanType = "mission" /\ ~SendHome

FromVehicle(item) ==
  IF item.cmd = "DO_JUMP" /\ ~SendHome
  THEN [item EXCEPT !.param1 = @ + 1] ELSE item

ToVehicle(item) ==
  IF item.cmd = "DO_JUMP" /\ SkipFirstItem
  THEN [item EXCEPT !.param1 = @ - 1] ELSE item

Entry(seq, item) == [seq |-> seq, cmd |-> item.cmd, param1 |-> item.param1]
ItemOf(entry)    == [cmd |-> entry.cmd, param1 |-> entry.param1]

\* The write list made of the items the user passes, the first of which is
\* the home position when it is not to be sent.
WriteList(items) ==
  LET skipped == IF SkipFirstItem THEN 1 ELSE 0
  IN  [k \in 1..(Len(items) - skipped) |->
          Entry(k - 1, ToVehicle(items[k + skipped]))]

\* Mutant: an item is awaited without the timer.
StartAckTimeout_NoTimerForItem(ack) ==
  /\ expectedAck' = ack
  /\ timerActive' = (ack # "AckMissionItem")

StartAckTimeout(ack) ==
  /\ expectedAck' = ack
  /\ timerActive' = TRUE

\* Mutant: the timer is not stopped.
AckReceived_TimerLeft ==
  /\ expectedAck' = "AckNone"
  /\ UNCHANGED timerActive

\* _checkForExpectedAck when it succeeds.
AckReceived ==
  /\ expectedAck' = "AckNone"
  /\ timerActive' = FALSE

ConnectToMavlink == connections' = connections + 1

\* Mutant: one connection is undone, not all of them.
DisconnectFromMavlink_One == connections' = connections - 1

DisconnectFromMavlink == connections' = 0

\* Mutant: the items read before are kept.
RequestList_KeepsItems ==
  /\ itemIndicesToRead' = {}
  /\ UNCHANGED missionItems
  /\ sent' = <<RequestListMessage(PlanType)>>
  /\ StartAckTimeout("AckMissionCount")

RequestList ==
  /\ itemIndicesToRead' = {}
  /\ missionItems' = <<>>
  /\ sent' = <<RequestListMessage(PlanType)>>
  /\ StartAckTimeout("AckMissionCount")

\* Mutant: the last index instead of the first.
RequestNextMissionItem_Last(remaining) ==
  /\ sent' = <<RequestMessage(PlanType, Max(remaining))>>
  /\ StartAckTimeout("AckMissionItem")

\* remaining is not empty (ReadAccounting).
RequestNextMissionItem(remaining) ==
  /\ sent' = <<RequestMessage(PlanType, Min(remaining))>>
  /\ StartAckTimeout("AckMissionItem")

WriteMissionCount(items) ==
  /\ sent' = <<CountMessage(PlanType, Len(items))>>
  /\ StartAckTimeout("AckMissionRequest")

\* Mutant: the loop starts one too low.
Primed_OneTooMany(items) == -1..(Len(items) - 1)

\* The write list at the start.
Primed(items) == 0..(Len(items) - 1)

WriteMissionItemsWorker(items) ==
  /\ writeMissionItems' = items
  /\ itemIndicesToWrite' = Primed(items)
  /\ retryCount' = 0
  /\ transactionInProgress' = "TransactionWrite"
  /\ ConnectToMavlink
  /\ outcome' = NoOutcome
  /\ WriteMissionCount(items)

RemoveAllWorker ==
  /\ ConnectToMavlink
  /\ sent' = <<ClearAllMessage(PlanType)>>
  /\ StartAckTimeout("AckMissionClearAll")

CompletionSignal(apmGuidedItemWrite) ==
  IF transactionInProgress = "TransactionRead" THEN "newMissionItemsAvailable"
  ELSE IF transactionInProgress = "TransactionRemoveAll" THEN "removeAllComplete"
  ELSE IF inProgress /\ ~apmGuidedItemWrite THEN "sendComplete"
  ELSE "none"

\* Mutant: a read that fails leaves the items received.
PlanAfter_PartialRead(success, planWrite, items) ==
  IF planWrite /\ success THEN writeMissionItems ELSE items

\* The cached plan a transaction leaves; items is the one before.
PlanAfter(success, planWrite, items) ==
  IF transactionInProgress = "TransactionRead" /\ ~success THEN <<>>
  ELSE IF planWrite /\ success THEN writeMissionItems
  ELSE items

\* Mutant: the write list is never cleared.
WriteListAfter_Kept(planWrite) == writeMissionItems

WriteListAfter(planWrite) == IF planWrite THEN <<>> ELSE writeMissionItems

\* _finishTransaction; items is _missionItems at the time of the call.
FinishTransaction(success, apmGuidedItemWrite, items) ==
  LET planWrite == transactionInProgress = "TransactionWrite"
                     /\ ~apmGuidedItemWrite
  IN  /\ DisconnectFromMavlink
      /\ itemIndicesToRead' = {}
      /\ itemIndicesToWrite' = {}
      /\ transactionInProgress' = "TransactionNone"
      /\ missionItems' = PlanAfter(success, planWrite, items)
      /\ writeMissionItems' = WriteListAfter(planWrite)
      /\ resumeMission' = FALSE
      /\ outcome' = [signal |-> CompletionSignal(apmGuidedItemWrite),
                     error  |-> ~success,
                     resume |-> IF ~resumeMission THEN "none"
                                ELSE IF success THEN "resumeMissionReady"
                                ELSE "resumeMissionUploadFail"]

Fail == FinishTransaction(FALSE, FALSE, missionItems)

\* The read is over: MISSION_ACK to the vehicle, then _finishTransaction(true).
ReadTransactionComplete(items) ==
  /\ sent' = <<AckMessage(PlanType, "ACCEPTED")>>
  /\ FinishTransaction(TRUE, FALSE, items)

-----------------------------------------------------------------------------
(* Operations called by the application.                                   *)

LoadFromVehicle ==
  /\ ~inProgress
  /\ retryCount' = 0
  /\ transactionInProgress' = "TransactionRead"
  /\ ConnectToMavlink
  /\ outcome' = NoOutcome
  /\ RequestList
  /\ UNCHANGED <<resumeMission, missionItemCountToRead, writeVars, homePosition>>

WriteMissionItems(items) ==
  /\ ~inProgress
  /\ WriteMissionItemsWorker(WriteList(items))
  /\ UNCHANGED <<resumeMission, readVars, homePosition>>

RemoveAll ==
  /\ ~inProgress
  /\ missionItems' = <<>>
  /\ retryCount' = 0
  /\ transactionInProgress' = "TransactionRemoveAll"
  /\ outcome' = NoOutcome
  /\ RemoveAllWorker
  /\ UNCHANGED <<resumeMission, itemIndicesToRead, missionItemCountToRead,
                 writeVars, homePosition>>

\* Ascending lists of positions below n.
Ascending(n) ==
  {positions \in UNION {[1..k -> 1..(n - 1)] : k \in 0..(n - 1)} :
     \A i, j \in DOMAIN positions : i < j => positions[i] < positions[j]}

\* Of the plan, the items at the kept positions and those from position
\* resumeIndex on, renumbered from 0.
ResumeList(resumeIndex, kept) ==
  LET position(k) == IF k <= Len(kept) THEN kept[k]
                     ELSE resumeIndex + (k - Len(kept) - 1)
  IN  [k \in 1..(Len(kept) + (Len(missionItems) - resumeIndex + 1)) |->
         Entry(k - 1, ItemOf(missionItems[position(k)]))]

\* MissionManager::generateResumeMission.  Which of the items before the one
\* to resume at are kept (home, take off, camera, speed, ...) is data.
GenerateResumeMission(resumeIndex, kept) ==
  /\ ~inProgress
  /\ PlanType = "mission"
  /\ \A i \in 1..Len(missionItems) : missionItems[i].cmd # "DO_JUMP"
  /\ SendHome => /\ Len(missionItems) > 1
                 /\ resumeIndex > 1 => kept # <<>> /\ kept[1] = 1
  /\ WriteMissionItemsWorker(ResumeList(resumeIndex, kept))
  /\ resumeMission' = TRUE
  /\ UNCHANGED <<readVars, homePosition>>

\* MissionManager::writeArduPilotGuidedMissionItem; _retryCount is left alone.
WriteArduPilotGuidedMissionItem ==
  /\ ~inProgress
  /\ PlanType = "mission" /\ ApmFirmware
  /\ transactionInProgress' = "TransactionWrite"
  /\ ConnectToMavlink
  /\ outcome' = NoOutcome
  /\ sent' = <<GuidedItemMessage>>
  /\ StartAckTimeout("AckGuidedItem")
  /\ UNCHANGED <<retryCount, resumeMission, readVars, writeVars, homePosition>>

-----------------------------------------------------------------------------
(* Message handlers.  A message is handled when _mavlinkMessageReceived is *)
(* connected.  Every RemoveAll retry connects it once more, so a message   *)
(* is then delivered several times; MultiplyConnectedOnlyInRemoveAll shows *)
(* that this happens only where a repeated delivery changes nothing: the   *)
(* first MISSION_ACK that counts disconnects the others.                   *)

HandleMissionCount(m) ==
  /\ m.id = "MISSION_COUNT"
  /\ m.type = PlanType
  /\ expectedAck = "AckMissionCount"
  /\ retryCount' = 0
  /\ \/ /\ m.count = 0
        /\ AckReceived
        /\ ReadTransactionComplete(missionItems)
        /\ UNCHANGED <<missionItemCountToRead, homePosition>>
     \/ /\ m.count > 0
        /\ itemIndicesToRead' = itemIndicesToRead \cup 0..(m.count - 1)
        /\ missionItemCountToRead' = m.count
        /\ RequestNextMissionItem(itemIndicesToRead')
        /\ UNCHANGED <<transactionInProgress, resumeMission, missionItems,
                       writeVars, connections, homePosition, outcome>>

HandleMissionItem(m) ==
  /\ m.id = "MISSION_ITEM_INT"
  /\ m.type = PlanType
  /\ expectedAck = "AckMissionItem"
  /\ \/ /\ m.seq \in itemIndicesToRead
        /\ retryCount' = 0
        /\ LET remaining == itemIndicesToRead \ {m.seq}
               items == Append(missionItems, Entry(m.seq, FromVehicle(m.item)))
           IN  \/ /\ remaining = {}
                  /\ AckReceived
                  /\ ReadTransactionComplete(items)
               \/ /\ remaining # {}
                  /\ itemIndicesToRead' = remaining
                  /\ missionItems' = items
                  /\ RequestNextMissionItem(remaining)
                  /\ UNCHANGED <<transactionInProgress, resumeMission, writeVars,
                                 connections, outcome>>
        /\ UNCHANGED <<missionItemCountToRead, homePosition>>
     \/ /\ m.seq \notin itemIndicesToRead
        /\ StartAckTimeout("AckMissionItem")
        /\ sent' = <<>>
        /\ UNCHANGED <<retryCount, transactionInProgress, resumeMission, readVars,
                       writeVars, connections, homePosition, outcome>>

\* ArduPilot announces a new home position by an unrequested item 0.
HandleHomePositionUpdate(m) ==
  /\ m.id = "MISSION_ITEM_INT"
  /\ m.type = PlanType
  /\ expectedAck # "AckMissionItem"
  /\ ApmFirmware /\ m.seq = 0 /\ PlanType = "mission"
  /\ homePosition' = m.item
  /\ sent' = <<>>
  /\ UNCHANGED <<expectedAck, timerActive, retryCount, transactionInProgress,
                 resumeMission, readVars, writeVars, connections, outcome>>

HandleMissionRequest(m) ==
  /\ m.id = "MISSION_REQUEST_INT"
  /\ m.type = PlanType
  /\ expectedAck = "AckMissionRequest"
  /\ \/ /\ m.seq > Len(writeMissionItems) - 1
        /\ AckReceived
        /\ sent' = <<>>
        /\ Fail
        /\ UNCHANGED <<retryCount, missionItemCountToRead, homePosition>>
     \/ /\ m.seq <= Len(writeMissionItems) - 1
        /\ itemIndicesToWrite' = itemIndicesToWrite \ {m.seq}
        /\ sent' = <<ItemMessage(PlanType, m.seq,
                                 ItemOf(writeMissionItems[m.seq + 1]))>>
        /\ StartAckTimeout("AckMissionRequest")
        /\ UNCHANGED <<retryCount, transactionInProgress, resumeMission, readVars,
                       writeMissionItems, connections, homePosition, outcome>>

\* Mutant: an early MISSION_ACK ends a write well.
AckSucceeds_Early(m) ==
  /\ m.result = "ACCEPTED"
  /\ expectedAck \in {"AckMissionRequest", "AckMissionClearAll", "AckGuidedItem"}

\* Whether the MISSION_ACK ends the transaction well.
AckSucceeds(m) ==
  /\ m.result = "ACCEPTED"
  /\ \/ expectedAck = "AckMissionRequest" /\ itemIndicesToWrite = {}
     \/ expectedAck \in {"AckMissionClearAll", "AckGuidedItem"}

\* A MISSION_ACK ends every transaction, whatever it was waiting for, except
\* the INVALID_SEQUENCE acks of ArduPilot.
HandleMissionAck(m) ==
  /\ m.id = "MISSION_ACK"
  /\ m.type = PlanType
  /\ expectedAck # "AckNone"
  /\ ~(ApmFirmware /\ m.result = "INVALID_SEQUENCE")
  /\ AckReceived
  /\ sent' = <<>>
  /\ FinishTransaction(AckSucceeds(m), expectedAck = "AckGuidedItem", missionItems)
  /\ UNCHANGED <<retryCount, missionItemCountToRead, homePosition>>

\* Messages of another plan type, or out of sequence, are dropped.
Ignored(m) ==
  \/ connections = 0
  \/ m.type # PlanType
  \/ m.id = "MISSION_COUNT" /\ expectedAck # "AckMissionCount"
  \/ m.id = "MISSION_REQUEST_INT" /\ expectedAck # "AckMissionRequest"
  \/ /\ m.id = "MISSION_ACK"
     /\ expectedAck = "AckNone" \/ (ApmFirmware /\ m.result = "INVALID_SEQUENCE")
  \/ /\ m.id = "MISSION_ITEM_INT" /\ expectedAck # "AckMissionItem"
     /\ ~(ApmFirmware /\ m.seq = 0 /\ PlanType = "mission")

IgnoreMessage(m) ==
  /\ Ignored(m)
  /\ sent' = <<>>
  /\ UNCHANGED <<expectedAck, timerActive, retryCount, transactionInProgress,
                 resumeMission, readVars, writeVars, connections, homePosition,
                 outcome>>

MavlinkMessageReceived(m) ==
  \/ /\ connections > 0
     /\ \/ HandleMissionCount(m)
        \/ HandleMissionItem(m)
        \/ HandleHomePositionUpdate(m)
        \/ HandleMissionRequest(m)
        \/ HandleMissionAck(m)
  \/ IgnoreMessage(m)

-----------------------------------------------------------------------------
(* _ackTimeout, one action per case.  The timer is single shot.            *)

\* Mutant: giving up is reported as success.
TimeoutFails_AsSuccess ==
  /\ timerActive' = FALSE
  /\ sent' = <<>>
  /\ FinishTransaction(TRUE, FALSE, missionItems)
  /\ UNCHANGED <<retryCount, missionItemCountToRead, homePosition>>

\* A failed transaction leaves _expectedAck as it was, except where said.
TimeoutFails ==
  /\ timerActive' = FALSE
  /\ sent' = <<>>
  /\ Fail
  /\ UNCHANGED <<retryCount, missionItemCountToRead, homePosition>>

RetriesExhausted == retryCount > MaxRetryCount

TimeoutWaitingForCount ==
  /\ timerActive /\ expectedAck = "AckMissionCount"
  /\ \/ /\ RetriesExhausted
        /\ TimeoutFails
        /\ UNCHANGED expectedAck
     \/ /\ ~RetriesExhausted
        /\ retryCount' = retryCount + 1
        /\ RequestList
        /\ UNCHANGED <<transactionInProgress, resumeMission, missionItemCountToRead,
                       writeVars, connections, homePosition, outcome>>

TimeoutWaitingForItem ==
  /\ timerActive /\ expectedAck = "AckMissionItem"
  /\ \/ /\ RetriesExhausted
        /\ TimeoutFails
        /\ UNCHANGED expectedAck
     \/ /\ ~RetriesExhausted
        /\ retryCount' = retryCount + 1
        /\ RequestNextMissionItem(itemIndicesToRead)
        /\ UNCHANGED <<transactionInProgress, resumeMission, readVars, writeVars,
                       connections, homePosition, outcome>>

\* MISSION_COUNT is repeated only while item 0 has not been requested.
TimeoutWaitingForRequest ==
  /\ timerActive /\ expectedAck = "AckMissionRequest"
  /\ \/ /\ itemIndicesToWrite = {}
        /\ TimeoutFails
        /\ UNCHANGED expectedAck
     \/ /\ 0 \in itemIndicesToWrite
        /\ RetriesExhausted
        /\ TimeoutFails
        /\ UNCHANGED expectedAck
     \/ /\ 0 \in itemIndicesToWrite
        /\ ~RetriesExhausted
        /\ retryCount' = retryCount + 1
        /\ WriteMissionCount(writeMissionItems)
        /\ UNCHANGED <<transactionInProgress, resumeMission, readVars, writeVars,
                       connections, homePosition, outcome>>
     \/ /\ itemIndicesToWrite # {} /\ 0 \notin itemIndicesToWrite
        /\ TimeoutFails
        /\ expectedAck' = "AckNone"

TimeoutWaitingForClearAll ==
  /\ timerActive /\ expectedAck = "AckMissionClearAll"
  /\ \/ /\ RetriesExhausted
        /\ TimeoutFails
        /\ UNCHANGED expectedAck
     \/ /\ ~RetriesExhausted
        /\ retryCount' = retryCount + 1
        /\ RemoveAllWorker
        /\ UNCHANGED <<transactionInProgress, resumeMission, readVars, writeVars,
                       homePosition, outcome>>

\* The default case: _finishTransaction(false) with apmGuidedItemWrite false.
TimeoutWaitingForGuidedAck ==
  /\ timerActive /\ expectedAck = "AckGuidedItem"
  /\ TimeoutFails
  /\ expectedAck' = "AckNone"

AckTimeout ==
  \/ TimeoutWaitingForCount
  \/ TimeoutWaitingForItem
  \/ TimeoutWaitingForRequest
  \/ TimeoutWaitingForClearAll
  \/ TimeoutWaitingForGuidedAck

-----------------------------------------------------------------------------

Init ==
  /\ expectedAck = "AckNone"
  /\ timerActive = FALSE
  /\ retryCount \in UninitializedInts
  /\ transactionInProgress = "TransactionNone"
  /\ resumeMission = FALSE
  /\ itemIndicesToWrite = {}
  /\ itemIndicesToRead = {}
  /\ missionItemCountToRead = -1
  /\ missionItems = <<>>
  /\ writeMissionItems = <<>>
  /\ connections = 0
  /\ homePosition = NoHome
  /\ sent = <<>>
  /\ outcome = NoOutcome

\* The plans the user may write.
Plans == UNION {[1..n -> PlanItems] : n \in 0..MaxCount}

ApplicationCall ==
  \/ LoadFromVehicle
  \/ \E items \in Plans : WriteMissionItems(items)
  \/ RemoveAll
  \/ \E resumeIndex \in 1..Len(missionItems) :
       \E kept \in Ascending(resumeIndex) :
         GenerateResumeMission(resumeIndex, kept)
  \/ WriteArduPilotGuidedMissionItem

Next ==
  \/ ApplicationCall
  \/ \E m \in Inbound : MavlinkMessageReceived(m)
  \/ AckTimeout

Spec == Init /\ [][Next]_vars

-----------------------------------------------------------------------------
(* Properties.                                                             *)

\* Every variable of the manager keeps its type: the values its fields, lists
\* and enumerations can hold (PlanManager.h:92-151).
TypeOK ==
  /\ expectedAck \in AckTypes
  /\ timerActive \in BOOLEAN
  /\ retryCount \in Int
  /\ transactionInProgress \in TransactionTypes
  /\ resumeMission \in BOOLEAN
  /\ itemIndicesToWrite \subseteq Nat
  /\ itemIndicesToRead \subseteq Nat
  /\ missionItemCountToRead \in Int
  /\ missionItems \in Seq(MissionItem)
  /\ writeMissionItems \in Seq(MissionItem)
  /\ connections \in Nat
  /\ homePosition \in Item
  /\ outcome \in Outcomes

\* While a transaction runs, something is expected that suits it, the timer
\* that will otherwise end or repeat it is running and the messages are
\* connected; when none runs, no timer and no connection is left behind
\* (_startAckTimeout and _finishTransaction on every path of the handlers).
NeverStranded ==
  /\ transactionInProgress = "TransactionRead" =>
       expectedAck \in {"AckMissionCount", "AckMissionItem"}
  /\ transactionInProgress = "TransactionWrite" =>
       expectedAck \in {"AckMissionRequest", "AckGuidedItem"}
  /\ transactionInProgress = "TransactionRemoveAll" =>
       expectedAck = "AckMissionClearAll"
  /\ timerActive <=> inProgress
  /\ connections > 0 <=> inProgress

\* Retrying a RemoveAll connects _mavlinkMessageReceived again without
\* disconnecting it.  Doubled delivery stays confined to a RemoveAll waiting
\* for its ack, where handling a message twice is handling it once.
MultiplyConnectedOnlyInRemoveAll ==
  connections > 1 => transactionInProgress = "TransactionRemoveAll"

\* While items are being read, what was received and what is still to be
\* requested make up the plan the vehicle announced, without overlap or
\* repetition, so a duplicated, late or unrequested item is never stored
\* twice and _requestNextMissionItem never finds its list empty.
ReceivedIndices == {missionItems[i].seq : i \in 1..Len(missionItems)}

ReadAccounting ==
  /\ transactionInProgress = "TransactionRead" /\ expectedAck = "AckMissionCount" =>
       missionItems = <<>> /\ itemIndicesToRead = {}
  /\ expectedAck = "AckMissionItem" /\ inProgress =>
       /\ itemIndicesToRead # {}
       /\ ReceivedIndices \cap itemIndicesToRead = {}
       /\ ReceivedIndices \cup itemIndicesToRead = 0..(missionItemCountToRead - 1)
       /\ Len(missionItems) + Cardinality(itemIndicesToRead) = missionItemCountToRead
       /\ \A i, j \in 1..Len(missionItems) :
            missionItems[i].seq = missionItems[j].seq => i = j

\* A write list lives as long as the write of a plan, its entries are at their
\* sequence numbers and every index still to be written is one of theirs: the
\* vehicle gets the item it asks for, and a guided item never replaces the
\* cached plan by what an earlier write left behind.
WriteAccounting ==
  /\ writeMissionItems # <<>> => inProgress /\ expectedAck = "AckMissionRequest"
  /\ \A k \in 1..Len(writeMissionItems) : writeMissionItems[k].seq = k - 1
  /\ itemIndicesToWrite \subseteq 0..(Len(writeMissionItems) - 1)

\* The client's view (see PlanTransaction): completions and whole plans only.
Transaction == INSTANCE PlanTransaction WITH
  transaction <- transactionInProgress,
  plan        <- IF transactionInProgress = "TransactionRead"
                 THEN <<>> ELSE missionItems,
  pending     <- writeMissionItems,
  resuming    <- resumeMission

\* The manager implements the client's view whatever the vehicle sends and
\* whenever the timer fires.
ImplementsTransaction == Transaction!Spec

=============================================================================
