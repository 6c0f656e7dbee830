-------------------------- MODULE PlanTransferProofs --------------------------
(***************************************************************************)
(* Proofs about PlanManager and about PlanManager joined to the vehicle    *)
(* (PlanTransfer), for plans of any size and any number of retries,        *)
(* operations and lost messages.                                           *)
(*                                                                         *)
(* The manager alone, whatever the vehicle sends.  Its invariants are      *)
(* proved together: each of them needs the others to be inductive.  That a *)
(* transaction is never stranded needs the accounting of the read list (an *)
(* item is only awaited while one is missing), which needs the type of the *)
(* lists; and so on.                                                       *)
(*                                                                         *)
(* The manager and the vehicle.  TransferInv says what the messages under  *)
(* way, the lists of the manager and the plan in the vehicle have to do    *)
(* with each other, for each kind of transaction.                          *)
(*                                                                         *)
(* How transactions end when the link loses nothing.  OutcomeInv adds, for *)
(* each failure mode, what the vehicle will never send and, for all other  *)
(* modes, the one message that is always under way.                        *)
(***************************************************************************)
EXTENDS PlanTransfer, FiniteSetTheorems, WellFoundedInduction, TLAPS

-----------------------------------------------------------------------------
(* Of the manager alone: the invariant.                                    *)

IInv ==
  /\ TypeOK
  /\ NeverStranded
  /\ MultiplyConnectedOnlyInRemoveAll
  /\ ReadAccounting
  /\ WriteAccounting

-----------------------------------------------------------------------------
(* The data the handlers build.                                            *)

\* An item keeps its type when DO_JUMP targets are moved either way.
LEMMA ConvertedItem ==
  ASSUME NEW item \in Item
  PROVE  FromVehicle(item) \in Item /\ ToVehicle(item) \in Item
BY DEF FromVehicle, ToVehicle, Item

\* An entry made of a number and an item is a mission item with that number.
LEMMA EntryType ==
  ASSUME NEW seq \in Int, NEW item \in Item
  PROVE  Entry(seq, item) \in MissionItem /\ Entry(seq, item).seq = seq
BY DEF Entry, Item, MissionItem

\* An entry holds an item.
LEMMA ItemOfType ==
  ASSUME NEW entry \in MissionItem
  PROVE  ItemOf(entry) \in Item
BY DEF ItemOf, Item, MissionItem

\* A plan has its entries at their sequence numbers.
Numbered(list) == \A k \in 1..Len(list) : list[k].seq = k - 1

\* The write list of a plan is numbered from 0.
LEMMA WriteListType ==
  ASSUME ConstantsAssumption, NEW items \in Plans
  PROVE  WriteList(items) \in Seq(MissionItem) /\ Numbered(WriteList(items))
<1> DEFINE skipped == IF SkipFirstItem THEN 1 ELSE 0
           size    == Len(items) - skipped
           entry(k) == Entry(k - 1, ToVehicle(items[k + skipped]))
<1>1. PICK n \in 0..MaxCount : items \in [1..n -> PlanItems]
  BY DEF Plans
<1>2. Len(items) = n /\ n \in Nat
  BY <1>1 DEF ConstantsAssumption
<1>3. skipped \in {0, 1} /\ size \in Int
  BY <1>2
<1>4. ASSUME NEW k \in 1..size
      PROVE  entry(k) \in MissionItem /\ entry(k).seq = k - 1
  <2>1. items[k + skipped] \in Item
    BY <1>1, <1>2, <1>3 DEF ConstantsAssumption
  <2>2. ToVehicle(items[k + skipped]) \in Item
    BY <2>1, ConvertedItem
  <2> QED
    BY <2>2, EntryType
<1>5. WriteList(items) = [k \in 1..size |-> entry(k)]
  BY DEF WriteList
<1> HIDE DEF entry, size, skipped
<1>6. CASE size < 0
  <2>1. 1..size = 1..0
    BY <1>3, <1>6
  <2>2. WriteList(items) \in [1..0 -> MissionItem]
    BY <1>4, <1>5, <2>1
  <2>3. WriteList(items) \in Seq(MissionItem) /\ Len(WriteList(items)) = 0
    BY <2>2
  <2> QED
    BY <2>3 DEF Numbered
<1>7. CASE size >= 0
  <2>1. WriteList(items) \in [1..size -> MissionItem]
    BY <1>4, <1>5
  <2>2. WriteList(items) \in Seq(MissionItem) /\ Len(WriteList(items)) = size
    BY <1>3, <1>7, <2>1
  <2> QED
    BY <1>4, <1>5, <2>2 DEF Numbered
<1> QED
  BY <1>3, <1>6, <1>7

\* So is the write list of a resume mission.
LEMMA ResumeListType ==
  ASSUME missionItems \in Seq(MissionItem),
         NEW resumeIndex \in 1..Len(missionItems),
         NEW kept \in Ascending(resumeIndex)
  PROVE  /\ ResumeList(resumeIndex, kept) \in Seq(MissionItem)
         /\ Numbered(ResumeList(resumeIndex, kept))
<1> DEFINE size == Len(kept) + (Len(missionItems) - resumeIndex + 1)
           position(k) == IF k <= Len(kept) THEN kept[k]
                          ELSE resumeIndex + (k - Len(kept) - 1)
           entry(k) == Entry(k - 1, ItemOf(missionItems[position(k)]))
<1>1. PICK n \in 0..(resumeIndex - 1) : kept \in [1..n -> 1..(resumeIndex - 1)]
  BY DEF Ascending
<1>2. Len(kept) = n /\ n \in Nat /\ Len(missionItems) \in Nat
  BY <1>1
<1>3. size \in Nat
  BY <1>2
<1>4. ASSUME NEW k \in 1..size
      PROVE  entry(k) \in MissionItem /\ entry(k).seq = k - 1
  <2>1. position(k) \in 1..Len(missionItems)
    BY <1>1, <1>2
  <2>2. ItemOf(missionItems[position(k)]) \in Item
    BY <2>1, ItemOfType
  <2> QED
    BY <2>2, EntryType
<1>5. ResumeList(resumeIndex, kept) = [k \in 1..size |-> entry(k)]
  BY DEF ResumeList
<1> HIDE DEF entry, size
<1>6. ResumeList(resumeIndex, kept) \in [1..size -> MissionItem]
  BY <1>4, <1>5
<1>7. /\ ResumeList(resumeIndex, kept) \in Seq(MissionItem)
      /\ Len(ResumeList(resumeIndex, kept)) = size
  BY <1>3, <1>6
<1> QED
  BY <1>4, <1>5, <1>7 DEF Numbered

-----------------------------------------------------------------------------
(* The invariants hold at the start and are kept by every step.            *)

\* The initial state satisfies the invariants, whatever _retryCount holds.
LEMMA InvariantInit ==
  ASSUME ConstantsAssumption, Init
  PROVE  IInv
<1>1. homePosition \in Item /\ outcome \in Outcomes
  <2>1. NoHome \in Item
    BY DEF NoHome, NoItem, Item, Commands
  <2>2. NoOutcome \in Outcomes
    BY DEF NoOutcome, Outcomes
  <2> QED
    BY <2>1, <2>2 DEF Init
<1>2. missionItems \in Seq(MissionItem) /\ writeMissionItems \in Seq(MissionItem)
  BY DEF Init
<1>3. TypeOK
  <2>1. expectedAck \in AckTypes /\ transactionInProgress \in TransactionTypes
    BY DEF Init, AckTypes, TransactionTypes
  <2>2. timerActive \in BOOLEAN /\ resumeMission \in BOOLEAN
    BY DEF Init
  <2>3. retryCount \in Int /\ missionItemCountToRead \in Int /\ connections \in Nat
    BY DEF Init, ConstantsAssumption
  <2>4. itemIndicesToWrite \subseteq Nat /\ itemIndicesToRead \subseteq Nat
    BY DEF Init
  <2> QED
    BY <1>1, <1>2, <2>1, <2>2, <2>3, <2>4 DEF TypeOK
<1>4. NeverStranded /\ MultiplyConnectedOnlyInRemoveAll /\ ReadAccounting
  BY DEF Init, NeverStranded, MultiplyConnectedOnlyInRemoveAll, ReadAccounting,
         inProgress
<1>5. WriteAccounting
  BY DEF Init, WriteAccounting
<1> QED
  BY <1>3, <1>4, <1>5 DEF IInv

\* Ending a transaction restores the idle state, whatever it leaves in the
\* cached plan.
LEMMA FinishKeepsInvariant ==
  ASSUME IInv, inProgress,
         NEW success \in BOOLEAN, NEW guided \in BOOLEAN,
         NEW items \in Seq(MissionItem),
         FinishTransaction(success, guided, items),
         guided => expectedAck = "AckGuidedItem",
         expectedAck' \in AckTypes, timerActive' = FALSE, retryCount' \in Int,
         missionItemCountToRead' \in Int, homePosition' \in Item
  PROVE  IInv'
<1> USE DEF IInv
<1>1. writeMissionItems' = <<>>
  BY DEF FinishTransaction, WriteListAfter, WriteAccounting, NeverStranded,
         inProgress, TypeOK, TransactionTypes
<1>2. missionItems' \in Seq(MissionItem)
  BY DEF FinishTransaction, PlanAfter, TypeOK
<1>3. outcome' \in Outcomes
  BY DEF FinishTransaction, CompletionSignal, Outcomes, TypeOK, inProgress
<1>4. /\ transactionInProgress' = "TransactionNone"
      /\ connections' = 0
      /\ itemIndicesToRead' = {} /\ itemIndicesToWrite' = {}
      /\ resumeMission' = FALSE
  BY DEF FinishTransaction, DisconnectFromMavlink
<1>5. TypeOK'
  <2>1. expectedAck' \in AckTypes /\ retryCount' \in Int /\ missionItemCountToRead' \in Int
    OBVIOUS
  <2>2. timerActive' \in BOOLEAN /\ resumeMission' \in BOOLEAN
    BY <1>4
  <2>3. transactionInProgress' \in TransactionTypes /\ connections' \in Nat
    BY <1>4 DEF TransactionTypes
  <2>4. itemIndicesToWrite' \subseteq Nat /\ itemIndicesToRead' \subseteq Nat
    BY <1>4
  <2>5. missionItems' \in Seq(MissionItem) /\ homePosition' \in Item
    BY <1>2
  <2>6. writeMissionItems' \in Seq(MissionItem)
    BY <1>1
  <2> QED
    BY <1>3, <2>1, <2>2, <2>3, <2>4, <2>5, <2>6 DEF TypeOK
<1>6. NeverStranded' /\ MultiplyConnectedOnlyInRemoveAll'
  BY <1>4 DEF NeverStranded, MultiplyConnectedOnlyInRemoveAll,
              inProgress
<1>7. ReadAccounting'
  BY <1>4 DEF ReadAccounting, inProgress
<1>8. WriteAccounting'
  BY <1>1, <1>4 DEF WriteAccounting
<1> QED
  BY <1>5, <1>6, <1>7, <1>8

\* Starting the write of a numbered plan.
LEMMA WriteKeepsInvariant ==
  ASSUME IInv, ~inProgress,
         NEW list \in Seq(MissionItem), Numbered(list),
         WriteMissionItemsWorker(list),
         resumeMission' \in BOOLEAN,
         UNCHANGED <<readVars, homePosition>>
  PROVE  IInv'
<1> USE DEF IInv
<1>1. /\ expectedAck' = "AckMissionRequest" /\ timerActive' = TRUE
      /\ transactionInProgress' = "TransactionWrite"
      /\ writeMissionItems' = list /\ itemIndicesToWrite' = 0..(Len(list) - 1)
      /\ retryCount' = 0 /\ outcome' = NoOutcome
  BY DEF WriteMissionItemsWorker, WriteMissionCount, StartAckTimeout, Primed
<1>2. connections' = 1
  BY DEF WriteMissionItemsWorker, ConnectToMavlink, TypeOK, NeverStranded
<1>3. TypeOK'
  BY <1>1, <1>2 DEF TypeOK, readVars, AckTypes, TransactionTypes, NoOutcome, Outcomes
<1>4. NeverStranded' /\ MultiplyConnectedOnlyInRemoveAll' /\ ReadAccounting'
  BY <1>1, <1>2 DEF NeverStranded, MultiplyConnectedOnlyInRemoveAll,
                    inProgress, ReadAccounting
<1>5. WriteAccounting'
  BY <1>1 DEF WriteAccounting, inProgress, Numbered
<1> QED
  BY <1>3, <1>4, <1>5

\* What the application calls.
LEMMA CallKeepsInvariant ==
  ASSUME ConstantsAssumption, IInv, ApplicationCall
  PROVE  IInv'
<1> USE DEF IInv
<1>1. CASE LoadFromVehicle
  <2>1. /\ expectedAck' = "AckMissionCount" /\ timerActive' = TRUE
        /\ transactionInProgress' = "TransactionRead"
        /\ itemIndicesToRead' = {} /\ missionItems' = <<>>
        /\ retryCount' = 0 /\ outcome' = NoOutcome
        /\ UNCHANGED <<resumeMission, missionItemCountToRead, writeVars, homePosition>>
    BY <1>1 DEF LoadFromVehicle, RequestList, StartAckTimeout
  <2>2. connections' = 1
    BY <1>1 DEF LoadFromVehicle, ConnectToMavlink, TypeOK, NeverStranded
  <2>3. TypeOK'
    BY <2>1, <2>2 DEF TypeOK, writeVars, AckTypes, TransactionTypes, NoOutcome, Outcomes
  <2>4. NeverStranded' /\ MultiplyConnectedOnlyInRemoveAll' /\ ReadAccounting'
    BY <2>1, <2>2 DEF NeverStranded, MultiplyConnectedOnlyInRemoveAll,
                      inProgress, ReadAccounting
  <2>5. writeMissionItems = <<>>
    BY <1>1 DEF LoadFromVehicle, WriteAccounting
  <2>6. WriteAccounting'
    BY <2>1, <2>5 DEF WriteAccounting, writeVars
  <2> QED
    BY <2>3, <2>4, <2>6
<1>2. ASSUME NEW items \in Plans, WriteMissionItems(items)
      PROVE  IInv'
  <2>1. resumeMission' \in BOOLEAN
    BY <1>2 DEF WriteMissionItems, TypeOK
  <2> QED
    BY <1>2, <2>1, WriteListType, WriteKeepsInvariant DEF WriteMissionItems
<1>3. CASE RemoveAll
  <2>1. /\ expectedAck' = "AckMissionClearAll" /\ timerActive' = TRUE
        /\ transactionInProgress' = "TransactionRemoveAll"
        /\ missionItems' = <<>> /\ retryCount' = 0 /\ outcome' = NoOutcome
        /\ UNCHANGED <<resumeMission, itemIndicesToRead, missionItemCountToRead,
                       writeVars, homePosition>>
    BY <1>3 DEF RemoveAll, RemoveAllWorker, StartAckTimeout
  <2>2. connections' = 1
    BY <1>3 DEF RemoveAll, RemoveAllWorker, ConnectToMavlink, TypeOK, NeverStranded
  <2>3. TypeOK'
    BY <2>1, <2>2 DEF TypeOK, writeVars, AckTypes, TransactionTypes, NoOutcome, Outcomes
  <2>4. NeverStranded' /\ MultiplyConnectedOnlyInRemoveAll' /\ ReadAccounting'
    BY <2>1, <2>2 DEF NeverStranded, MultiplyConnectedOnlyInRemoveAll,
                      inProgress, ReadAccounting
  <2>5. writeMissionItems = <<>>
    BY <1>3 DEF RemoveAll, WriteAccounting
  <2>6. WriteAccounting'
    BY <2>1, <2>5 DEF WriteAccounting, writeVars
  <2> QED
    BY <2>3, <2>4, <2>6
<1>4. ASSUME NEW resumeIndex \in 1..Len(missionItems),
             NEW kept \in Ascending(resumeIndex),
             GenerateResumeMission(resumeIndex, kept)
      PROVE  IInv'
  BY <1>4, ResumeListType, WriteKeepsInvariant DEF GenerateResumeMission, TypeOK
<1>5. CASE WriteArduPilotGuidedMissionItem
  <2>1. /\ expectedAck' = "AckGuidedItem" /\ timerActive' = TRUE
        /\ transactionInProgress' = "TransactionWrite" /\ outcome' = NoOutcome
        /\ UNCHANGED <<retryCount, resumeMission, readVars, writeVars, homePosition>>
    BY <1>5 DEF WriteArduPilotGuidedMissionItem, StartAckTimeout
  <2>2. connections' = 1
    BY <1>5 DEF WriteArduPilotGuidedMissionItem, ConnectToMavlink, TypeOK, NeverStranded
  <2>3. TypeOK'
    BY <2>1, <2>2 DEF TypeOK, readVars, writeVars, AckTypes, TransactionTypes,
                      NoOutcome, Outcomes
  <2>4. NeverStranded' /\ MultiplyConnectedOnlyInRemoveAll' /\ ReadAccounting'
    BY <2>1, <2>2 DEF NeverStranded, MultiplyConnectedOnlyInRemoveAll,
                      inProgress, ReadAccounting
  <2>5. writeMissionItems = <<>>
    BY <1>5 DEF WriteArduPilotGuidedMissionItem, WriteAccounting
  <2>6. WriteAccounting'
    BY <2>1, <2>5 DEF WriteAccounting, writeVars
  <2> QED
    BY <2>3, <2>4, <2>6
<1> QED
  BY <1>1, <1>2, <1>3, <1>4, <1>5 DEF ApplicationCall

\* The timer.
LEMMA TimeoutKeepsInvariant ==
  ASSUME ConstantsAssumption, IInv, AckTimeout
  PROVE  IInv'
<1> USE DEF IInv
<1>1. inProgress
  BY DEF AckTimeout, TimeoutWaitingForCount, TimeoutWaitingForItem,
         TimeoutWaitingForRequest, TimeoutWaitingForClearAll,
         TimeoutWaitingForGuidedAck, NeverStranded
\* Giving up.
<1>2. ASSUME TimeoutFails, expectedAck' \in AckTypes
      PROVE  IInv'
  <2>1. FinishTransaction(FALSE, FALSE, missionItems) /\ timerActive' = FALSE
    BY <1>2 DEF TimeoutFails, Fail
  <2>2. retryCount' \in Int /\ missionItemCountToRead' \in Int /\ homePosition' \in Item
    BY <1>2 DEF TimeoutFails, TypeOK
  <2>3. missionItems \in Seq(MissionItem)
    BY DEF TypeOK
  <2> QED
    BY <1>1, <1>2, <2>1, <2>2, <2>3, FinishKeepsInvariant
<1>3. ASSUME UNCHANGED expectedAck PROVE expectedAck' \in AckTypes
  BY <1>3 DEF TypeOK
<1>4. "AckNone" \in AckTypes
  BY DEF AckTypes
\* Asking again.
<1>5. CASE TimeoutWaitingForCount
  <2>1. CASE TimeoutFails /\ UNCHANGED expectedAck
    BY <1>2, <1>3, <2>1
  <2>2. CASE /\ retryCount' = retryCount + 1
             /\ RequestList
             /\ UNCHANGED <<transactionInProgress, resumeMission,
                            missionItemCountToRead, writeVars, connections,
                            homePosition, outcome>>
    <3>1. /\ expectedAck' = "AckMissionCount" /\ timerActive' = TRUE
          /\ itemIndicesToRead' = {} /\ missionItems' = <<>>
      BY <2>2 DEF RequestList, StartAckTimeout
    <3>2. TypeOK'
      BY <2>2, <3>1 DEF TypeOK, writeVars, AckTypes
    <3>3. NeverStranded' /\ MultiplyConnectedOnlyInRemoveAll'
      BY <1>1, <1>5, <2>2, <3>1
         DEF TimeoutWaitingForCount, NeverStranded,
             MultiplyConnectedOnlyInRemoveAll, inProgress, TypeOK, TransactionTypes
    <3>4. ReadAccounting'
      BY <3>1 DEF ReadAccounting
    <3>5. WriteAccounting'
      BY <1>5, <2>2 DEF TimeoutWaitingForCount, WriteAccounting, writeVars
    <3> QED
      BY <3>2, <3>3, <3>4, <3>5
  <2> QED
    BY <1>5, <2>1, <2>2 DEF TimeoutWaitingForCount
<1>6. CASE TimeoutWaitingForItem
  <2>1. CASE TimeoutFails /\ UNCHANGED expectedAck
    BY <1>2, <1>3, <2>1
  <2>2. CASE /\ retryCount' = retryCount + 1
             /\ RequestNextMissionItem(itemIndicesToRead)
             /\ UNCHANGED <<transactionInProgress, resumeMission, readVars,
                            writeVars, connections, homePosition, outcome>>
    <3>1. expectedAck' = expectedAck /\ timerActive' = timerActive
      BY <1>1, <1>6, <2>2 DEF TimeoutWaitingForItem, RequestNextMissionItem,
                              StartAckTimeout, NeverStranded, TypeOK
    <3>2. TypeOK'
      BY <2>2, <3>1 DEF TypeOK, readVars, writeVars
    <3>3. NeverStranded' /\ MultiplyConnectedOnlyInRemoveAll'
      BY <2>2, <3>1 DEF NeverStranded, MultiplyConnectedOnlyInRemoveAll, inProgress
    <3>4. UNCHANGED <<ReceivedIndices, inProgress>>
      BY <2>2 DEF ReceivedIndices, inProgress, readVars
    <3>5. ReadAccounting'
      BY <2>2, <3>1, <3>4 DEF ReadAccounting, readVars
    <3>6. WriteAccounting'
      BY <2>2, <3>1, <3>4 DEF WriteAccounting, writeVars
    <3> QED
      BY <3>2, <3>3, <3>5, <3>6
  <2> QED
    BY <1>6, <2>1, <2>2 DEF TimeoutWaitingForItem
<1>7. CASE TimeoutWaitingForRequest
  <2>1. CASE TimeoutFails /\ UNCHANGED expectedAck
    BY <1>2, <1>3, <2>1
  <2>2. CASE TimeoutFails /\ expectedAck' = "AckNone"
    BY <1>2, <1>4, <2>2
  <2>3. CASE /\ retryCount' = retryCount + 1
             /\ WriteMissionCount(writeMissionItems)
             /\ UNCHANGED <<transactionInProgress, resumeMission, readVars,
                            writeVars, connections, homePosition, outcome>>
    <3>1. expectedAck' = expectedAck /\ timerActive' = timerActive
      BY <1>1, <1>7, <2>3 DEF TimeoutWaitingForRequest, WriteMissionCount,
                              StartAckTimeout, NeverStranded, TypeOK
    <3>2. TypeOK'
      BY <2>3, <3>1 DEF TypeOK, readVars, writeVars
    <3>3. NeverStranded' /\ MultiplyConnectedOnlyInRemoveAll'
      BY <2>3, <3>1 DEF NeverStranded, MultiplyConnectedOnlyInRemoveAll, inProgress
    <3>4. UNCHANGED <<ReceivedIndices, inProgress>>
      BY <2>3 DEF ReceivedIndices, inProgress, readVars
    <3>5. ReadAccounting'
      BY <2>3, <3>1, <3>4 DEF ReadAccounting, readVars
    <3>6. WriteAccounting'
      BY <2>3, <3>1, <3>4 DEF WriteAccounting, writeVars
    <3> QED
      BY <3>2, <3>3, <3>5, <3>6
  <2> QED
    BY <1>7, <2>1, <2>2, <2>3 DEF TimeoutWaitingForRequest
<1>8. CASE TimeoutWaitingForClearAll
  <2>1. CASE TimeoutFails /\ UNCHANGED expectedAck
    BY <1>2, <1>3, <2>1
  <2>2. CASE /\ retryCount' = retryCount + 1
             /\ RemoveAllWorker
             /\ UNCHANGED <<transactionInProgress, resumeMission, readVars,
                            writeVars, homePosition, outcome>>
    <3>1. /\ expectedAck' = expectedAck /\ timerActive' = timerActive
          /\ connections' = connections + 1
      BY <1>1, <1>8, <2>2 DEF TimeoutWaitingForClearAll, RemoveAllWorker,
                  StartAckTimeout, ConnectToMavlink, NeverStranded, TypeOK
    <3>2. TypeOK'
      BY <2>2, <3>1 DEF TypeOK, readVars, writeVars
    <3>3. transactionInProgress = "TransactionRemoveAll"
      BY <1>1, <1>8 DEF TimeoutWaitingForClearAll, NeverStranded, inProgress,
                        TypeOK, TransactionTypes
    <3>4. NeverStranded' /\ MultiplyConnectedOnlyInRemoveAll'
      BY <2>2, <3>1, <3>3 DEF NeverStranded, MultiplyConnectedOnlyInRemoveAll,
                              inProgress, TypeOK
    <3>5. ReadAccounting' /\ WriteAccounting'
      BY <2>2, <3>1 DEF ReadAccounting, ReceivedIndices, WriteAccounting,
                        inProgress, readVars, writeVars
    <3> QED
      BY <3>2, <3>4, <3>5
  <2> QED
    BY <1>8, <2>1, <2>2 DEF TimeoutWaitingForClearAll
<1>9. CASE TimeoutWaitingForGuidedAck
  BY <1>2, <1>4, <1>9 DEF TimeoutWaitingForGuidedAck
<1> QED
  BY <1>5, <1>6, <1>7, <1>8, <1>9 DEF AckTimeout

\* The list of indices to read when a MISSION_COUNT arrives.
LEMMA PrimedReadList ==
  ASSUME NEW count \in Nat, count > 0
  PROVE  /\ 0..(count - 1) # {}
         /\ IsFiniteSet(0..(count - 1))
         /\ Cardinality(0..(count - 1)) = count
<1>1. 0 \in 0..(count - 1)
  OBVIOUS
<1>2. IsFiniteSet(0..(count - 1)) /\ Cardinality(0..(count - 1)) = count
  BY FS_Interval
<1> QED
  BY <1>1, <1>2

\* The indices still to be read are finitely many.
LEMMA ReadListFinite ==
  ASSUME ReadAccounting, TypeOK, expectedAck = "AckMissionItem", inProgress
  PROVE  IsFiniteSet(itemIndicesToRead)
<1>1. itemIndicesToRead \subseteq 0..(missionItemCountToRead - 1)
  BY DEF ReadAccounting
<1>2. IsFiniteSet(0..(missionItemCountToRead - 1))
  BY FS_Interval DEF TypeOK
<1> QED
  BY <1>1, <1>2, FS_Subset

\* What a vehicle may send, of any size.
Answers ==
  {CountMessage(t, c) : t \in PlanTypes, c \in Nat}
    \cup {ItemMessage(t, s, i) : t \in PlanTypes, s \in Nat, i \in Item}
    \cup {RequestMessage(t, s) : t \in PlanTypes, s \in Nat}
    \cup {AckMessage(t, r) : t \in PlanTypes, r \in Results}

\* The messages of a run are among them.
LEMMA InboundAreAnswers == ConstantsAssumption => Inbound \subseteq Answers
BY DEF Inbound, Answers, ConstantsAssumption

\* The fields of an answer.
LEMMA MessageType ==
  ASSUME NEW m \in Answers
  PROVE  /\ m.id = "MISSION_COUNT" => m.count \in Nat
         /\ m.id = "MISSION_ITEM_INT" => m.seq \in Nat /\ m.item \in Item
         /\ m.id = "MISSION_REQUEST_INT" => m.seq \in Nat
BY DEF Answers, CountMessage, ItemMessage, RequestMessage, AckMessage

\* A MISSION_COUNT starts the reading of the items, or ends the read.
LEMMA CountKeepsInvariant ==
  ASSUME ConstantsAssumption, IInv, NEW m \in Answers,
         connections > 0, HandleMissionCount(m)
  PROVE  IInv'
<1> USE DEF IInv
<1>1. inProgress /\ transactionInProgress = "TransactionRead"
  BY DEF HandleMissionCount, NeverStranded, inProgress, TypeOK, TransactionTypes
<1>2. m.count \in Nat /\ retryCount' = 0
  BY MessageType DEF HandleMissionCount
<1>3. CASE /\ m.count = 0
           /\ AckReceived
           /\ ReadTransactionComplete(missionItems)
           /\ UNCHANGED <<missionItemCountToRead, homePosition>>
  <2>1. /\ FinishTransaction(TRUE, FALSE, missionItems)
        /\ expectedAck' = "AckNone" /\ timerActive' = FALSE
    BY <1>3 DEF AckReceived, ReadTransactionComplete
  <2>2. /\ expectedAck' \in AckTypes /\ missionItems \in Seq(MissionItem)
        /\ retryCount' \in Int /\ missionItemCountToRead' \in Int
        /\ homePosition' \in Item
    BY <1>2, <1>3, <2>1 DEF TypeOK, AckTypes
  <2> QED
    BY <1>1, <2>1, <2>2, FinishKeepsInvariant
<1>4. CASE /\ m.count > 0
           /\ itemIndicesToRead' = itemIndicesToRead \cup 0..(m.count - 1)
           /\ missionItemCountToRead' = m.count
           /\ RequestNextMissionItem(itemIndicesToRead')
           /\ UNCHANGED <<transactionInProgress, resumeMission, missionItems,
                          writeVars, connections, homePosition, outcome>>
  <2>1. /\ itemIndicesToRead' = 0..(m.count - 1)
        /\ missionItems = <<>> /\ missionItems' = <<>>
    BY <1>1, <1>4 DEF HandleMissionCount, ReadAccounting
  <2>2. expectedAck' = "AckMissionItem" /\ timerActive' = TRUE
    BY <1>4 DEF RequestNextMissionItem, StartAckTimeout
  <2>3. TypeOK'
    BY <1>2, <1>4, <2>1, <2>2 DEF TypeOK, writeVars, AckTypes
  <2>4. NeverStranded' /\ MultiplyConnectedOnlyInRemoveAll'
    BY <1>1, <1>4, <2>2 DEF NeverStranded, MultiplyConnectedOnlyInRemoveAll,
                            inProgress
  <2>5. ReadAccounting'
    <3>1. /\ itemIndicesToRead' # {}
          /\ Cardinality(itemIndicesToRead') = m.count
          /\ missionItemCountToRead' = m.count
          /\ m.count \in Nat
      BY <1>2, <1>4, <2>1, PrimedReadList
    <3>2. Len(missionItems') = 0 /\ ReceivedIndices' = {}
      BY <2>1 DEF ReceivedIndices
    <3> QED
      BY <2>1, <2>2, <3>1, <3>2 DEF ReadAccounting
  <2>6. WriteAccounting'
    BY <1>4 DEF HandleMissionCount, WriteAccounting, writeVars
  <2> QED
    BY <2>3, <2>4, <2>5, <2>6
<1> QED
  BY <1>3, <1>4 DEF HandleMissionCount

\* The items received and the indices missing make up a plan of count items.
Accounted(items, missing, count) ==
  /\ {items[i].seq : i \in 1..Len(items)} \cap missing = {}
  /\ {items[i].seq : i \in 1..Len(items)} \cup missing = 0..(count - 1)
  /\ Len(items) + Cardinality(missing) = count
  /\ \A i, j \in 1..Len(items) : items[i].seq = items[j].seq => i = j

\* Storing an awaited item keeps the account.
LEMMA ItemStored ==
  ASSUME TypeOK, ReadAccounting, inProgress, expectedAck = "AckMissionItem",
         NEW entry \in MissionItem, entry.seq \in itemIndicesToRead
  PROVE  Accounted(Append(missionItems, entry), itemIndicesToRead \ {entry.seq},
                   missionItemCountToRead)
<1> DEFINE seq == entry.seq
           items == Append(missionItems, entry)
           remaining == itemIndicesToRead \ {seq}
<1>1. items \in Seq(MissionItem) /\ Len(items) = Len(missionItems) + 1
  BY DEF TypeOK
<1>2. \A i \in 1..Len(missionItems) : items[i] = missionItems[i]
  BY DEF TypeOK
<1>3. items[Len(missionItems) + 1].seq = seq
  BY DEF TypeOK
<1>4. Len(missionItems) \in Nat
  BY DEF TypeOK
<1>5. {items[i].seq : i \in 1..Len(items)} = ReceivedIndices \cup {seq}
  BY <1>1, <1>2, <1>3, <1>4 DEF ReceivedIndices
<1>6. seq \notin ReceivedIndices
  BY DEF ReadAccounting
<1>7. \A i, j \in 1..Len(items) : items[i].seq = items[j].seq => i = j
  <2>1. \A i \in 1..Len(missionItems) : items[i].seq # seq
    BY <1>2, <1>6 DEF ReceivedIndices
  <2>2. \A i, j \in 1..Len(missionItems) : items[i].seq = items[j].seq => i = j
    BY <1>2 DEF ReadAccounting
  <2> QED
    BY <1>1, <1>3, <1>4, <2>1, <2>2
<1>8. /\ ReceivedIndices \cap itemIndicesToRead = {}
      /\ ReceivedIndices \cup itemIndicesToRead = 0..(missionItemCountToRead - 1)
      /\ Len(missionItems) + Cardinality(itemIndicesToRead) = missionItemCountToRead
  BY DEF ReadAccounting
<1>9. Cardinality(remaining) = Cardinality(itemIndicesToRead) - 1
  BY ReadListFinite, FS_RemoveElement
<1>10. Cardinality(itemIndicesToRead) \in Nat
  BY ReadListFinite, FS_CardinalityType
<1>11. Len(items) + Cardinality(remaining) = missionItemCountToRead
  BY <1>1, <1>4, <1>8, <1>9, <1>10
<1>12. /\ {items[i].seq : i \in 1..Len(items)} \cap remaining = {}
       /\ {items[i].seq : i \in 1..Len(items)} \cup remaining
            = 0..(missionItemCountToRead - 1)
  BY <1>5, <1>6, <1>8
<1> QED
  BY <1>7, <1>11, <1>12 DEF Accounted

\* An item that is awaited is stored and the next one requested; the last one
\* ends the read; any other leaves the lists alone and the timer running.
LEMMA ItemKeepsInvariant ==
  ASSUME ConstantsAssumption, IInv, NEW m \in Answers,
         connections > 0, HandleMissionItem(m)
  PROVE  IInv'
<1> USE DEF IInv
<1> DEFINE remaining == itemIndicesToRead \ {m.seq}
           items == Append(missionItems, Entry(m.seq, FromVehicle(m.item)))
<1>1. /\ inProgress /\ transactionInProgress = "TransactionRead"
      /\ expectedAck = "AckMissionItem"
  BY DEF HandleMissionItem, NeverStranded, inProgress, TypeOK, TransactionTypes
<1>2. /\ Entry(m.seq, FromVehicle(m.item)) \in MissionItem
      /\ Entry(m.seq, FromVehicle(m.item)).seq = m.seq
      /\ m.seq \in Nat
  BY MessageType, ConvertedItem, EntryType DEF HandleMissionItem
<1>3. items \in Seq(MissionItem) /\ Len(items) = Len(missionItems) + 1
  BY <1>2 DEF TypeOK
<1>4. writeMissionItems = <<>>
  BY <1>1 DEF WriteAccounting
<1>5. CASE m.seq \in itemIndicesToRead /\ remaining = {}
  <2>1. /\ FinishTransaction(TRUE, FALSE, items)
        /\ expectedAck' = "AckNone" /\ timerActive' = FALSE
        /\ retryCount' = 0
        /\ UNCHANGED <<missionItemCountToRead, homePosition>>
    BY <1>5 DEF HandleMissionItem, AckReceived, ReadTransactionComplete
  <2>2. /\ expectedAck' \in AckTypes /\ retryCount' \in Int
        /\ missionItemCountToRead' \in Int /\ homePosition' \in Item
    BY <2>1 DEF TypeOK, AckTypes
  <2> QED
    BY <1>1, <1>3, <2>1, <2>2, FinishKeepsInvariant
<1>6. CASE m.seq \in itemIndicesToRead /\ remaining # {}
  <2>1. /\ retryCount' = 0
        /\ itemIndicesToRead' = remaining /\ missionItems' = items
        /\ expectedAck' = "AckMissionItem" /\ timerActive' = TRUE
        /\ UNCHANGED <<missionItemCountToRead, homePosition,
                       transactionInProgress, resumeMission, writeVars,
                       connections, outcome>>
    BY <1>6 DEF HandleMissionItem, RequestNextMissionItem, StartAckTimeout
  <2>2. TypeOK'
    <3>1. itemIndicesToRead' \subseteq Nat
      BY <2>1 DEF TypeOK
    <3> HIDE DEF items, remaining
    <3> QED
      BY <1>3, <2>1, <3>1 DEF TypeOK, writeVars, AckTypes
  <2>3. NeverStranded' /\ MultiplyConnectedOnlyInRemoveAll'
    BY <1>1, <2>1 DEF NeverStranded, MultiplyConnectedOnlyInRemoveAll, inProgress
  <2>4. ReadAccounting'
    <3>1. Accounted(items, remaining, missionItemCountToRead)
      BY <1>1, <1>2, <1>6, ItemStored
    <3> HIDE DEF items, remaining
    <3>2. ReceivedIndices' = {items[i].seq : i \in 1..Len(items)}
      BY <2>1 DEF ReceivedIndices
    <3>3. itemIndicesToRead' # {} /\ expectedAck' # "AckMissionCount"
      BY <1>6, <2>1
    <3>4. UNCHANGED missionItemCountToRead
      BY <2>1
    <3> QED
      BY <2>1, <3>1, <3>2, <3>3, <3>4 DEF ReadAccounting, Accounted
  <2>5. WriteAccounting'
    BY <1>1, <1>4, <2>1 DEF WriteAccounting, writeVars
  <2> QED
    BY <2>2, <2>3, <2>4, <2>5
<1>7. CASE m.seq \notin itemIndicesToRead
  <2>1. /\ expectedAck' = expectedAck /\ timerActive' = timerActive
        /\ UNCHANGED <<retryCount, transactionInProgress, resumeMission, readVars,
                       writeVars, connections, homePosition, outcome>>
    BY <1>1, <1>7 DEF HandleMissionItem, StartAckTimeout, NeverStranded, TypeOK
  <2>2. TypeOK'
    BY <2>1 DEF TypeOK, readVars, writeVars
  <2>3. NeverStranded' /\ MultiplyConnectedOnlyInRemoveAll'
    BY <2>1 DEF NeverStranded, MultiplyConnectedOnlyInRemoveAll, inProgress
  <2>4. ReadAccounting' /\ WriteAccounting'
    BY <2>1 DEF ReadAccounting, ReceivedIndices, WriteAccounting, inProgress,
                readVars, writeVars
  <2> QED
    BY <2>2, <2>3, <2>4
<1> QED
  BY <1>5, <1>6, <1>7

\* The vehicle asks for an item: it is sent, or the write fails.
LEMMA RequestKeepsInvariant ==
  ASSUME ConstantsAssumption, IInv, NEW m \in Answers,
         connections > 0, HandleMissionRequest(m)
  PROVE  IInv'
<1> USE DEF IInv
<1>1. inProgress /\ timerActive = TRUE
  BY DEF NeverStranded, TypeOK
<1>2. CASE m.seq > Len(writeMissionItems) - 1
  <2>1. /\ FinishTransaction(FALSE, FALSE, missionItems)
        /\ expectedAck' = "AckNone" /\ timerActive' = FALSE
        /\ UNCHANGED <<retryCount, missionItemCountToRead, homePosition>>
    <3>1. m.seq \in Nat /\ Len(writeMissionItems) \in Nat
      BY MessageType DEF HandleMissionRequest, TypeOK
    <3>2. ~(m.seq <= Len(writeMissionItems) - 1)
      BY <1>2, <3>1
    <3> QED
      BY <3>2 DEF HandleMissionRequest, AckReceived, Fail
  <2>2. /\ expectedAck' \in AckTypes /\ retryCount' \in Int
        /\ missionItems \in Seq(MissionItem)
        /\ missionItemCountToRead' \in Int /\ homePosition' \in Item
    BY <2>1 DEF TypeOK, AckTypes
  <2> QED
    BY <1>1, <2>1, <2>2, FinishKeepsInvariant
<1>3. CASE ~(m.seq > Len(writeMissionItems) - 1)
  <2>1. /\ expectedAck' = expectedAck /\ timerActive' = timerActive
        /\ itemIndicesToWrite' = itemIndicesToWrite \ {m.seq}
        /\ UNCHANGED <<retryCount, transactionInProgress, resumeMission, readVars,
                       writeMissionItems, connections, homePosition, outcome>>
    BY <1>1, <1>3 DEF HandleMissionRequest, StartAckTimeout
  <2>2. TypeOK'
    BY <2>1 DEF TypeOK, readVars
  <2>3. NeverStranded' /\ MultiplyConnectedOnlyInRemoveAll'
    BY <2>1 DEF NeverStranded, MultiplyConnectedOnlyInRemoveAll, inProgress
  <2>4. ReadAccounting'
    <3> HIDE DEF IInv
    <3>1. UNCHANGED <<transactionInProgress, expectedAck, missionItems,
                      itemIndicesToRead, missionItemCountToRead>>
      BY <2>1 DEF readVars
    <3>2. ReadAccounting
      BY DEF IInv
    <3> QED
      BY <3>1, <3>2 DEF ReadAccounting, ReceivedIndices, inProgress
  <2>5. WriteAccounting'
    <3> HIDE DEF IInv
    <3>1. WriteAccounting
      BY DEF IInv
    <3> QED
      BY <2>1, <3>1 DEF WriteAccounting, inProgress
  <2> QED
    BY <2>2, <2>3, <2>4, <2>5
<1> QED
  BY <1>2, <1>3

\* A MISSION_ACK ends the transaction.
LEMMA AckKeepsInvariant ==
  ASSUME ConstantsAssumption, IInv, NEW m \in Answers,
         connections > 0, HandleMissionAck(m)
  PROVE  IInv'
<1> USE DEF IInv
<1>1. inProgress
  BY DEF NeverStranded, TypeOK
<1> DEFINE guided == expectedAck = "AckGuidedItem"
<1>2. /\ FinishTransaction(AckSucceeds(m), guided, missionItems)
      /\ expectedAck' = "AckNone" /\ timerActive' = FALSE
      /\ UNCHANGED <<retryCount, missionItemCountToRead, homePosition>>
  BY DEF HandleMissionAck, AckReceived
<1>3. AckSucceeds(m) \in BOOLEAN /\ guided \in BOOLEAN
  BY DEF AckSucceeds
<1>4. /\ expectedAck' \in AckTypes /\ retryCount' \in Int
      /\ missionItems \in Seq(MissionItem)
      /\ missionItemCountToRead' \in Int /\ homePosition' \in Item
  BY <1>2 DEF TypeOK, AckTypes
<1>5. guided => expectedAck = "AckGuidedItem"
  OBVIOUS
<1> HIDE DEF guided
<1> QED
  BY <1>1, <1>2, <1>3, <1>4, <1>5, FinishKeepsInvariant

\* A step that changes none of the manager's own variables.
LEMMA StutterKeepsInvariant ==
  ASSUME IInv,
         UNCHANGED <<expectedAck, timerActive, retryCount, transactionInProgress,
                     resumeMission, readVars, writeVars, connections, outcome>>,
         homePosition' \in Item
  PROVE  IInv'
<1> USE DEF IInv
<1>1. TypeOK'
  BY DEF TypeOK, readVars, writeVars
<1>2. NeverStranded' /\ MultiplyConnectedOnlyInRemoveAll'
  BY DEF NeverStranded, MultiplyConnectedOnlyInRemoveAll, inProgress
<1>3. ReadAccounting' /\ WriteAccounting'
  BY DEF ReadAccounting, ReceivedIndices, WriteAccounting, inProgress,
         readVars, writeVars
<1> QED
  BY <1>1, <1>2, <1>3

\* A message, of whatever size.
LEMMA MessageKeepsInvariant ==
  ASSUME ConstantsAssumption, IInv, NEW m \in Answers, MavlinkMessageReceived(m)
  PROVE  IInv'
<1>1. CASE connections > 0 /\ HandleMissionCount(m)
  BY <1>1, CountKeepsInvariant
<1>2. CASE connections > 0 /\ HandleMissionItem(m)
  BY <1>2, ItemKeepsInvariant
<1>3. CASE HandleHomePositionUpdate(m)
  <2>1. homePosition' \in Item
    BY <1>3, MessageType DEF HandleHomePositionUpdate
  <2> QED
    BY <1>3, <2>1, StutterKeepsInvariant DEF HandleHomePositionUpdate
<1>4. CASE connections > 0 /\ HandleMissionRequest(m)
  BY <1>4, RequestKeepsInvariant
<1>5. CASE connections > 0 /\ HandleMissionAck(m)
  BY <1>5, AckKeepsInvariant
<1>6. CASE IgnoreMessage(m)
  BY <1>6, StutterKeepsInvariant DEF IgnoreMessage, IInv, TypeOK
<1> QED
  BY <1>1, <1>2, <1>3, <1>4, <1>5, <1>6 DEF MavlinkMessageReceived

\* The invariants are inductive.
LEMMA InvariantStep ==
  ASSUME ConstantsAssumption, IInv, [Next]_vars
  PROVE  IInv'
<1>1. CASE ApplicationCall
  BY <1>1, CallKeepsInvariant
<1>2. CASE \E m \in Inbound : MavlinkMessageReceived(m)
  BY <1>2, MessageKeepsInvariant, InboundAreAnswers
<1>3. CASE AckTimeout
  BY <1>3, TimeoutKeepsInvariant
<1>4. CASE UNCHANGED vars
  BY <1>4, StutterKeepsInvariant DEF vars, IInv, TypeOK
<1> QED
  BY <1>1, <1>2, <1>3, <1>4 DEF Next

-----------------------------------------------------------------------------
(* The invariants of every behaviour.                                      *)

\* The inductive invariant holds in every state the manager reaches.
THEOREM Invariance == Spec => []IInv
<1>1. Init => IInv
  BY ConstantsAssumption, InvariantInit
<1>2. IInv /\ [Next]_vars => IInv'
  BY ConstantsAssumption, InvariantStep
<1> QED
  BY <1>1, <1>2, PTL DEF Spec

\* The fields of the manager keep their types whatever the vehicle sends, even
\* from an uninitialized _retryCount.
THEOREM TypeCorrectness == Spec => []TypeOK
<1>1. IInv => TypeOK
  BY DEF IInv
<1> QED
  BY <1>1, Invariance, PTL

\* No transaction is left without something it waits for and a timer, no
\* timer and no connection outlives its transaction.
THEOREM NeverStrandedHolds == Spec => []NeverStranded
<1>1. IInv => NeverStranded
  BY DEF IInv
<1> QED
  BY <1>1, Invariance, PTL

\* Messages are delivered more than once only while a RemoveAll is retried.
THEOREM SingleDelivery == Spec => []MultiplyConnectedOnlyInRemoveAll
<1>1. IInv => MultiplyConnectedOnlyInRemoveAll
  BY DEF IInv
<1> QED
  BY <1>1, Invariance, PTL

\* For plans of any size, no item of the plan announced is lost or stored
\* twice, and the list of items to request is never empty when its head is
\* taken.
THEOREM ReadAccountingHolds == Spec => []ReadAccounting
<1>1. IInv => ReadAccounting
  BY DEF IInv
<1> QED
  BY <1>1, Invariance, PTL

\* For plans of any size, a requested item is the one at its number, and the
\* write list does not outlive its write.
THEOREM WriteAccountingHolds == Spec => []WriteAccounting
<1>1. IInv => WriteAccounting
  BY DEF IInv
<1> QED
  BY <1>1, Invariance, PTL

-----------------------------------------------------------------------------
(* The manager implements the client's view.                               *)

\* An account with nothing missing is a complete plan.
LEMMA AccountedIsComplete ==
  ASSUME NEW items, Len(items) \in Nat, NEW count \in Int,
         Accounted(items, {}, count)
  PROVE  Transaction!Complete(items)
<1>1. Cardinality({}) = 0
  BY FS_EmptySet
<1>2. Len(items) = count
  BY <1>1 DEF Accounted
<1> QED
  BY <1>2 DEF Accounted, Transaction!Complete

\* Ending a transaction is a completion of its kind.
LEMMA FinishImplements ==
  ASSUME IInv, inProgress,
         NEW success \in BOOLEAN, NEW guided \in BOOLEAN,
         NEW items \in Seq(MissionItem),
         FinishTransaction(success, guided, items),
         guided => expectedAck = "AckGuidedItem",
         transactionInProgress = "TransactionRead" /\ success =>
           Transaction!Complete(items),
         transactionInProgress # "TransactionRead" => items = missionItems
  PROVE  Transaction!Next
<1> USE DEF IInv
<1>1. /\ transactionInProgress' = "TransactionNone"
      /\ resumeMission' = FALSE
      /\ missionItems' = PlanAfter(success, transactionInProgress = "TransactionWrite"
                                             /\ ~guided, items)
      /\ writeMissionItems' = WriteListAfter(transactionInProgress = "TransactionWrite"
                                             /\ ~guided)
      /\ outcome' = [signal |-> CompletionSignal(guided), error |-> ~success,
                     resume |-> IF ~resumeMission THEN "none"
                                ELSE IF success THEN "resumeMissionReady"
                                ELSE "resumeMissionUploadFail"]
  BY DEF FinishTransaction
<1>2. CASE transactionInProgress = "TransactionRead"
  <2>1. CompletionSignal(guided) = "newMissionItemsAvailable"
    BY <1>2 DEF CompletionSignal
  <2>2. missionItems' = IF success THEN items ELSE <<>>
    BY <1>1, <1>2 DEF PlanAfter
  <2>3. writeMissionItems' = writeMissionItems
    BY <1>1, <1>2 DEF WriteListAfter
  <2>4. Transaction!EndRead
    BY <1>1, <1>2, <2>1, <2>2, <2>3 DEF Transaction!EndRead, Transaction!Ends
  <2> QED
    BY <2>4 DEF Transaction!Next
<1>3. CASE transactionInProgress = "TransactionWrite" /\ ~guided
  <2>1. CompletionSignal(guided) = "sendComplete"
    BY <1>3 DEF CompletionSignal, inProgress
  <2>2. missionItems' = IF success THEN writeMissionItems ELSE missionItems
    BY <1>1, <1>3 DEF PlanAfter
  <2>3. writeMissionItems' = <<>>
    BY <1>1, <1>3 DEF WriteListAfter
  <2>4. Transaction!EndWrite
    BY <1>1, <1>3, <2>1, <2>2, <2>3 DEF Transaction!EndWrite, Transaction!Ends
  <2> QED
    BY <2>4 DEF Transaction!Next
<1>4. CASE transactionInProgress = "TransactionWrite" /\ guided
  <2>1. CompletionSignal(guided) = "none"
    BY <1>4 DEF CompletionSignal
  <2>2. missionItems' = missionItems
    BY <1>1, <1>4 DEF PlanAfter
  <2>3. writeMissionItems' = <<>> /\ writeMissionItems = <<>>
    BY <1>1, <1>4 DEF WriteListAfter, WriteAccounting
  <2>4. Transaction!EndGuidedWrite
    BY <1>1, <1>4, <2>1, <2>2, <2>3 DEF Transaction!EndGuidedWrite, Transaction!Ends
  <2> QED
    BY <2>4 DEF Transaction!Next
<1>5. CASE transactionInProgress = "TransactionRemoveAll"
  <2>1. CompletionSignal(guided) = "removeAllComplete"
    BY <1>5 DEF CompletionSignal
  <2>2. missionItems' = missionItems
    BY <1>1, <1>5 DEF PlanAfter
  <2>3. writeMissionItems' = writeMissionItems
    BY <1>1, <1>5 DEF WriteListAfter
  <2>4. Transaction!EndRemoveAll
    BY <1>1, <1>5, <2>1, <2>2, <2>3 DEF Transaction!EndRemoveAll, Transaction!Ends
  <2> QED
    BY <2>4 DEF Transaction!Next
<1> QED
  BY <1>2, <1>3, <1>4, <1>5 DEF inProgress, TypeOK, TransactionTypes

\* What the application calls starts a transaction.
LEMMA CallImplements ==
  ASSUME ConstantsAssumption, IInv, ApplicationCall
  PROVE  Transaction!Next
<1> USE DEF IInv
<1>1. CASE LoadFromVehicle
  <2>1. Transaction!StartRead
    BY <1>1 DEF LoadFromVehicle, RequestList, inProgress, writeVars, NoOutcome,
                Transaction!StartRead, Transaction!Starts, Transaction!Running
  <2> QED
    BY <2>1 DEF Transaction!Next
<1>2. ASSUME ~inProgress, NEW list \in Seq(MissionItem),
             WriteMissionItemsWorker(list), resumeMission' \in BOOLEAN,
             UNCHANGED readVars
      PROVE  Transaction!StartWrite
  BY <1>2 DEF WriteMissionItemsWorker, inProgress, readVars, NoOutcome,
              Transaction!StartWrite, Transaction!Starts, Transaction!Running
<1>3. ASSUME NEW items \in Plans, WriteMissionItems(items)
      PROVE  Transaction!Next
  <2>1. resumeMission' \in BOOLEAN /\ WriteList(items) \in Seq(MissionItem)
    BY <1>3, WriteListType DEF WriteMissionItems, TypeOK
  <2> QED
    BY <1>2, <1>3, <2>1 DEF WriteMissionItems, Transaction!Next
<1>4. CASE RemoveAll
  <2>1. Transaction!StartRemoveAll
    BY <1>4 DEF RemoveAll, inProgress, writeVars, NoOutcome,
                Transaction!StartRemoveAll, Transaction!Starts, Transaction!Running
  <2> QED
    BY <2>1 DEF Transaction!Next
<1>5. ASSUME NEW resumeIndex \in 1..Len(missionItems),
             NEW kept \in Ascending(resumeIndex),
             GenerateResumeMission(resumeIndex, kept)
      PROVE  Transaction!Next
  <2>1. ResumeList(resumeIndex, kept) \in Seq(MissionItem)
    BY ResumeListType DEF TypeOK
  <2> QED
    BY <1>2, <1>5, <2>1 DEF GenerateResumeMission, Transaction!Next
<1>6. CASE WriteArduPilotGuidedMissionItem
  <2>1. writeMissionItems \in Seq(MissionItem) /\ resumeMission \in BOOLEAN
    BY DEF TypeOK
  <2>2. Transaction!StartWrite
    BY <1>6, <2>1 DEF WriteArduPilotGuidedMissionItem, inProgress, readVars,
                writeVars, NoOutcome, Transaction!StartWrite, Transaction!Starts,
                Transaction!Running
  <2> QED
    BY <2>2 DEF Transaction!Next
<1> QED
  BY <1>1, <1>3, <1>4, <1>5, <1>6 DEF ApplicationCall

\* A timeout ends the transaction or is not seen by the client.
LEMMA TimeoutImplements ==
  ASSUME ConstantsAssumption, IInv, AckTimeout
  PROVE  [Transaction!Next]_Transaction!vars
<1> USE DEF IInv
<1>1. inProgress
  BY DEF AckTimeout, TimeoutWaitingForCount, TimeoutWaitingForItem,
         TimeoutWaitingForRequest, TimeoutWaitingForClearAll,
         TimeoutWaitingForGuidedAck, NeverStranded
<1>2. ASSUME TimeoutFails
      PROVE  Transaction!Next
  <2>1. FinishTransaction(FALSE, FALSE, missionItems)
    BY <1>2 DEF TimeoutFails, Fail
  <2>2. missionItems \in Seq(MissionItem)
    BY DEF TypeOK
  <2> QED
    BY <1>1, <2>1, <2>2, FinishImplements
\* The items of a read in progress are not part of the plan a client sees.
<1>3. CASE TimeoutWaitingForCount
  <2>1. transactionInProgress = "TransactionRead"
    BY <1>1, <1>3 DEF TimeoutWaitingForCount, NeverStranded, inProgress, TypeOK,
                      TransactionTypes
  <2> QED
    BY <1>2, <1>3, <2>1 DEF TimeoutWaitingForCount, Transaction!vars, writeVars
<1>4. CASE TimeoutWaitingForItem
  BY <1>2, <1>4 DEF TimeoutWaitingForItem, Transaction!vars, readVars, writeVars
<1>5. CASE TimeoutWaitingForRequest
  BY <1>2, <1>5 DEF TimeoutWaitingForRequest, Transaction!vars, readVars, writeVars
<1>6. CASE TimeoutWaitingForClearAll
  BY <1>2, <1>6 DEF TimeoutWaitingForClearAll, Transaction!vars, readVars, writeVars
<1>7. CASE TimeoutWaitingForGuidedAck
  BY <1>2, <1>7 DEF TimeoutWaitingForGuidedAck
<1> QED
  BY <1>3, <1>4, <1>5, <1>6, <1>7 DEF AckTimeout

\* So does a message: the client sees the last one of a transaction only.
LEMMA MessageImplements ==
  ASSUME ConstantsAssumption, IInv, NEW m \in Answers, MavlinkMessageReceived(m)
  PROVE  [Transaction!Next]_Transaction!vars
<1> USE DEF IInv
<1>1. CASE connections > 0 /\ HandleMissionCount(m)
  <2>1. inProgress /\ transactionInProgress = "TransactionRead" /\ missionItems = <<>>
    BY <1>1 DEF HandleMissionCount, NeverStranded, inProgress, TypeOK,
                TransactionTypes, ReadAccounting
  <2>2. CASE ReadTransactionComplete(missionItems)
    <3>1. FinishTransaction(TRUE, FALSE, missionItems)
      BY <2>2 DEF ReadTransactionComplete
    <3>2. Transaction!Complete(missionItems) /\ missionItems \in Seq(MissionItem)
      BY <2>1 DEF Transaction!Complete
    <3> QED
      BY <2>1, <3>1, <3>2, FinishImplements
  <2>3. CASE UNCHANGED <<transactionInProgress, resumeMission, missionItems,
                         writeVars, connections, homePosition, outcome>>
    BY <2>3 DEF Transaction!vars, writeVars
  <2> QED
    BY <1>1, <2>2, <2>3 DEF HandleMissionCount
<1>2. CASE connections > 0 /\ HandleMissionItem(m)
  <2> DEFINE entry == Entry(m.seq, FromVehicle(m.item))
             items == Append(missionItems, entry)
  <2>1. /\ inProgress /\ transactionInProgress = "TransactionRead"
        /\ expectedAck = "AckMissionItem"
    BY <1>2 DEF HandleMissionItem, NeverStranded, inProgress, TypeOK, TransactionTypes
  <2>2. entry \in MissionItem /\ entry.seq = m.seq
    BY <1>2, MessageType, ConvertedItem, EntryType DEF HandleMissionItem
  <2> HIDE DEF entry
  <2>3. CASE m.seq \in itemIndicesToRead /\ itemIndicesToRead \ {m.seq} = {}
    <3>1. FinishTransaction(TRUE, FALSE, items)
      BY <1>2, <2>3 DEF HandleMissionItem, ReadTransactionComplete, entry
    <3>2. items \in Seq(MissionItem)
      BY <2>2 DEF TypeOK
    <3>3. Accounted(items, {}, missionItemCountToRead)
      BY <2>1, <2>2, <2>3, ItemStored
    <3>4. Len(items) \in Nat /\ missionItemCountToRead \in Int
      BY <3>2 DEF TypeOK
    <3> HIDE DEF items
    <3>5. Transaction!Complete(items)
      BY <3>3, <3>4, AccountedIsComplete
    <3> QED
      BY <2>1, <3>1, <3>2, <3>5, FinishImplements
  <2>4. CASE ~(m.seq \in itemIndicesToRead /\ itemIndicesToRead \ {m.seq} = {})
    <3>1. UNCHANGED <<transactionInProgress, resumeMission, writeVars, outcome>>
      BY <1>2, <2>4 DEF HandleMissionItem
    <3> QED
      BY <2>1, <3>1 DEF Transaction!vars, writeVars
  <2> QED
    BY <2>3, <2>4
<1>3. CASE HandleHomePositionUpdate(m) \/ IgnoreMessage(m)
  BY <1>3 DEF HandleHomePositionUpdate, IgnoreMessage, Transaction!vars, readVars,
              writeVars
<1>4. CASE connections > 0 /\ HandleMissionRequest(m)
  <2>1. inProgress /\ missionItems \in Seq(MissionItem)
    BY <1>4 DEF NeverStranded, TypeOK
  <2>2. CASE FinishTransaction(FALSE, FALSE, missionItems)
    BY <2>1, <2>2, FinishImplements
  <2>3. CASE UNCHANGED <<retryCount, transactionInProgress, resumeMission, readVars,
                         writeMissionItems, connections, homePosition, outcome>>
    BY <2>3 DEF Transaction!vars, readVars
  <2> QED
    BY <1>4, <2>2, <2>3 DEF HandleMissionRequest, Fail
<1>5. CASE connections > 0 /\ HandleMissionAck(m)
  <2> DEFINE guided == expectedAck = "AckGuidedItem"
  <2>1. inProgress /\ missionItems \in Seq(MissionItem)
    BY <1>5 DEF NeverStranded, TypeOK
  <2>2. FinishTransaction(AckSucceeds(m), guided, missionItems)
    BY <1>5 DEF HandleMissionAck
  <2>3. AckSucceeds(m) \in BOOLEAN /\ guided \in BOOLEAN
    BY DEF AckSucceeds
  <2>4. guided => expectedAck = "AckGuidedItem"
    OBVIOUS
  \* A read never ends well by a MISSION_ACK.
  <2>5. ~(transactionInProgress = "TransactionRead" /\ AckSucceeds(m))
    BY DEF AckSucceeds, NeverStranded
  <2> HIDE DEF guided
  <2> QED
    BY <2>1, <2>2, <2>3, <2>4, <2>5, FinishImplements
<1> QED
  BY <1>1, <1>2, <1>3, <1>4, <1>5 DEF MavlinkMessageReceived

\* Whatever the vehicle sends and whenever the timer fires, a client sees one
\* transaction at a time, each ended by one completion of its kind, and a plan
\* that changes only as a whole: complete after a read that succeeded, empty
\* after one that failed, the plan passed after a write that succeeded.
THEOREM Implementation == Spec => ImplementsTransaction
<1>1. Init => Transaction!Init
  BY DEF Init, Transaction!Init, Transaction!Running, NoOutcome
<1>2. IInv /\ [Next]_vars => [Transaction!Next]_Transaction!vars
  <2> SUFFICES ASSUME IInv, [Next]_vars
               PROVE  [Transaction!Next]_Transaction!vars
    OBVIOUS
  <2>1. CASE ApplicationCall
    BY <2>1, ConstantsAssumption, CallImplements
  <2>2. ASSUME NEW m \in Answers, MavlinkMessageReceived(m)
        PROVE  [Transaction!Next]_Transaction!vars
    BY <2>2, ConstantsAssumption, MessageImplements
  <2>3. CASE AckTimeout
    BY <2>3, ConstantsAssumption, TimeoutImplements
  <2>4. CASE UNCHANGED vars
    BY <2>4 DEF vars, readVars, writeVars, Transaction!vars
  <2> QED
    BY <2>1, <2>2, <2>3, <2>4, InboundAreAnswers, ConstantsAssumption DEF Next
<1> QED
  BY <1>1, <1>2, Invariance, PTL DEF Spec, ImplementsTransaction, Transaction!Spec

-----------------------------------------------------------------------------
(* Of the manager and the vehicle together: the invariant.                 *)

\* What the manager sends.
Outbound ==
  {RequestListMessage(PlanType), ClearAllMessage(PlanType),
   [id |-> "MISSION_ITEM", type |-> PlanType], AckMessage(PlanType, "ACCEPTED")}
    \cup {CountMessage(PlanType, c) : c \in Nat}
    \cup {RequestMessage(PlanType, s) : s \in Nat}
    \cup {ItemMessage(PlanType, s, i) : s \in Nat, i \in Item}

\* What the vehicle may hold: finitely many items.
Stores == UNION {[S -> Item] : S \in {T \in SUBSET Nat : IsFiniteSet(T)}}
held   == stored[PlanType]

TransferTypes ==
  /\ toVehicle \in Seq(Outbound) /\ toGcs \in Seq(Answers)
  /\ stored \in [PlanTypes -> Stores]
  /\ requestType \in PlanTypes
  /\ writeSequenceIndex \in Nat

\* Unless answers are late, one message is under way, apart from the acks of
\* the manager, which nothing answers; and none between transactions.
IsAck(m) == m.id = "MISSION_ACK"

OneUnderWay ==
  ~late => /\ \/ /\ toGcs = <<>>
                 /\ \A i \in 1..(Len(toVehicle) - 1) : IsAck(toVehicle[i])
              \/ /\ Len(toGcs) = 1
                 /\ \A i \in 1..Len(toVehicle) : IsAck(toVehicle[i])
           /\ inProgress \/ Quiet

\* A read: what the vehicle announces is what it holds, what it answers are
\* items it holds, and so is what has come in.
Reading == transactionInProgress = "TransactionRead"

ReadMessages ==
  Reading =>
    /\ \A m \in Range(toVehicle) :
         /\ m.id \in {"MISSION_REQUEST_LIST", "MISSION_REQUEST_INT", "MISSION_ACK"}
         /\ expectedAck = "AckMissionCount" => m.id # "MISSION_REQUEST_INT"
    /\ \A m \in Range(toGcs) :
         /\ m.id \in {"MISSION_COUNT", "MISSION_ITEM_INT", "MISSION_ACK"}
         /\ expectedAck = "AckMissionCount" => m.id = "MISSION_COUNT"

OfVehicle(e) == e.seq \in DOMAIN held /\ e = Entry(e.seq, FromVehicle(held[e.seq]))

ReadData ==
  Reading /\ ~invented =>
    /\ \A m \in Range(toGcs) :
         /\ m.id = "MISSION_COUNT" => m.count = Cardinality(DOMAIN held)
         /\ m.id = "MISSION_ITEM_INT" => m.seq \in DOMAIN held /\ m.item = held[m.seq]
    /\ expectedAck = "AckMissionItem" =>
         missionItemCountToRead = Cardinality(DOMAIN held)
    /\ \A k \in 1..Len(missionItems) : OfVehicle(missionItems[k])

\* Items come in order, because none is ahead of the one awaited; the modes
\* that answer with the wrong one never send what is awaited.
NoItemZero == failureMode = "FailReadRequest0IncorrectSequence"
NoItemOne  == failureMode = "FailReadRequest1IncorrectSequence"
Astray     == NoItemZero \/ (NoItemOne /\ missionItemCountToRead >= 2)

ReadOrder ==
  Reading /\ expectedAck = "AckMissionItem" =>
    /\ ~Astray =>
         /\ \A k \in 1..Len(missionItems) : missionItems[k].seq = k - 1
         /\ itemIndicesToRead = Len(missionItems)..(missionItemCountToRead - 1)
         /\ \A m \in Range(toGcs) :
              m.id = "MISSION_ITEM_INT" => m.seq <= Len(missionItems)
         /\ \A m \in Range(toVehicle) :
              m.id = "MISSION_REQUEST_INT" => m.seq <= Len(missionItems)
    /\ NoItemZero => 0 \in itemIndicesToRead
    /\ NoItemOne /\ missionItemCountToRead >= 2 => 1 \in itemIndicesToRead
    /\ \A m \in Range(toGcs) :
         m.id = "MISSION_ITEM_INT" => /\ NoItemZero => m.seq # 0
                                      /\ NoItemOne => m.seq # 1

\* A removal: the only answer comes from a vehicle without a plan.
Removals ==
  transactionInProgress = "TransactionRemoveAll" =>
    /\ \A m \in Range(toVehicle) : m.id \in {"MISSION_CLEAR_ALL", "MISSION_ACK"}
    /\ \A m \in Range(toGcs) : m.id = "MISSION_ACK" /\ held = Vehicle!NoItems

\* A write with prompt answers: what has been sent is stored or on its way,
\* as long as an answer or an item is under way.  The mode that asks for
\* another item than the first never gets the first.
Writing == ~late /\ transactionInProgress = "TransactionWrite"
                 /\ expectedAck = "AckMissionRequest"
NoFirst == failureMode = "FailWriteRequest0IncorrectSequence"
Given   == (0..(Len(writeMissionItems) - 1)) \ itemIndicesToWrite

HoldsOnly ==
  \A k \in DOMAIN held :
    /\ k \in 0..(Len(writeMissionItems) - 1)
    /\ held[k] = ItemOf(writeMissionItems[k + 1])

WriteProgress ==
  /\ NoFirst => 0 \in itemIndicesToWrite \/ writeMissionItems = <<>>
  /\ ~NoFirst /\ 0 \in itemIndicesToWrite => Given = {}

CountUnderWay(m) ==
  m.count = Len(writeMissionItems) /\ (~NoFirst => Given = {})

ItemUnderWay(m) ==
  /\ m.seq \in 0..(Len(writeMissionItems) - 1)
  /\ m.item = ItemOf(writeMissionItems[m.seq + 1])
  /\ HoldsOnly
  /\ ~NoFirst => /\ 0 \notin itemIndicesToWrite
                 /\ Given \subseteq DOMAIN held \cup {m.seq}

AnswerUnderWay(m) ==
  /\ m.id \in {"MISSION_REQUEST_INT", "MISSION_ACK"}
  /\ HoldsOnly
  /\ ~NoFirst => Given \subseteq DOMAIN held
  /\ m.id = "MISSION_REQUEST_INT" =>
       /\ NoFirst => m.seq # 0
       /\ ~NoFirst /\ 0 \in itemIndicesToWrite => m.seq = 0

Writes ==
  Writing =>
    /\ WriteProgress
    /\ \A m \in Range(toVehicle) :
         /\ m.id \in {"MISSION_COUNT", "MISSION_ITEM_INT", "MISSION_ACK"}
         /\ m.id = "MISSION_COUNT" => CountUnderWay(m)
         /\ m.id = "MISSION_ITEM_INT" => ItemUnderWay(m)
    /\ \A m \in Range(toGcs) : AnswerUnderWay(m)

TransferInv ==
  /\ IInv /\ TransferTypes /\ OneUnderWay
  /\ ReadMessages /\ ReadData /\ ReadOrder /\ Removals /\ Writes

-----------------------------------------------------------------------------
(* Queues.                                                                 *)

\* What a step hands to the link: one message at most.
AtMostOne(messages, S) == messages = <<>> \/ \E m \in S : messages = <<m>>

\* A message is queued or lost; what was there stays as it was.
LEMMA Carried ==
  ASSUME NEW S, NEW q \in Seq(S), NEW messages, AtMostOne(messages, S),
         NEW r, r = q \o messages \/ r = q
  PROVE  /\ r \in Seq(S)
         /\ Range(r) \subseteq Range(q) \cup Range(messages)
         /\ Len(r) \in {Len(q), Len(q) + 1}
         /\ \A i \in 1..Len(q) : r[i] = q[i]
         /\ messages = <<>> => r = q
<1>1. CASE messages = <<>>
  <2>1. r = q
    BY <1>1
  <2> QED BY <2>1
<1>2. ASSUME NEW m \in S, messages = <<m>>
      PROVE  /\ r \in Seq(S)
             /\ Range(r) \subseteq Range(q) \cup Range(messages)
             /\ Len(r) \in {Len(q), Len(q) + 1}
             /\ \A i \in 1..Len(q) : r[i] = q[i]
             /\ messages # <<>>
  <2>1. CASE r = q
    BY <1>2, <2>1
  <2>2. CASE r = q \o messages
    <3>1. /\ r \in Seq(S) /\ Len(r) = Len(q) + 1 /\ Len(q) \in Nat
          /\ \A i \in 1..Len(q) : r[i] = q[i]
          /\ r[Len(q) + 1] = m
      BY <1>2, <2>2
    <3>2. m \in Range(messages)
      BY <1>2 DEF Range
    <3>3. \A i \in 1..Len(r) : r[i] \in Range(q) \cup Range(messages)
      <4> SUFFICES ASSUME NEW i \in 1..Len(r)
                   PROVE  r[i] \in Range(q) \cup Range(messages)
        OBVIOUS
      <4>1. CASE i = Len(q) + 1
        BY <3>1, <3>2, <4>1
      <4>2. CASE i # Len(q) + 1
        <5>1. i \in 1..Len(q)
          BY <3>1, <4>2
        <5>2. q[i] \in Range(q)
          BY <5>1 DEF Range
        <5> QED BY <3>1, <5>1, <5>2
      <4> QED BY <4>1, <4>2
    <3>4. Range(r) \subseteq Range(q) \cup Range(messages)
      BY <3>1, <3>3 DEF Range
    <3>5. messages # <<>>
      BY <1>2
    <3> QED BY <3>1, <3>4, <3>5
  <2> QED BY <1>2, <2>1, <2>2
<1> QED BY <1>1, <1>2 DEF AtMostOne

\* The rest of a queue.
LEMMA TailIs ==
  ASSUME NEW S, NEW q \in Seq(S), q # <<>>
  PROVE  /\ Tail(q) \in Seq(S) /\ Len(Tail(q)) = Len(q) - 1
         /\ Head(q) \in S /\ Head(q) \in Range(q) /\ Head(q) = q[1] /\ Len(q) \in Nat \ {0}
         /\ \A i \in 1..Len(Tail(q)) : Tail(q)[i] = q[i + 1]
         /\ Range(Tail(q)) \subseteq Range(q)
<1>1. /\ Tail(q) \in Seq(S) /\ Len(Tail(q)) = Len(q) - 1 /\ Len(q) \in Nat \ {0}
      /\ \A i \in 1..Len(Tail(q)) : Tail(q)[i] = q[i + 1]
      /\ Head(q) = q[1]
  OBVIOUS
<1>2. \A i \in 1..Len(Tail(q)) : i + 1 \in 1..Len(q)
  BY <1>1
<1> QED BY <1>1, <1>2 DEF Range

\* What is in a sequence, and that nothing is in the empty one.
LEMMA RangeIs ==
  /\ \A m : Range(<<m>>) = {m}
  /\ Range(<<>>) = {}
  /\ \A S : \A q \in Seq(S) : Range(q) = {q[i] : i \in 1..Len(q)} /\ Range(q) \subseteq S
BY DEF Range

\* A non-empty set of naturals has its least element.
LEMMA MinIsIn ==
  ASSUME NEW S \in SUBSET Nat, S # {}
  PROVE  Min(S) \in S /\ \A y \in S : Min(S) <= y
<1>1. IsWellFoundedOn(OpToRel(<, Nat), Nat)
  BY NatLessThanWellFounded
<1>2. PICK x \in S : \A y \in S : ~ (<<y, x>> \in OpToRel(<, Nat))
  BY <1>1, WFMin
<1>3. \A y \in S : x <= y
  <2> TAKE y \in S
  <2>1. x \in Nat /\ y \in Nat
    OBVIOUS
  <2>2. ~ (y < x)
    BY <1>2, <2>1 DEF OpToRel
  <2> QED BY <2>1, <2>2
<1> QED BY <1>3 DEF Min

-----------------------------------------------------------------------------
(* What the manager sends: at most one message a step.                     *)

LEMMA OneIsAtMostOne ==
  ASSUME NEW S, NEW m \in S, NEW messages, messages = <<m>>
  PROVE  AtMostOne(messages, S)
BY DEF AtMostOne

\* What is asked of a vehicle.
LEMMA Questions ==
  /\ \A c \in Nat : CountMessage(PlanType, c) \in Outbound
  /\ \A s \in Nat : RequestMessage(PlanType, s) \in Outbound
  /\ \A s \in Nat, i \in Item : ItemMessage(PlanType, s, i) \in Outbound
  /\ {RequestListMessage(PlanType), ClearAllMessage(PlanType),
      [id |-> "MISSION_ITEM", type |-> PlanType], AckMessage(PlanType, "ACCEPTED")}
       \subseteq Outbound
BY DEF Outbound

\* The next item asked for is one that is missing, and the first of them.
LEMMA RequestSends ==
  ASSUME NEW remaining \in SUBSET Nat, remaining # {}, RequestNextMissionItem(remaining)
  PROVE  /\ AtMostOne(sent', Outbound)
         /\ Range(sent') = {RequestMessage(PlanType, Min(remaining))}
         /\ Min(remaining) \in remaining /\ \A s \in remaining : Min(remaining) <= s
<1>1. Min(remaining) \in remaining /\ \A s \in remaining : Min(remaining) <= s
  BY MinIsIn
<1>2. sent' = <<RequestMessage(PlanType, Min(remaining))>>
  BY DEF RequestNextMissionItem
<1>3. RequestMessage(PlanType, Min(remaining)) \in Outbound
  BY <1>1, Questions
<1>4. AtMostOne(sent', Outbound)
  BY <1>2, <1>3, OneIsAtMostOne
<1> QED BY <1>1, <1>2, <1>4, RangeIs

LEMMA CallSends ==
  ASSUME IInv, ApplicationCall
  PROVE  AtMostOne(sent', Outbound)
<1>1. CASE LoadFromVehicle
  <2>1. sent' = <<RequestListMessage(PlanType)>>
    BY <1>1 DEF LoadFromVehicle, RequestList
  <2> QED BY <2>1, OneIsAtMostOne, Questions
<1>2. ASSUME NEW list \in Seq(MissionItem), WriteMissionItemsWorker(list)
      PROVE  AtMostOne(sent', Outbound)
  <2>1. sent' = <<CountMessage(PlanType, Len(list))>> /\ Len(list) \in Nat
    BY <1>2 DEF WriteMissionItemsWorker, WriteMissionCount
  <2>2. CountMessage(PlanType, Len(list)) \in Outbound
    BY <2>1, Questions
  <2> QED BY <2>1, <2>2, OneIsAtMostOne
<1>3. CASE \E items \in Plans : WriteMissionItems(items)
  <2>1. PICK items \in Plans : WriteMissionItems(items)
    BY <1>3
  <2>2. WriteList(items) \in Seq(MissionItem)
    BY WriteListType, ConstantsAssumption
  <2> QED BY <1>2, <2>1, <2>2 DEF WriteMissionItems
<1>4. CASE RemoveAll
  <2>1. sent' = <<ClearAllMessage(PlanType)>>
    BY <1>4 DEF RemoveAll, RemoveAllWorker
  <2> QED BY <2>1, OneIsAtMostOne, Questions
<1>5. CASE \E resumeIndex \in 1..Len(missionItems) :
             \E kept \in Ascending(resumeIndex) :
               GenerateResumeMission(resumeIndex, kept)
  <2>1. PICK resumeIndex \in 1..Len(missionItems) :
             \E kept \in Ascending(resumeIndex) :
               GenerateResumeMission(resumeIndex, kept)
    BY <1>5
  <2>2. PICK kept \in Ascending(resumeIndex) : GenerateResumeMission(resumeIndex, kept)
    BY <2>1
  <2>3. ResumeList(resumeIndex, kept) \in Seq(MissionItem)
    BY ResumeListType DEF IInv, TypeOK
  <2> QED BY <1>2, <2>2, <2>3 DEF GenerateResumeMission
<1>6. CASE WriteArduPilotGuidedMissionItem
  <2>1. sent' = <<GuidedItemMessage>> /\ PlanType = "mission"
    BY <1>6 DEF WriteArduPilotGuidedMissionItem
  <2>2. GuidedItemMessage \in Outbound
    BY <2>1, Questions DEF GuidedItemMessage
  <2> QED BY <2>1, <2>2, OneIsAtMostOne
<1> QED BY <1>1, <1>3, <1>4, <1>5, <1>6 DEF ApplicationCall

LEMMA TimeoutSends ==
  ASSUME IInv, AckTimeout
  PROVE  AtMostOne(sent', Outbound)
<1>1. CASE TimeoutFails
  BY <1>1 DEF TimeoutFails, AtMostOne
<1>2. CASE RequestList
  <2>1. sent' = <<RequestListMessage(PlanType)>>
    BY <1>2 DEF RequestList
  <2> QED BY <2>1, OneIsAtMostOne, Questions
<1>3. CASE TimeoutWaitingForItem /\ RequestNextMissionItem(itemIndicesToRead)
  <2>1. itemIndicesToRead \in SUBSET Nat /\ itemIndicesToRead # {}
    <3>1. inProgress /\ expectedAck = "AckMissionItem"
      BY <1>3 DEF TimeoutWaitingForItem, IInv, NeverStranded
    <3> QED BY <3>1 DEF IInv, ReadAccounting, TypeOK
  <2> QED BY <1>3, <2>1, RequestSends
<1>4. CASE WriteMissionCount(writeMissionItems)
  <2>1. sent' = <<CountMessage(PlanType, Len(writeMissionItems))>>
    BY <1>4 DEF WriteMissionCount
  <2>2. CountMessage(PlanType, Len(writeMissionItems)) \in Outbound
    BY Questions DEF IInv, TypeOK
  <2> QED BY <2>1, <2>2, OneIsAtMostOne
<1>5. CASE RemoveAllWorker
  <2>1. sent' = <<ClearAllMessage(PlanType)>>
    BY <1>5 DEF RemoveAllWorker
  <2> QED BY <2>1, OneIsAtMostOne, Questions
<1>6. CASE TimeoutWaitingForCount
  BY <1>1, <1>2, <1>6 DEF TimeoutWaitingForCount
<1>7. CASE TimeoutWaitingForItem
  BY <1>1, <1>3, <1>7 DEF TimeoutWaitingForItem
<1>8. CASE TimeoutWaitingForRequest
  BY <1>1, <1>4, <1>8 DEF TimeoutWaitingForRequest
<1>9. CASE TimeoutWaitingForClearAll
  BY <1>1, <1>5, <1>9 DEF TimeoutWaitingForClearAll
<1>10. CASE TimeoutWaitingForGuidedAck
  BY <1>1, <1>10 DEF TimeoutWaitingForGuidedAck
<1> QED BY <1>6, <1>7, <1>8, <1>9, <1>10 DEF AckTimeout

LEMMA MessageSends ==
  ASSUME IInv, NEW m \in Answers, MavlinkMessageReceived(m)
  PROVE  AtMostOne(sent', Outbound)
<1>1. CASE sent' = <<>>
  BY <1>1 DEF AtMostOne
<1>2. ASSUME NEW items, ReadTransactionComplete(items)
      PROVE  AtMostOne(sent', Outbound)
  <2>1. sent' = <<AckMessage(PlanType, "ACCEPTED")>>
    BY <1>2 DEF ReadTransactionComplete
  <2> QED BY <2>1, OneIsAtMostOne, Questions
<1>3. ASSUME HandleMissionCount(m), m.count > 0
      PROVE  AtMostOne(sent', Outbound)
  <2>1. m.count \in Nat /\ m.count > 0
    BY <1>3, MessageType DEF HandleMissionCount
  <2> DEFINE announced == itemIndicesToRead \cup 0..(m.count - 1)
  <2>2. itemIndicesToRead' = announced /\ RequestNextMissionItem(itemIndicesToRead')
    BY <1>3, <2>1 DEF HandleMissionCount
  <2>3. RequestNextMissionItem(announced)
    BY <2>2 DEF RequestNextMissionItem, StartAckTimeout
  <2>4. announced \in SUBSET Nat
    <3>1. \A n \in Nat : 0..(n - 1) \subseteq Nat
      OBVIOUS
    <3>2. itemIndicesToRead \subseteq Nat
      BY DEF IInv, TypeOK
    <3> QED BY <2>1, <3>1, <3>2
  <2>5. 0 \in announced
    BY <2>1
  <2>6. announced # {}
    BY <2>5
  <2> HIDE DEF announced
  <2> QED BY <2>3, <2>4, <2>6, RequestSends
<1>4. CASE HandleMissionCount(m)
  BY <1>2, <1>3, <1>4 DEF HandleMissionCount
<1>5. CASE HandleMissionItem(m) /\ RequestNextMissionItem(itemIndicesToRead \ {m.seq})
           /\ itemIndicesToRead \ {m.seq} # {}
  BY <1>5, RequestSends DEF IInv, TypeOK
<1>6. CASE HandleMissionItem(m)
  BY <1>1, <1>2, <1>5, <1>6 DEF HandleMissionItem
<1>7. CASE HandleMissionRequest(m) /\ m.seq <= Len(writeMissionItems) - 1
  <2>1. m.seq \in Nat
    BY <1>7, MessageType DEF HandleMissionRequest
  <2>2. sent' = <<ItemMessage(PlanType, m.seq, ItemOf(writeMissionItems[m.seq + 1]))>>
    BY <1>7, <2>1 DEF HandleMissionRequest, IInv, TypeOK
  <2>3. writeMissionItems[m.seq + 1] \in MissionItem
    BY <1>7, <2>1 DEF IInv, TypeOK
  <2>4. ItemOf(writeMissionItems[m.seq + 1]) \in Item
    BY <2>3, ItemOfType
  <2>5. ItemMessage(PlanType, m.seq, ItemOf(writeMissionItems[m.seq + 1])) \in Outbound
    BY <2>1, <2>4, Questions
  <2> QED BY <2>2, <2>5, OneIsAtMostOne
<1>8. CASE HandleMissionRequest(m)
  BY <1>1, <1>7, <1>8 DEF HandleMissionRequest
<1> QED BY <1>1, <1>4, <1>6, <1>8 DEF MavlinkMessageReceived, HandleHomePositionUpdate,
            HandleMissionAck, IgnoreMessage


-----------------------------------------------------------------------------
(* What a step of the manager does to a transaction.                       *)

Removing == transactionInProgress = "TransactionRemoveAll"
SendingPlan ==
  transactionInProgress = "TransactionWrite" /\ expectedAck = "AckMissionRequest"

\* It ends it,
Ends ==
  /\ transactionInProgress' = "TransactionNone"
  /\ Range(sent') \subseteq {AckMessage(PlanType, "ACCEPTED")}

\* or leaves it where it was,
Unmoved ==
  UNCHANGED <<expectedAck, transactionInProgress, readVars, writeVars>>

\* or moves it on: the size of the plan has come in,
Announced(m) ==
  /\ m.id = "MISSION_COUNT" /\ m.type = PlanType /\ m.count \in Nat \ {0}
  /\ Reading /\ expectedAck = "AckMissionCount"
  /\ Reading' /\ expectedAck' = "AckMissionItem"
  /\ missionItems' = <<>>
  /\ missionItemCountToRead' = m.count
  /\ itemIndicesToRead' = 0..(m.count - 1)
  /\ Range(sent') = {RequestMessage(PlanType, 0)}

\* or an item of it and the first that is missing is asked for,
AsksFirst(missing) ==
  \E s \in missing : /\ \A x \in missing : s <= x
                     /\ Range(sent') = {RequestMessage(PlanType, s)}

Taken(m) ==
  /\ m.id = "MISSION_ITEM_INT" /\ m.type = PlanType
  /\ m.item \in Item /\ m.seq \in itemIndicesToRead
  /\ Reading /\ expectedAck = "AckMissionItem"
  /\ Reading' /\ expectedAck' = "AckMissionItem"
  /\ missionItems' = Append(missionItems, Entry(m.seq, FromVehicle(m.item)))
  /\ missionItemCountToRead' = missionItemCountToRead
  /\ itemIndicesToRead' = itemIndicesToRead \ {m.seq}
  /\ AsksFirst(itemIndicesToRead \ {m.seq})

\* or the vehicle has asked for an item of it.
Asked(m) ==
  /\ m.id = "MISSION_REQUEST_INT" /\ m.type = PlanType
  /\ m.seq \in 0..(Len(writeMissionItems) - 1)
  /\ SendingPlan /\ SendingPlan'
  /\ writeMissionItems' = writeMissionItems
  /\ itemIndicesToWrite' = itemIndicesToWrite \ {m.seq}
  /\ Range(sent') =
       {ItemMessage(PlanType, m.seq, ItemOf(writeMissionItems[m.seq + 1]))}

\* A call starts a transaction with the first message of it.
LEMMA CallCases ==
  ASSUME IInv, ApplicationCall
  PROVE  /\ ~inProgress /\ inProgress'
         /\ \/ /\ Reading' /\ expectedAck' = "AckMissionCount" /\ missionItems' = <<>>
               /\ Range(sent') = {RequestListMessage(PlanType)}
            \/ /\ SendingPlan'
               /\ itemIndicesToWrite' = 0..(Len(writeMissionItems') - 1)
               /\ Range(sent') = {CountMessage(PlanType, Len(writeMissionItems'))}
            \/ Removing' /\ Range(sent') = {ClearAllMessage(PlanType)}
            \/ transactionInProgress' = "TransactionWrite" /\ expectedAck' = "AckGuidedItem"
<1> DEFINE Goal ==
         /\ ~inProgress /\ inProgress'
         /\ \/ /\ Reading' /\ expectedAck' = "AckMissionCount" /\ missionItems' = <<>>
               /\ Range(sent') = {RequestListMessage(PlanType)}
            \/ /\ SendingPlan'
               /\ itemIndicesToWrite' = 0..(Len(writeMissionItems') - 1)
               /\ Range(sent') = {CountMessage(PlanType, Len(writeMissionItems'))}
            \/ Removing' /\ Range(sent') = {ClearAllMessage(PlanType)}
            \/ transactionInProgress' = "TransactionWrite" /\ expectedAck' = "AckGuidedItem"
<1>1. CASE LoadFromVehicle
  <2>1. /\ sent' = <<RequestListMessage(PlanType)>> /\ missionItems' = <<>>
        /\ transactionInProgress' = "TransactionRead" /\ expectedAck' = "AckMissionCount"
        /\ ~inProgress
    BY <1>1 DEF LoadFromVehicle, RequestList, StartAckTimeout
  <2>2. Range(sent') = {RequestListMessage(PlanType)}
    BY <2>1, RangeIs
  <2> QED BY <2>1, <2>2 DEF Reading, inProgress
<1>2. ASSUME NEW items, WriteMissionItemsWorker(items), ~inProgress
      PROVE  Goal
  <2>1. /\ sent' = <<CountMessage(PlanType, Len(items))>> /\ writeMissionItems' = items
        /\ itemIndicesToWrite' = 0..(Len(items) - 1)
        /\ transactionInProgress' = "TransactionWrite"
        /\ expectedAck' = "AckMissionRequest"
    BY <1>2 DEF WriteMissionItemsWorker, WriteMissionCount, StartAckTimeout, Primed
  <2>2. Range(sent') = {CountMessage(PlanType, Len(writeMissionItems'))}
    BY <2>1, RangeIs
  <2> QED BY <1>2, <2>1, <2>2 DEF SendingPlan, inProgress
<1>3. CASE \E items \in Plans : WriteMissionItems(items)
  BY <1>2, <1>3 DEF WriteMissionItems
<1>4. CASE RemoveAll
  <2>1. /\ sent' = <<ClearAllMessage(PlanType)>>
        /\ transactionInProgress' = "TransactionRemoveAll" /\ ~inProgress
    BY <1>4 DEF RemoveAll, RemoveAllWorker
  <2>2. Range(sent') = {ClearAllMessage(PlanType)}
    BY <2>1, RangeIs
  <2> QED BY <2>1, <2>2 DEF Removing, inProgress
<1>5. CASE \E resumeIndex \in 1..Len(missionItems) :
             \E kept \in Ascending(resumeIndex) :
               GenerateResumeMission(resumeIndex, kept)
  BY <1>2, <1>5 DEF GenerateResumeMission
<1>6. CASE WriteArduPilotGuidedMissionItem
  BY <1>6 DEF WriteArduPilotGuidedMissionItem, StartAckTimeout, inProgress
<1> QED BY <1>1, <1>3, <1>4, <1>5, <1>6 DEF ApplicationCall

\* The timer ends a transaction or asks again for what is awaited.
LEMMA TimeoutCases ==
  ASSUME IInv, AckTimeout
  PROVE  /\ inProgress
         /\ \/ Ends /\ sent' = <<>> /\ outcome'.error
            \/ /\ Unmoved
               /\ \/ /\ Reading /\ expectedAck = "AckMissionCount"
                     /\ Range(sent') = {RequestListMessage(PlanType)}
                  \/ /\ Reading /\ expectedAck = "AckMissionItem"
                     /\ AsksFirst(itemIndicesToRead)
                  \/ /\ SendingPlan /\ 0 \in itemIndicesToWrite
                     /\ Range(sent') = {CountMessage(PlanType, Len(writeMissionItems))}
                  \/ Removing /\ Range(sent') = {ClearAllMessage(PlanType)}
<1>1. inProgress
  BY DEF IInv, AckTimeout, TimeoutWaitingForCount, TimeoutWaitingForItem,
         TimeoutWaitingForRequest, TimeoutWaitingForClearAll,
         TimeoutWaitingForGuidedAck, NeverStranded
<1>2. ASSUME TimeoutFails PROVE Ends /\ sent' = <<>> /\ outcome'.error
  <2>1. sent' = <<>> /\ transactionInProgress' = "TransactionNone" /\ outcome'.error
    BY <1>2 DEF TimeoutFails, Fail, FinishTransaction
  <2> QED BY <2>1, RangeIs DEF Ends
<1>3. /\ expectedAck \in {"AckMissionCount", "AckMissionItem"} => Reading
      /\ expectedAck = "AckMissionRequest" => SendingPlan
      /\ expectedAck = "AckMissionClearAll" => Removing
  BY <1>1 DEF IInv, NeverStranded, TypeOK, TransactionTypes, inProgress, Reading,
              SendingPlan, Removing
<1>4. CASE /\ TimeoutWaitingForCount /\ RequestList
           /\ UNCHANGED <<transactionInProgress, resumeMission, missionItemCountToRead,
                          writeVars, connections, homePosition, outcome>>
  <2>1. expectedAck = "AckMissionCount"
    BY <1>4 DEF TimeoutWaitingForCount
  <2>2. /\ itemIndicesToRead' = {} /\ missionItems' = <<>> /\ expectedAck' = "AckMissionCount"
        /\ sent' = <<RequestListMessage(PlanType)>>
    BY <1>4 DEF RequestList, StartAckTimeout
  <2>3. itemIndicesToRead = {} /\ missionItems = <<>>
    BY <1>3, <2>1 DEF IInv, ReadAccounting, Reading
  <2>4. Unmoved
    BY <1>4, <2>1, <2>2, <2>3 DEF Unmoved, readVars
  <2> QED BY <1>1, <1>3, <2>1, <2>2, <2>4, RangeIs
<1>5. CASE /\ TimeoutWaitingForItem /\ RequestNextMissionItem(itemIndicesToRead)
           /\ UNCHANGED <<transactionInProgress, resumeMission, readVars, writeVars,
                          connections, homePosition, outcome>>
  <2>1. expectedAck = "AckMissionItem" /\ expectedAck' = "AckMissionItem"
    BY <1>5 DEF TimeoutWaitingForItem, RequestNextMissionItem, StartAckTimeout
  <2>2. itemIndicesToRead \in SUBSET Nat /\ itemIndicesToRead # {}
    BY <1>1, <2>1 DEF IInv, ReadAccounting, TypeOK
  <2>3. AsksFirst(itemIndicesToRead)
    BY <1>5, <2>2, RequestSends DEF AsksFirst
  <2>4. Unmoved
    BY <1>5, <2>1 DEF Unmoved
  <2> QED BY <1>1, <1>3, <2>1, <2>3, <2>4
<1>6. CASE /\ TimeoutWaitingForRequest /\ 0 \in itemIndicesToWrite
           /\ WriteMissionCount(writeMissionItems)
           /\ UNCHANGED <<transactionInProgress, resumeMission, readVars, writeVars,
                          connections, homePosition, outcome>>
  <2>1. expectedAck = "AckMissionRequest" /\ expectedAck' = "AckMissionRequest"
    BY <1>6 DEF TimeoutWaitingForRequest, WriteMissionCount, StartAckTimeout
  <2>2. sent' = <<CountMessage(PlanType, Len(writeMissionItems))>>
    BY <1>6 DEF WriteMissionCount
  <2>3. Unmoved
    BY <1>6, <2>1 DEF Unmoved
  <2> QED BY <1>1, <1>3, <1>6, <2>1, <2>2, <2>3, RangeIs
<1>7. CASE /\ TimeoutWaitingForClearAll /\ RemoveAllWorker
           /\ UNCHANGED <<transactionInProgress, resumeMission, readVars, writeVars,
                          homePosition, outcome>>
  <2>1. expectedAck = "AckMissionClearAll" /\ expectedAck' = "AckMissionClearAll"
    BY <1>7 DEF TimeoutWaitingForClearAll, RemoveAllWorker, StartAckTimeout
  <2>2. sent' = <<ClearAllMessage(PlanType)>>
    BY <1>7 DEF RemoveAllWorker
  <2>3. Unmoved
    BY <1>7, <2>1 DEF Unmoved
  <2> QED BY <1>1, <1>3, <2>1, <2>2, <2>3, RangeIs
<1>8. CASE TimeoutWaitingForCount
  BY <1>1, <1>2, <1>4, <1>8 DEF TimeoutWaitingForCount
<1>9. CASE TimeoutWaitingForItem
  BY <1>1, <1>2, <1>5, <1>9 DEF TimeoutWaitingForItem
<1>10. CASE TimeoutWaitingForRequest
  BY <1>1, <1>2, <1>6, <1>10 DEF TimeoutWaitingForRequest
<1>11. CASE TimeoutWaitingForClearAll
  BY <1>1, <1>2, <1>7, <1>11 DEF TimeoutWaitingForClearAll
<1>12. CASE TimeoutWaitingForGuidedAck
  BY <1>1, <1>2, <1>12 DEF TimeoutWaitingForGuidedAck
<1> QED BY <1>8, <1>9, <1>10, <1>11, <1>12 DEF AckTimeout

\* How a message ends a transaction well: the vehicle has no plan, the last
\* item has come in, or the vehicle says so.
ReadsNothing(m) ==
  /\ m.id = "MISSION_COUNT" /\ m.count = 0
  /\ Reading /\ expectedAck = "AckMissionCount" /\ missionItems' = <<>>
  /\ outcome'.signal = "newMissionItemsAvailable"

ReadsLast(m) ==
  /\ m.id = "MISSION_ITEM_INT" /\ m.item \in Item
  /\ Reading /\ expectedAck = "AckMissionItem" /\ itemIndicesToRead = {m.seq}
  /\ missionItems' = Append(missionItems, Entry(m.seq, FromVehicle(m.item)))
  /\ outcome'.signal = "newMissionItemsAvailable"

IsAcknowledged(m) ==
  /\ m.id = "MISSION_ACK"
  /\ \/ SendingPlan /\ itemIndicesToWrite = {} /\ outcome'.signal = "sendComplete"
     \/ Removing /\ outcome'.signal = "removeAllComplete"
     \/ expectedAck = "AckGuidedItem" /\ outcome'.signal = "none"

LEMMA MessageCases ==
  ASSUME IInv, NEW m \in Answers, MavlinkMessageReceived(m)
  PROVE  \/ /\ Ends
            /\ outcome'.error \/ ReadsNothing(m) \/ ReadsLast(m) \/ IsAcknowledged(m)
         \/ Unmoved /\ sent' = <<>>
         \/ Announced(m) \/ Taken(m) \/ Asked(m)
<1> DEFINE Finished ==
         Ends /\ (outcome'.error \/ ReadsNothing(m) \/ ReadsLast(m) \/ IsAcknowledged(m))
\* A message that is handled finds a transaction that expects it.
<1>1. ASSUME connections > 0
      PROVE  /\ inProgress
             /\ expectedAck \in {"AckMissionCount", "AckMissionItem"} => Reading
             /\ expectedAck = "AckMissionRequest" => SendingPlan
             /\ expectedAck = "AckMissionClearAll" => Removing
  BY <1>1 DEF IInv, NeverStranded, TypeOK, TransactionTypes, inProgress, Reading,
              SendingPlan, Removing
<1>2. ASSUME NEW items, ReadTransactionComplete(items), Reading
      PROVE  /\ Ends /\ missionItems' = items
             /\ outcome'.signal = "newMissionItemsAvailable"
  <2>1. /\ sent' = <<AckMessage(PlanType, "ACCEPTED")>>
        /\ transactionInProgress' = "TransactionNone"
        /\ missionItems' = items /\ outcome'.signal = "newMissionItemsAvailable"
    BY <1>2 DEF ReadTransactionComplete, FinishTransaction, PlanAfter, CompletionSignal,
                Reading
  <2> QED BY <2>1, RangeIs DEF Ends
<1>3. ASSUME NEW success \in BOOLEAN, NEW guided \in BOOLEAN, sent' = <<>>,
             FinishTransaction(success, guided, missionItems)
      PROVE  /\ Ends /\ outcome'.error = ~success
             /\ outcome'.signal = CompletionSignal(guided)
  BY <1>3, RangeIs DEF FinishTransaction, Ends
<1>4. ASSUME connections > 0, HandleMissionCount(m)
      PROVE  Finished \/ Announced(m)
  <2>1. /\ m.count \in Nat /\ m.id = "MISSION_COUNT" /\ m.type = PlanType
        /\ expectedAck = "AckMissionCount" /\ Reading
    BY <1>1, <1>4, MessageType DEF HandleMissionCount
  <2>2. missionItems = <<>> /\ itemIndicesToRead = {}
    BY <2>1 DEF IInv, ReadAccounting, Reading
  <2>3. CASE m.count = 0
    <3>1. ReadTransactionComplete(missionItems)
      BY <1>4, <2>1, <2>3 DEF HandleMissionCount
    <3> QED BY <1>2, <2>1, <2>2, <2>3, <3>1 DEF ReadsNothing
  <2>4. CASE m.count > 0
    <3>1. /\ itemIndicesToRead' = itemIndicesToRead \cup 0..(m.count - 1)
          /\ missionItemCountToRead' = m.count
          /\ RequestNextMissionItem(itemIndicesToRead')
          /\ UNCHANGED <<transactionInProgress, missionItems>>
      BY <1>4, <2>1, <2>4 DEF HandleMissionCount
    <3>2. itemIndicesToRead' = 0..(m.count - 1)
      BY <2>2, <3>1
    <3>3. /\ sent' = <<RequestMessage(PlanType, Min(0..(m.count - 1)))>>
          /\ expectedAck' = "AckMissionItem"
      BY <3>1, <3>2 DEF RequestNextMissionItem, StartAckTimeout
    <3>4. Min(0..(m.count - 1)) = 0
      <4>1. \A n \in Nat \ {0} : 0..(n - 1) \in SUBSET Nat /\ 0 \in 0..(n - 1)
        OBVIOUS
      <4>2. \A n \in Nat \ {0} : Min(0..(n - 1)) \in Nat /\ Min(0..(n - 1)) <= 0
        <5> TAKE n \in Nat \ {0}
        <5>1. 0..(n - 1) \in SUBSET Nat /\ 0 \in 0..(n - 1)
          BY <4>1
        <5> DEFINE S == 0..(n - 1)
        <5>2. S \in SUBSET Nat /\ 0 \in S
          BY <5>1
        <5> HIDE DEF S
        <5>3. Min(S) \in S /\ Min(S) <= 0
          BY <5>2, MinIsIn
        <5>4. Min(S) \in Nat
          BY <5>2, <5>3
        <5> QED BY <5>3, <5>4 DEF S
      <4>3. \A x \in Nat : x <= 0 => x = 0
        OBVIOUS
      <4>4. m.count \in Nat \ {0}
        BY <2>1, <2>4
      <4> QED BY <4>2, <4>3, <4>4
    <3>5. Range(sent') = {RequestMessage(PlanType, 0)}
      BY <3>3, <3>4, RangeIs
    <3>6. m.count \in Nat \ {0}
      BY <2>1, <2>4
    <3> QED BY <2>1, <2>2, <3>1, <3>2, <3>3, <3>5, <3>6 DEF Announced, Reading
  <2> QED BY <2>1, <2>3, <2>4
<1>5. ASSUME connections > 0, HandleMissionItem(m)
      PROVE  Finished \/ (Unmoved /\ sent' = <<>>) \/ Taken(m)
  <2>1. /\ m.item \in Item /\ m.id = "MISSION_ITEM_INT" /\ m.type = PlanType
        /\ expectedAck = "AckMissionItem" /\ Reading
    BY <1>1, <1>5, MessageType DEF HandleMissionItem
  <2> DEFINE items == Append(missionItems, Entry(m.seq, FromVehicle(m.item)))
  <2>2. CASE m.seq \in itemIndicesToRead /\ itemIndicesToRead \ {m.seq} = {}
    <3>1. ReadTransactionComplete(items)
      BY <1>5, <2>2 DEF HandleMissionItem
    <3>2. itemIndicesToRead = {m.seq}
      BY <2>2
    <3> QED BY <1>2, <2>1, <3>1, <3>2 DEF ReadsLast
  <2>3. CASE m.seq \in itemIndicesToRead /\ itemIndicesToRead \ {m.seq} # {}
    <3>1. /\ itemIndicesToRead' = itemIndicesToRead \ {m.seq}
          /\ missionItems' = items
          /\ RequestNextMissionItem(itemIndicesToRead \ {m.seq})
          /\ UNCHANGED <<transactionInProgress, missionItemCountToRead>>
      BY <1>5, <2>3 DEF HandleMissionItem
    <3>2. itemIndicesToRead \ {m.seq} \in SUBSET Nat
      BY DEF IInv, TypeOK
    <3>3. AsksFirst(itemIndicesToRead \ {m.seq})
      <4> DEFINE missing == itemIndicesToRead \ {m.seq}
      <4>1. /\ missing \in SUBSET Nat /\ missing # {}
            /\ RequestNextMissionItem(missing)
        BY <2>3, <3>1, <3>2
      <4> HIDE DEF missing
      <4>2. AsksFirst(missing)
        BY <4>1, RequestSends DEF AsksFirst
      <4> QED BY <4>2 DEF missing
    <3>4. expectedAck' = "AckMissionItem"
      BY <3>1 DEF RequestNextMissionItem, StartAckTimeout
    <3> QED BY <2>1, <2>3, <3>1, <3>3, <3>4 DEF Taken, Reading
  <2>4. CASE m.seq \notin itemIndicesToRead
    <3>1. /\ sent' = <<>> /\ expectedAck' = "AckMissionItem"
          /\ UNCHANGED <<transactionInProgress, readVars, writeVars>>
      BY <1>5, <2>4 DEF HandleMissionItem, StartAckTimeout
    <3> QED BY <2>1, <3>1 DEF Unmoved
  <2> QED BY <2>2, <2>3, <2>4
<1>6. ASSUME connections > 0, HandleMissionRequest(m)
      PROVE  Finished \/ Asked(m)
  <2>1. /\ m.seq \in Nat /\ m.id = "MISSION_REQUEST_INT" /\ m.type = PlanType
        /\ expectedAck = "AckMissionRequest" /\ SendingPlan
    BY <1>1, <1>6, MessageType DEF HandleMissionRequest
  <2>2. Len(writeMissionItems) \in Nat
    BY DEF IInv, TypeOK
  <2>3. CASE m.seq > Len(writeMissionItems) - 1
    <3>1. ~(m.seq <= Len(writeMissionItems) - 1)
      BY <2>1, <2>2, <2>3
    <3>2. sent' = <<>> /\ Fail
      BY <1>6, <3>1 DEF HandleMissionRequest
    <3> QED BY <1>3, <3>2 DEF Fail
  <2>4. CASE m.seq <= Len(writeMissionItems) - 1
    <3>1. /\ itemIndicesToWrite' = itemIndicesToWrite \ {m.seq}
          /\ sent' = <<ItemMessage(PlanType, m.seq,
                                   ItemOf(writeMissionItems[m.seq + 1]))>>
          /\ expectedAck' = "AckMissionRequest"
          /\ UNCHANGED <<transactionInProgress, writeMissionItems>>
      BY <1>6, <2>1, <2>2, <2>4 DEF HandleMissionRequest, StartAckTimeout
    <3>2. m.seq \in 0..(Len(writeMissionItems) - 1)
      BY <2>1, <2>2, <2>4
    <3> QED BY <2>1, <3>1, <3>2, RangeIs DEF Asked, SendingPlan
  <2> QED BY <2>1, <2>2, <2>3, <2>4
<1>7. ASSUME connections > 0, HandleMissionAck(m)
      PROVE  Finished
  <2>1. /\ m.id = "MISSION_ACK" /\ sent' = <<>>
        /\ FinishTransaction(AckSucceeds(m), expectedAck = "AckGuidedItem", missionItems)
    BY <1>7 DEF HandleMissionAck
  <2>2. AckSucceeds(m) \in BOOLEAN /\ (expectedAck = "AckGuidedItem") \in BOOLEAN
    BY DEF AckSucceeds
  <2>3. /\ Ends /\ outcome'.error = ~AckSucceeds(m)
        /\ outcome'.signal = CompletionSignal(expectedAck = "AckGuidedItem")
    BY <1>3, <2>1, <2>2
  <2>4. CASE ~AckSucceeds(m)
    BY <2>3, <2>4
  <2>5. CASE AckSucceeds(m)
    <3>1. \/ SendingPlan /\ itemIndicesToWrite = {}
          \/ Removing
          \/ expectedAck = "AckGuidedItem"
      BY <1>1, <1>7, <2>5 DEF AckSucceeds
    <3>2. SendingPlan => outcome'.signal = "sendComplete"
      BY <2>3 DEF SendingPlan, CompletionSignal, inProgress
    <3>3. Removing => outcome'.signal = "removeAllComplete"
      BY <2>3 DEF Removing, CompletionSignal
    <3>4. expectedAck = "AckGuidedItem" => outcome'.signal = "none"
      BY <1>1, <1>7, <2>3 DEF CompletionSignal, IInv, NeverStranded, inProgress
    <3> QED BY <2>1, <2>3, <3>1, <3>2, <3>3, <3>4 DEF IsAcknowledged
  <2> QED BY <2>4, <2>5
<1>8. CASE HandleHomePositionUpdate(m) \/ IgnoreMessage(m)
  BY <1>8 DEF HandleHomePositionUpdate, IgnoreMessage, Unmoved
<1> QED BY <1>4, <1>5, <1>6, <1>7, <1>8 DEF MavlinkMessageReceived

-----------------------------------------------------------------------------
(* What the vehicle does with a message.                                   *)

LEMMA StoresAre ==
  /\ \A f \in Stores : /\ DOMAIN f \subseteq Nat /\ IsFiniteSet(DOMAIN f)
                       /\ \A s \in DOMAIN f : f[s] \in Item
                       /\ Cardinality(DOMAIN f) \in Nat
                       /\ f = [s \in DOMAIN f |-> f[s]]
  /\ \A S \in SUBSET Nat : IsFiniteSet(S) => \A f \in [S -> Item] : f \in Stores
<1>1. ASSUME NEW f \in Stores
      PROVE  /\ DOMAIN f \subseteq Nat /\ IsFiniteSet(DOMAIN f)
             /\ \A s \in DOMAIN f : f[s] \in Item
             /\ Cardinality(DOMAIN f) \in Nat
             /\ f = [s \in DOMAIN f |-> f[s]]
  <2>1. PICK S \in SUBSET Nat : IsFiniteSet(S) /\ f \in [S -> Item]
    BY DEF Stores
  <2> QED BY <2>1, FS_CardinalityType
<1>2. \A S \in SUBSET Nat : IsFiniteSet(S) => \A f \in [S -> Item] : f \in Stores
  BY DEF Stores
<1> QED BY <1>1, <1>2

\* Nothing stored, and an item stored over what there was.
LEMMA NoItemsStored ==
  Vehicle!NoItems \in Stores /\ DOMAIN Vehicle!NoItems = {}
<1>1. Vehicle!NoItems \in [{} -> Item] /\ DOMAIN Vehicle!NoItems = {}
  BY DEF Vehicle!NoItems
<1>2. IsFiniteSet({})
  BY FS_EmptySet
<1>3. {} \in SUBSET Nat
  OBVIOUS
<1> QED BY <1>1, <1>2, <1>3, StoresAre

LEMMA StoredOver ==
  ASSUME NEW f \in Stores, NEW s \in Nat, NEW i \in Item
  PROVE  /\ Vehicle!Store(f, s, i) \in Stores
         /\ DOMAIN Vehicle!Store(f, s, i) = DOMAIN f \cup {s}
         /\ Vehicle!Store(f, s, i)[s] = i
         /\ \A x \in DOMAIN f : x # s => Vehicle!Store(f, s, i)[x] = f[x]
<1>1. DOMAIN f \subseteq Nat /\ IsFiniteSet(DOMAIN f) /\ \A x \in DOMAIN f : f[x] \in Item
  BY StoresAre
<1> DEFINE S == DOMAIN f \cup {s}
<1>2. S \in SUBSET Nat /\ IsFiniteSet(S)
  BY <1>1, FS_AddElement
<1>3. Vehicle!Store(f, s, i) \in [S -> Item]
  BY <1>1 DEF Vehicle!Store
<1>4. Vehicle!Store(f, s, i) \in Stores
  BY <1>2, <1>3, StoresAre
<1>5. /\ DOMAIN Vehicle!Store(f, s, i) = DOMAIN f \cup {s}
      /\ Vehicle!Store(f, s, i)[s] = i
      /\ \A x \in DOMAIN f : x # s => Vehicle!Store(f, s, i)[x] = f[x]
  BY DEF Vehicle!Store
<1> QED BY <1>4, <1>5

\* The fields of a message of the manager.
LEMMA OutboundType ==
  ASSUME NEW m \in Outbound
  PROVE  /\ m.type = PlanType
         /\ m.id \in {"MISSION_REQUEST_LIST", "MISSION_CLEAR_ALL", "MISSION_ITEM",
                      "MISSION_ACK", "MISSION_COUNT", "MISSION_REQUEST_INT",
                      "MISSION_ITEM_INT"}
         /\ m.id = "MISSION_COUNT" => m.count \in Nat
         /\ m.id \in {"MISSION_REQUEST_INT", "MISSION_ITEM_INT"} => m.seq \in Nat
         /\ m.id = "MISSION_ITEM_INT" => m.item \in Item
BY DEF Outbound, RequestListMessage, ClearAllMessage, AckMessage, CountMessage,
       RequestMessage, ItemMessage

\* What is asked of the ground station.
LEMMA Replies ==
  /\ \A t \in PlanTypes : \A c \in Nat : CountMessage(t, c) \in Answers
  /\ \A t \in PlanTypes : \A s \in Nat : RequestMessage(t, s) \in Answers
  /\ \A t \in PlanTypes : \A s \in Nat : \A i \in Item : ItemMessage(t, s, i) \in Answers
  /\ \A t \in PlanTypes : \A r \in Results : AckMessage(t, r) \in Answers
BY DEF Answers

\* Either an ack or a request follows what the vehicle is sent of a plan.
FollowsUp(r) == r.id \in {"MISSION_ACK", "MISSION_REQUEST_INT"}

LEMMA NextItemCases ==
  ASSUME NEW t \in PlanTypes, NEW seq \in Nat, NEW count, Vehicle!RequestNextItem(t, seq, count)
  PROVE  /\ AtMostOne(replies', Answers)
         /\ \A r \in Range(replies') :
              /\ FollowsUp(r)
              /\ r.id = "MISSION_REQUEST_INT" =>
                   /\ NoFirst => r.seq # 0
                   /\ ~NoFirst /\ seq = 0 => r.seq = 0
<1>1. CASE replies' = <<>>
  BY <1>1, RangeIs DEF AtMostOne
<1>2. CASE replies' = <<AckMessage(t, "ERROR")>>
  <2>1. AckMessage(t, "ERROR") \in Answers
    BY Replies DEF Results
  <2>2. Range(replies') = {AckMessage(t, "ERROR")}
    BY <1>2, RangeIs
  <2>3. AckMessage(t, "ERROR").id = "MISSION_ACK"
    BY DEF AckMessage
  <2> QED BY <1>2, <2>1, <2>2, <2>3, OneIsAtMostOne DEF FollowsUp
<1>3. ASSUME NEW asked \in Nat, replies' = <<RequestMessage(t, asked)>>,
             NoFirst => asked # 0, ~NoFirst /\ seq = 0 => asked = 0
      PROVE  /\ AtMostOne(replies', Answers)
             /\ \A r \in Range(replies') :
                  /\ FollowsUp(r)
                  /\ r.id = "MISSION_REQUEST_INT" =>
                       /\ NoFirst => r.seq # 0
                       /\ ~NoFirst /\ seq = 0 => r.seq = 0
  <2>1. RequestMessage(t, asked) \in Answers
    BY Replies
  <2>2. Range(replies') = {RequestMessage(t, asked)}
    BY <1>3, RangeIs
  <2>3. RequestMessage(t, asked).id = "MISSION_REQUEST_INT" /\ RequestMessage(t, asked).seq = asked
    BY DEF RequestMessage
  <2>4. AtMostOne(replies', Answers)
    BY <1>3, <2>1, OneIsAtMostOne
  <2> QED BY <1>3, <2>2, <2>3, <2>4 DEF FollowsUp
<1>4. CASE replies' = <<RequestMessage(t, seq + 1)>> /\ (seq = 0 => NoFirst)
  <2>1. seq + 1 \in Nat /\ seq + 1 # 0
    OBVIOUS
  <2> QED BY <1>3, <1>4, <2>1
<1>5. CASE replies' = <<RequestMessage(t, seq)>> /\ (seq = 0 => ~NoFirst)
  BY <1>3, <1>5
<1>6. \/ replies' = <<>> \/ replies' = <<AckMessage(t, "ERROR")>>
      \/ replies' = <<RequestMessage(t, seq + 1)>> /\ (seq = 0 => NoFirst)
      \/ replies' = <<RequestMessage(t, seq)>> /\ (seq = 0 => ~NoFirst)
  <2>1. /\ seq = 0 => seq # 1
        /\ seq = 1 => seq # 0
    OBVIOUS
  <2> DEFINE wrong == \/ failureMode = "FailWriteRequest0IncorrectSequence" /\ seq = 0
                      \/ failureMode = "FailWriteRequest1IncorrectSequence" /\ seq = 1
  <2>2. \/ replies' = <<>> \/ replies' = <<AckMessage(t, "ERROR")>>
        \/ replies' = <<RequestMessage(t, IF wrong THEN seq + 1 ELSE seq)>>
    BY DEF Vehicle!RequestNextItem, Vehicle!AckMessage, Vehicle!RequestMessage, AckMessage, RequestMessage
  <2>3. /\ wrong /\ seq = 0 => NoFirst
        /\ ~wrong /\ seq = 0 => ~NoFirst
    BY <2>1 DEF NoFirst
  <2> HIDE DEF wrong
  <2> QED BY <2>2, <2>3
<1> QED BY <1>1, <1>2, <1>4, <1>5, <1>6

\* The vehicle's messages are the manager's.
LEMMA SameMessages ==
  /\ \A t, c : Vehicle!CountMessage(t, c) = CountMessage(t, c)
  /\ \A t, s, i : Vehicle!ItemMessage(t, s, i) = ItemMessage(t, s, i)
  /\ \A t, r : Vehicle!AckMessage(t, r) = AckMessage(t, r)
  /\ Vehicle!NoItem = NoItem
  /\ \A S : Vehicle!Cardinality(S) = Cardinality(S)
BY DEF Vehicle!Cardinality, Cardinality, Vehicle!CountMessage, Vehicle!ItemMessage, Vehicle!AckMessage, Vehicle!NoItem,
       CountMessage, ItemMessage, AckMessage, NoItem

\* What every step of the vehicle keeps.
VehicleTypes ==
  /\ stored' \in [PlanTypes -> Stores] /\ requestType' \in PlanTypes
  /\ writeSequenceIndex' \in Nat
  /\ AtMostOne(replies', Answers)
  /\ failureMode' = failureMode

LEMMA AckReply ==
  ASSUME NEW t \in PlanTypes, NEW r \in Results, replies' = <<AckMessage(t, r)>>
  PROVE  /\ AtMostOne(replies', Answers)
         /\ \A a \in Range(replies') : a.id = "MISSION_ACK"
<1>1. AckMessage(t, r) \in Answers /\ AckMessage(t, r).id = "MISSION_ACK"
  BY Replies DEF AckMessage
<1> QED BY <1>1, OneIsAtMostOne, RangeIs

\* It forgets the plan and says so.
LEMMA ClearAllCase ==
  ASSUME ConstantsAssumption, TransferTypes, NEW m \in Outbound, Vehicle!HandleMissionClearAll(m)
  PROVE  /\ m.id = "MISSION_CLEAR_ALL" /\ VehicleTypes
         /\ held' = Vehicle!NoItems
         /\ \A r \in Range(replies') : r.id = "MISSION_ACK"
<1>1. m.type = PlanType /\ PlanType \in PlanTypes
  BY OutboundType, ConstantsAssumption DEF ConstantsAssumption
<1>2. /\ m.id = "MISSION_CLEAR_ALL" /\ requestType' = PlanType
      /\ stored' = [stored EXCEPT ![PlanType] = Vehicle!NoItems]
      /\ replies' = <<AckMessage(PlanType, "ACCEPTED")>>
      /\ UNCHANGED <<writeSequenceIndex, failureMode>>
  BY <1>1, SameMessages DEF Vehicle!HandleMissionClearAll, Vehicle!Reply
<1>3. stored' \in [PlanTypes -> Stores] /\ held' = Vehicle!NoItems
  BY <1>1, <1>2, NoItemsStored DEF TransferTypes, held
<1>4. /\ AtMostOne(replies', Answers)
      /\ \A r \in Range(replies') : r.id = "MISSION_ACK"
  BY <1>1, <1>2, AckReply DEF Results
<1> QED BY <1>1, <1>2, <1>3, <1>4 DEF VehicleTypes, TransferTypes

\* It announces the plan, or stays silent.
LEMMA RequestListCase ==
  ASSUME ConstantsAssumption, TransferTypes, NEW m \in Outbound, Vehicle!HandleMissionRequestList(m)
  PROVE  /\ m.id = "MISSION_REQUEST_LIST" /\ VehicleTypes
         /\ stored' = stored
         /\ \A r \in Range(replies') : r.id = "MISSION_COUNT" /\ r.count = Cardinality(DOMAIN held)
<1>1. m.type = PlanType /\ PlanType \in PlanTypes
  BY OutboundType, ConstantsAssumption DEF ConstantsAssumption
<1>2. /\ m.id = "MISSION_REQUEST_LIST"
      /\ \/ replies' = <<>> /\ requestType' = requestType
         \/ /\ replies' = <<CountMessage(PlanType, Cardinality(DOMAIN held))>>
            /\ requestType' = PlanType
      /\ UNCHANGED <<stored, writeSequenceIndex, failureMode>>
  BY <1>1, SameMessages DEF Vehicle!HandleMissionRequestList, Vehicle!NoReply,
     Vehicle!Reply, Vehicle!ItemCount, held
<1>3. Cardinality(DOMAIN held) \in Nat
  BY <1>1, StoresAre DEF TransferTypes, held
<1>4. CountMessage(PlanType, Cardinality(DOMAIN held)) \in Answers
  BY <1>1, <1>3, Replies
<1>5. AtMostOne(replies', Answers)
  BY <1>2, <1>4 DEF AtMostOne
<1>6. \A r \in Range(replies') : r.id = "MISSION_COUNT" /\ r.count = Cardinality(DOMAIN held)
  <2>1. Range(replies') \subseteq {CountMessage(PlanType, Cardinality(DOMAIN held))}
    BY <1>2, RangeIs
  <2> QED BY <2>1 DEF CountMessage
<1> QED BY <1>1, <1>2, <1>5, <1>6 DEF VehicleTypes, TransferTypes

\* It sends an item: the one asked for, or the next in the modes that are for
\* that.  Unless one had to be invented, it is an item of the plan.
ItemAnswers(m, r) ==
  /\ r.id = "MISSION_ITEM_INT"
  /\ \/ r.seq = m.seq /\ (NoItemZero => m.seq # 0) /\ (NoItemOne => m.seq # 1)
     \/ r.seq = m.seq + 1 /\ NoItemZero /\ m.seq = 0
     \/ r.seq = m.seq + 1 /\ NoItemOne /\ m.seq = 1
  /\ stored' = stored => r.seq \in DOMAIN held /\ r.item = held[r.seq]

LEMMA RequestCase ==
  ASSUME ConstantsAssumption, TransferTypes, NEW m \in Outbound, Vehicle!HandleMissionRequest(m)
  PROVE  /\ m.id = "MISSION_REQUEST_INT" /\ VehicleTypes
         /\ \A r \in Range(replies') : r.id = "MISSION_ACK" \/ ItemAnswers(m, r)
<1>1. m.id = "MISSION_REQUEST_INT" /\ m.type = PlanType /\ PlanType \in PlanTypes /\ m.seq \in Nat
  BY OutboundType, ConstantsAssumption DEF ConstantsAssumption, Vehicle!HandleMissionRequest
<1>2. /\ requestType \in PlanTypes /\ held \in Stores /\ writeSequenceIndex \in Nat
      /\ stored \in [PlanTypes -> Stores]
  BY <1>1 DEF TransferTypes, held
<1>3. UNCHANGED <<requestType, writeSequenceIndex, failureMode>>
  BY DEF Vehicle!HandleMissionRequest
<1> DEFINE wrong == (NoItemZero /\ m.seq = 0) \/ (NoItemOne /\ m.seq = 1)
           seq   == IF wrong THEN m.seq + 1 ELSE m.seq
<1>4. \/ replies' = <<>> /\ stored' = stored
      \/ replies' = <<AckMessage(requestType, "ERROR")>> /\ stored' = stored
      \/ /\ seq \in DOMAIN held /\ stored' = stored
         /\ replies' = <<ItemMessage(requestType, seq, held[seq])>>
      \/ /\ seq \notin DOMAIN held
         /\ stored' = [stored EXCEPT ![PlanType] = Vehicle!Store(@, seq, NoItem)]
         /\ replies' = <<ItemMessage(requestType, seq, NoItem)>>
  BY <1>1, SameMessages DEF Vehicle!HandleMissionRequest, Vehicle!NoReply, Vehicle!Reply,
     held, NoItemZero, NoItemOne
<1>5. /\ seq \in Nat
      /\ \/ seq = m.seq /\ (NoItemZero => m.seq # 0) /\ (NoItemOne => m.seq # 1)
         \/ seq = m.seq + 1 /\ NoItemZero /\ m.seq = 0
         \/ seq = m.seq + 1 /\ NoItemOne /\ m.seq = 1
  BY <1>1
<1> HIDE DEF seq
<1>6. ASSUME NEW i \in Item, replies' = <<ItemMessage(requestType, seq, i)>>,
             stored' \in [PlanTypes -> Stores],
             stored' = stored => seq \in DOMAIN held /\ i = held[seq]
      PROVE  /\ VehicleTypes
             /\ \A r \in Range(replies') : ItemAnswers(m, r)
  <2>1. ItemMessage(requestType, seq, i) \in Answers
    BY <1>2, <1>5, Replies
  <2>2. Range(replies') = {ItemMessage(requestType, seq, i)}
    BY <1>6, RangeIs
  <2>3. /\ ItemMessage(requestType, seq, i).id = "MISSION_ITEM_INT"
        /\ ItemMessage(requestType, seq, i).seq = seq
        /\ ItemMessage(requestType, seq, i).item = i
    BY DEF ItemMessage
  <2>4. AtMostOne(replies', Answers)
    BY <1>6, <2>1, OneIsAtMostOne
  <2>5. ItemAnswers(m, ItemMessage(requestType, seq, i))
    BY <1>5, <1>6, <2>3 DEF ItemAnswers
  <2> QED BY <1>2, <1>3, <1>6, <2>2, <2>4, <2>5 DEF VehicleTypes
<1>7. CASE replies' = <<>> /\ stored' = stored
  BY <1>1, <1>2, <1>3, <1>7, RangeIs DEF VehicleTypes, AtMostOne
<1>8. CASE replies' = <<AckMessage(requestType, "ERROR")>> /\ stored' = stored
  BY <1>1, <1>2, <1>3, <1>8, AckReply DEF VehicleTypes, Results
<1>9. CASE /\ seq \in DOMAIN held /\ stored' = stored
           /\ replies' = <<ItemMessage(requestType, seq, held[seq])>>
  <2>1. held[seq] \in Item
    BY <1>2, <1>9, StoresAre
  <2> QED BY <1>1, <1>2, <1>6, <1>9, <2>1
<1>10. CASE /\ seq \notin DOMAIN held
            /\ stored' = [stored EXCEPT ![PlanType] = Vehicle!Store(@, seq, NoItem)]
            /\ replies' = <<ItemMessage(requestType, seq, NoItem)>>
  <2>1. NoItem \in Item
    BY DEF NoItem, Item, Commands
  <2>2. /\ Vehicle!Store(held, seq, NoItem) \in Stores
        /\ DOMAIN Vehicle!Store(held, seq, NoItem) = DOMAIN held \cup {seq}
    BY <1>2, <1>5, <2>1, StoredOver
  <2>3. stored' = [stored EXCEPT ![PlanType] = Vehicle!Store(held, seq, NoItem)]
    BY <1>10 DEF held
  <2>4. stored' \in [PlanTypes -> Stores] /\ stored'[PlanType] = Vehicle!Store(held, seq, NoItem)
    BY <1>1, <1>2, <2>2, <2>3
  <2>5. stored' # stored
    BY <1>10, <2>2, <2>4 DEF held
  <2> QED BY <1>1, <1>6, <1>10, <2>1, <2>4, <2>5
<1> QED BY <1>4, <1>7, <1>8, <1>9, <1>10

\* It starts over with the plan announced: nothing is stored yet.
LEMMA CountCase ==
  ASSUME ConstantsAssumption, TransferTypes, NEW m \in Outbound, Vehicle!HandleMissionCount(m)
  PROVE  /\ m.id = "MISSION_COUNT" /\ VehicleTypes
         /\ held' = Vehicle!NoItems
         /\ \A r \in Range(replies') :
              /\ FollowsUp(r)
              /\ r.id = "MISSION_REQUEST_INT" =>
                   /\ NoFirst => r.seq # 0
                   /\ ~NoFirst => r.seq = 0
<1>1. m.id = "MISSION_COUNT" /\ m.type = PlanType /\ PlanType \in PlanTypes
  BY OutboundType, ConstantsAssumption DEF ConstantsAssumption, Vehicle!HandleMissionCount
<1>2. /\ requestType' = PlanType /\ failureMode' = failureMode
      /\ stored' = [stored EXCEPT ![PlanType] = Vehicle!NoItems]
      /\ \/ /\ replies' = <<AckMessage(PlanType, "ACCEPTED")>>
            /\ writeSequenceIndex' = writeSequenceIndex
         \/ replies' = <<>> /\ writeSequenceIndex' = writeSequenceIndex
         \/ Vehicle!RequestNextItem(PlanType, 0, m.count) /\ writeSequenceIndex' = 0
  BY <1>1, SameMessages DEF Vehicle!HandleMissionCount, Vehicle!NoReply, Vehicle!Reply
<1>3. stored' \in [PlanTypes -> Stores] /\ held' = Vehicle!NoItems
  BY <1>1, <1>2, NoItemsStored DEF TransferTypes, held
<1>4. writeSequenceIndex' \in Nat
  BY <1>2 DEF TransferTypes
<1>5. /\ AtMostOne(replies', Answers)
      /\ \A r \in Range(replies') :
           /\ FollowsUp(r)
           /\ r.id = "MISSION_REQUEST_INT" =>
                /\ NoFirst => r.seq # 0
                /\ ~NoFirst => r.seq = 0
  <2>1. CASE replies' = <<AckMessage(PlanType, "ACCEPTED")>>
    <3>1. /\ AtMostOne(replies', Answers)
          /\ \A r \in Range(replies') : r.id = "MISSION_ACK"
      BY <1>1, <2>1, AckReply DEF Results
    <3> QED BY <3>1 DEF FollowsUp
  <2>2. CASE replies' = <<>>
    BY <2>2, RangeIs DEF AtMostOne
  <2>3. CASE Vehicle!RequestNextItem(PlanType, 0, m.count)
    BY <1>1, <2>3, NextItemCases
  <2> QED BY <1>2, <2>1, <2>2, <2>3
<1> QED BY <1>1, <1>2, <1>3, <1>4, <1>5 DEF VehicleTypes

\* It stores an item at its number.
LEMMA ItemCase ==
  ASSUME ConstantsAssumption, TransferTypes, NEW m \in Outbound, Vehicle!HandleMissionItem(m)
  PROVE  /\ m.id = "MISSION_ITEM_INT" /\ VehicleTypes
         /\ held' = Vehicle!Store(held, m.seq, m.item)
         /\ \A r \in Range(replies') :
              FollowsUp(r) /\ (r.id = "MISSION_REQUEST_INT" /\ NoFirst => r.seq # 0)
<1>1. /\ m.id = "MISSION_ITEM_INT" /\ m.type = PlanType /\ PlanType \in PlanTypes
      /\ m.seq \in Nat /\ m.item \in Item
  BY OutboundType, ConstantsAssumption DEF ConstantsAssumption, Vehicle!HandleMissionItem
<1>2. /\ requestType \in PlanTypes /\ held \in Stores /\ writeSequenceIndex \in Nat
      /\ stored \in [PlanTypes -> Stores]
  BY <1>1 DEF TransferTypes, held
<1>3. /\ stored' = [stored EXCEPT ![PlanType] = Vehicle!Store(@, m.seq, m.item)]
      /\ writeSequenceIndex' = writeSequenceIndex + 1
      /\ UNCHANGED <<requestType, failureMode>>
  BY <1>1 DEF Vehicle!HandleMissionItem
<1>4. Vehicle!Store(held, m.seq, m.item) \in Stores
  BY <1>1, <1>2, StoredOver
<1>5. stored' = [stored EXCEPT ![PlanType] = Vehicle!Store(held, m.seq, m.item)]
  BY <1>3 DEF held
<1>6. /\ stored' \in [PlanTypes -> Stores]
      /\ held' = Vehicle!Store(held, m.seq, m.item)
  BY <1>1, <1>2, <1>4, <1>5 DEF held
<1>7. writeSequenceIndex' \in Nat /\ requestType' \in PlanTypes
  BY <1>2, <1>3
<1>8. \/ replies' = <<AckMessage(requestType, "ACCEPTED")>>
      \/ replies' = <<AckMessage(requestType, "ERROR")>>
      \/ replies' = <<>>
      \/ Vehicle!RequestNextItem(requestType, writeSequenceIndex', writeSequenceCount)
  BY SameMessages DEF Vehicle!HandleMissionItem, Vehicle!NoReply, Vehicle!Reply,
     Vehicle!FinalAck
<1>9. /\ AtMostOne(replies', Answers)
      /\ \A r \in Range(replies') :
           FollowsUp(r) /\ (r.id = "MISSION_REQUEST_INT" /\ NoFirst => r.seq # 0)
  <2>1. ASSUME NEW result \in Results, replies' = <<AckMessage(requestType, result)>>
        PROVE  /\ AtMostOne(replies', Answers)
               /\ \A r \in Range(replies') : r.id = "MISSION_ACK"
    BY <1>2, <2>1, AckReply
  <2>2. CASE \/ replies' = <<AckMessage(requestType, "ACCEPTED")>>
             \/ replies' = <<AckMessage(requestType, "ERROR")>>
    <3>1. /\ AtMostOne(replies', Answers)
          /\ \A r \in Range(replies') : r.id = "MISSION_ACK"
      BY <2>1, <2>2 DEF Results
    <3> QED BY <3>1 DEF FollowsUp
  <2>3. CASE replies' = <<>>
    BY <2>3, RangeIs DEF AtMostOne
  <2>4. CASE Vehicle!RequestNextItem(requestType, writeSequenceIndex', writeSequenceCount)
    BY <1>2, <1>7, <2>4, NextItemCases
  <2> QED BY <1>8, <2>2, <2>3, <2>4
<1> QED BY <1>1, <1>3, <1>6, <1>7, <1>9 DEF VehicleTypes

\* What is not answered changes nothing.
LEMMA IgnoredCase ==
  ASSUME TransferTypes, Vehicle!NoReply,
         UNCHANGED <<stored, requestType, writeSequenceIndex, failureMode>>
  PROVE  VehicleTypes /\ Range(replies') = {}
BY RangeIs DEF VehicleTypes, Vehicle!NoReply, AtMostOne, TransferTypes

-----------------------------------------------------------------------------
(* The invariant holds at the start and is kept by every step.             *)

LEMMA TransferInvariantInit ==
  ASSUME ConstantsAssumption, TransferAssumption, TransferInit
  PROVE  TransferInv
<1>1. IInv
  BY InvariantInit DEF TransferInit
<1>2. transactionInProgress = "TransactionNone" /\ toVehicle = <<>> /\ toGcs = <<>>
  BY DEF TransferInit, Init
<1>3. TransferTypes
  <2>1. /\ stored \in [PlanTypes -> InitialPlans] /\ requestType = "mission"
        /\ writeSequenceIndex = 0
    BY DEF TransferInit, Vehicle!HandlerInit, Vehicle!PlanTypes, PlanTypes
  <2>2. \A plan \in InitialPlans : plan \in Stores
    <3> TAKE plan \in InitialPlans
    <3>1. /\ IsFiniteSet(DOMAIN plan) /\ DOMAIN plan \in SUBSET Nat
          /\ plan = [s \in DOMAIN plan |-> plan[s]]
          /\ \A s \in DOMAIN plan : plan[s] \in Item
      BY DEF TransferAssumption
    <3>2. plan \in [DOMAIN plan -> Item]
      BY <3>1
    <3> QED BY <3>1, <3>2, StoresAre
  <2>3. stored \in [PlanTypes -> Stores]
    BY <2>1, <2>2
  <2> QED BY <1>2, <2>1, <2>3 DEF TransferTypes, PlanTypes
<1>4. OneUnderWay
  BY <1>2 DEF OneUnderWay, Quiet, inProgress
<1>5. ReadMessages /\ ReadData /\ ReadOrder /\ Removals /\ Writes
  BY <1>2 DEF ReadMessages, ReadData, ReadOrder, Removals, Writes, Writing, Reading
<1> QED BY <1>1, <1>3, <1>4, <1>5 DEF TransferInv

\* Between transactions nothing is promised about messages and lists.
LEMMA IdleKeeps ==
  ASSUME (transactionInProgress = "TransactionNone")'
  PROVE  (ReadMessages /\ ReadData /\ ReadOrder /\ Removals /\ Writes)'
BY DEF ReadMessages, ReadData, ReadOrder, Removals, Writes, Writing, Reading

\* What the messages of a queue that is quiet are.
LEMMA QuietIs ==
  ASSUME Quiet, TransferTypes
  PROVE  toGcs = <<>> /\ \A m \in Range(toVehicle) : m.id = "MISSION_ACK"
BY RangeIs DEF Quiet, TransferTypes

\* The manager's side of the link after a step that sends.
LEMMA Sends ==
  ASSUME TransferTypes, AtMostOne(sent', Outbound), Carry(toVehicle, sent')
  PROVE  /\ toVehicle' \in Seq(Outbound) /\ late' = late
         /\ Range(toVehicle') \subseteq Range(toVehicle) \cup Range(sent')
         /\ Len(toVehicle') \in {Len(toVehicle), Len(toVehicle) + 1}
         /\ Len(toVehicle) \in Nat
         /\ \A i \in 1..Len(toVehicle) : toVehicle'[i] = toVehicle[i]
         /\ sent' = <<>> => toVehicle' = toVehicle
<1>1. /\ toVehicle \in Seq(Outbound) /\ late' = late
      /\ toVehicle' = toVehicle \o sent' \/ toVehicle' = toVehicle
  BY DEF TransferTypes, Carry
<1>2. /\ toVehicle' \in Seq(Outbound)
      /\ Range(toVehicle') \subseteq Range(toVehicle) \cup Range(sent')
      /\ Len(toVehicle') \in {Len(toVehicle), Len(toVehicle) + 1}
      /\ \A i \in 1..Len(toVehicle) : toVehicle'[i] = toVehicle[i]
      /\ sent' = <<>> => toVehicle' = toVehicle
  BY <1>1, Carried
<1> QED BY <1>1, <1>2

\* A step of the manager that finds nothing to be answered under way leaves
\* one message under way.
LEMMA OneMoreUnderWay ==
  ASSUME TransferTypes, AtMostOne(sent', Outbound), Carry(toVehicle, sent'),
         toGcs' = <<>>, ~late => \A i \in 1..Len(toVehicle) : IsAck(toVehicle[i]),
         inProgress' \/ \A m \in Range(sent') : m.id = "MISSION_ACK"
  PROVE  OneUnderWay'
<1> SUFFICES ASSUME ~late'
             PROVE  /\ \/ /\ toGcs' = <<>>
                          /\ \A i \in 1..(Len(toVehicle') - 1) : IsAck(toVehicle'[i])
                       \/ /\ Len(toGcs') = 1
                          /\ \A i \in 1..Len(toVehicle') : IsAck(toVehicle'[i])
                    /\ inProgress' \/ Quiet'
  BY DEF OneUnderWay, IsAck
<1>1. /\ late' = late /\ Len(toVehicle) \in Nat
      /\ Len(toVehicle') \in {Len(toVehicle), Len(toVehicle) + 1}
      /\ \A i \in 1..Len(toVehicle) : toVehicle'[i] = toVehicle[i]
      /\ toVehicle' \in Seq(Outbound)
      /\ Range(toVehicle') \subseteq Range(toVehicle) \cup Range(sent')
  BY Sends
<1>2. \A i \in 1..Len(toVehicle) : IsAck(toVehicle[i])
  BY <1>1
<1>3. \A i \in 1..(Len(toVehicle') - 1) : IsAck(toVehicle'[i])
  <2> TAKE i \in 1..(Len(toVehicle') - 1)
  <2>1. i \in 1..Len(toVehicle)
    BY <1>1
  <2> QED BY <1>1, <1>2, <2>1
<1>4. ASSUME \A m \in Range(sent') : m.id = "MISSION_ACK"
      PROVE  Quiet'
  <2>1. \A m \in Range(toVehicle) : m.id = "MISSION_ACK"
    BY <1>2, RangeIs DEF TransferTypes, IsAck
  <2>2. \A m \in Range(toVehicle') : m.id = "MISSION_ACK"
    BY <1>1, <1>4, <2>1
  <2>3. \A i \in 1..Len(toVehicle') : toVehicle'[i] \in Range(toVehicle')
    BY <1>1, RangeIs
  <2> QED BY <2>2, <2>3 DEF Quiet
<1> QED BY <1>3, <1>4

\* What a call keeps.
LEMMA CallKeeps ==
  ASSUME ConstantsAssumption, TransferInv, Call
  PROVE  TransferInv'
<1>1. IInv /\ TransferTypes /\ OneUnderWay /\ ApplicationCall
  BY DEF TransferInv, Call
<1>2. AtMostOne(sent', Outbound)
  BY <1>1, CallSends
<1>3. ~inProgress /\ inProgress'
  BY <1>1, CallCases
<1>4. Quiet
  BY <1>1, <1>3 DEF Call, OneUnderWay
<1>5. /\ toGcs = <<>> /\ toGcs' = <<>> /\ Range(toGcs') = {}
      /\ \A m \in Range(toVehicle) : m.id = "MISSION_ACK"
      /\ \A i \in 1..Len(toVehicle) : IsAck(toVehicle[i])
      /\ Carry(toVehicle, sent')
      /\ UNCHANGED vehicleVars
  BY <1>1, <1>4, QuietIs, RangeIs DEF Call, Quiet, IsAck
<1>6. \A m \in Range(toVehicle') : m.id = "MISSION_ACK" \/ m \in Range(sent')
  BY <1>1, <1>2, <1>5, Sends
<1>7. IInv'
  BY <1>1, CallKeepsInvariant
<1>8. TransferTypes'
  BY <1>1, <1>2, <1>5, Sends DEF TransferTypes, vehicleVars
<1>9. OneUnderWay'
  BY <1>1, <1>2, <1>3, <1>5, OneMoreUnderWay
<1>10. CASE /\ Reading' /\ expectedAck' = "AckMissionCount" /\ missionItems' = <<>>
            /\ Range(sent') = {RequestListMessage(PlanType)}
  <2>1. RequestListMessage(PlanType).id = "MISSION_REQUEST_LIST"
    BY DEF RequestListMessage
  <2>2. ReadMessages'
    BY <1>5, <1>6, <1>10, <2>1 DEF ReadMessages
  <2>3. ReadData' /\ ReadOrder'
    BY <1>5, <1>10 DEF ReadData, ReadOrder
  <2>4. Removals' /\ Writes'
    BY <1>10 DEF Removals, Writes, Writing, Reading
  <2> QED BY <1>7, <1>8, <1>9, <2>2, <2>3, <2>4 DEF TransferInv
<1>11. CASE /\ SendingPlan' /\ itemIndicesToWrite' = 0..(Len(writeMissionItems') - 1)
            /\ Range(sent') = {CountMessage(PlanType, Len(writeMissionItems'))}
  <2>1. /\ CountMessage(PlanType, Len(writeMissionItems')).id = "MISSION_COUNT"
        /\ CountMessage(PlanType, Len(writeMissionItems')).count = Len(writeMissionItems')
    BY DEF CountMessage
  <2>2. Given' = {}
    BY <1>11 DEF Given
  <2>3. writeMissionItems' = <<>> \/ 0 \in itemIndicesToWrite'
    BY <1>7, <1>11 DEF IInv, TypeOK
  <2>4. WriteProgress'
    BY <2>2, <2>3 DEF WriteProgress
  <2>5. Writes'
    BY <1>5, <1>6, <1>11, <2>1, <2>2, <2>4 DEF Writes, CountUnderWay
  <2>6. ReadMessages' /\ ReadData' /\ ReadOrder' /\ Removals'
    BY <1>11 DEF ReadMessages, ReadData, ReadOrder, Removals, Reading, SendingPlan
  <2> QED BY <1>7, <1>8, <1>9, <2>5, <2>6 DEF TransferInv
<1>12. CASE Removing' /\ Range(sent') = {ClearAllMessage(PlanType)}
  <2>1. ClearAllMessage(PlanType).id = "MISSION_CLEAR_ALL"
    BY DEF ClearAllMessage
  <2>2. Removals'
    BY <1>5, <1>6, <1>12, <2>1 DEF Removals
  <2>3. ReadMessages' /\ ReadData' /\ ReadOrder' /\ Writes'
    BY <1>12 DEF ReadMessages, ReadData, ReadOrder, Writes, Writing, Reading, Removing
  <2> QED BY <1>7, <1>8, <1>9, <2>2, <2>3 DEF TransferInv
<1>13. CASE transactionInProgress' = "TransactionWrite" /\ expectedAck' = "AckGuidedItem"
  <2>1. ReadMessages' /\ ReadData' /\ ReadOrder' /\ Removals' /\ Writes'
    BY <1>13 DEF ReadMessages, ReadData, ReadOrder, Removals, Writes, Writing, Reading
  <2> QED BY <1>7, <1>8, <1>9, <2>1 DEF TransferInv
<1> QED BY <1>1, <1>10, <1>11, <1>12, <1>13, CallCases

\* What the timer keeps.
LEMMA TimeoutKeeps ==
  ASSUME ConstantsAssumption, TransferInv, Timeout
  PROVE  TransferInv'
<1>1. IInv /\ TransferTypes /\ OneUnderWay /\ AckTimeout
  BY DEF TransferInv, Timeout
<1>2. AtMostOne(sent', Outbound)
  BY <1>1, TimeoutSends
<1>3. /\ UNCHANGED <<toGcs, invented, vehicleVars>> /\ Carry(toVehicle, sent')
      /\ held' = held /\ late' = late /\ (late \/ Quiet)
  BY DEF Timeout, vehicleVars, held, Carry
<1>4. Range(toVehicle') \subseteq Range(toVehicle) \cup Range(sent')
  BY <1>1, <1>2, <1>3, Sends
<1>5. IInv'
  BY <1>1, TimeoutKeepsInvariant
<1>6. TransferTypes'
  BY <1>1, <1>2, <1>3, Sends DEF TransferTypes, vehicleVars
<1>7. inProgress' \/ \A m \in Range(sent') : m.id = "MISSION_ACK"
  <2>1. CASE Ends /\ sent' = <<>>
    BY <2>1, RangeIs
  <2>2. CASE Unmoved
    <3>1. inProgress
      BY <1>1, TimeoutCases
    <3> QED BY <2>2, <3>1 DEF Unmoved, inProgress
  <2> QED BY <1>1, <2>1, <2>2, TimeoutCases
<1>8. OneUnderWay'
  <2>1. CASE late
    BY <1>3, <2>1 DEF OneUnderWay
  <2>2. CASE Quiet
    <3>1. toGcs' = <<>> /\ \A i \in 1..Len(toVehicle) : IsAck(toVehicle[i])
      BY <1>3, <2>2 DEF Quiet, IsAck
    <3> QED BY <1>1, <1>2, <1>3, <1>7, <3>1, OneMoreUnderWay
  <2> QED BY <1>3, <2>1, <2>2
<1>9. ASSUME (ReadMessages /\ ReadData /\ ReadOrder /\ Removals /\ Writes)'
      PROVE  TransferInv'
  BY <1>5, <1>6, <1>8, <1>9 DEF TransferInv
<1>10. CASE Ends
  <2>1. (transactionInProgress = "TransactionNone")'
    BY <1>10 DEF Ends
  <2> QED BY <1>9, <2>1, IdleKeeps
\* Asking again.
<1>11. CASE Unmoved
  <2> DEFINE kept == <<expectedAck, transactionInProgress, itemIndicesToRead,
                       missionItemCountToRead, missionItems, itemIndicesToWrite,
                       writeMissionItems, toGcs, invented, stored, failureMode, late>>
  <2>1. kept' = kept
    BY <1>3, <1>11 DEF Unmoved, readVars, writeVars, vehicleVars
  <2>2. ReadData'
    BY <2>1 DEF TransferInv, ReadData, Reading, OfVehicle, held
  <2>3. ASSUME Reading, expectedAck = "AckMissionCount",
               Range(sent') = {RequestListMessage(PlanType)}
        PROVE  ReadMessages' /\ ReadOrder' /\ Removals' /\ Writes'
    <3>1. RequestListMessage(PlanType).id = "MISSION_REQUEST_LIST"
      BY DEF RequestListMessage
    <3>2. ReadMessages'
      BY <1>4, <2>1, <2>3, <3>1 DEF TransferInv, ReadMessages, Reading
    <3> QED BY <2>1, <2>3, <3>2 DEF ReadOrder, Removals, Writes, Writing, Reading
  <2>4. ASSUME Reading, expectedAck = "AckMissionItem", AsksFirst(itemIndicesToRead)
        PROVE  ReadMessages' /\ ReadOrder' /\ Removals' /\ Writes'
    <3>1. PICK s \in itemIndicesToRead :
                 /\ \A x \in itemIndicesToRead : s <= x
                 /\ Range(sent') = {RequestMessage(PlanType, s)}
      BY <2>4 DEF AsksFirst
    <3>2. /\ RequestMessage(PlanType, s).id = "MISSION_REQUEST_INT"
          /\ RequestMessage(PlanType, s).seq = s
      BY DEF RequestMessage
    <3>3. ReadMessages'
      BY <1>4, <2>1, <2>4, <3>1, <3>2 DEF TransferInv, ReadMessages, Reading
    <3>4. ReadOrder
      BY DEF TransferInv
    <3>5. ~Astray => s <= Len(missionItems)
      <4> SUFFICES ASSUME ~Astray PROVE s <= Len(missionItems)
        OBVIOUS
      <4>1. itemIndicesToRead = Len(missionItems)..(missionItemCountToRead - 1)
        BY <2>4, <3>4 DEF ReadOrder
      <4>2. Len(missionItems) \in Nat /\ missionItemCountToRead \in Int
        BY <1>1 DEF IInv, TypeOK
      <4>3. Len(missionItems) \in itemIndicesToRead
        BY <3>1, <4>1, <4>2
      <4> QED BY <3>1, <4>3
    <3>6. ReadOrder'
      BY <1>4, <2>1, <3>1, <3>2, <3>4, <3>5 DEF ReadOrder, Reading, Astray, NoItemZero, NoItemOne
    <3> QED BY <2>1, <2>4, <3>3, <3>6 DEF Removals, Writes, Writing, Reading
  <2>5. ASSUME SendingPlan, 0 \in itemIndicesToWrite,
               Range(sent') = {CountMessage(PlanType, Len(writeMissionItems))}
        PROVE  ReadMessages' /\ ReadOrder' /\ Removals' /\ Writes'
    <3>1. /\ CountMessage(PlanType, Len(writeMissionItems)).id = "MISSION_COUNT"
          /\ CountMessage(PlanType, Len(writeMissionItems)).count = Len(writeMissionItems)
      BY DEF CountMessage
    <3>2. Writes'
      <4> SUFFICES ASSUME Writing' PROVE Writes'
        BY DEF Writes
      <4>1. Writing /\ WriteProgress
        BY <2>1, <2>5 DEF Writing, TransferInv, Writes
      <4>2. CountUnderWay(CountMessage(PlanType, Len(writeMissionItems)))
        BY <2>5, <3>1, <4>1 DEF CountUnderWay, WriteProgress
      <4>3. \A m \in Range(toVehicle') :
              /\ m.id \in {"MISSION_COUNT", "MISSION_ITEM_INT", "MISSION_ACK"}
              /\ m.id = "MISSION_COUNT" => CountUnderWay(m)
              /\ m.id = "MISSION_ITEM_INT" => ItemUnderWay(m)
        BY <1>4, <2>5, <3>1, <4>1, <4>2 DEF TransferInv, Writes
      <4> QED BY <2>1, <4>1, <4>3 DEF TransferInv, Writes, WriteProgress, CountUnderWay,
              ItemUnderWay, AnswerUnderWay, HoldsOnly, Given, NoFirst, held
    <3> QED BY <2>1, <2>5, <3>2 DEF ReadMessages, ReadOrder, Removals, Reading, SendingPlan
  <2>6. ASSUME Removing, Range(sent') = {ClearAllMessage(PlanType)}
        PROVE  ReadMessages' /\ ReadOrder' /\ Removals' /\ Writes'
    <3>1. ClearAllMessage(PlanType).id = "MISSION_CLEAR_ALL"
      BY DEF ClearAllMessage
    <3>2. Removals'
      BY <1>3, <1>4, <2>1, <2>6, <3>1 DEF TransferInv, Removals
    <3> QED BY <2>1, <2>6, <3>2 DEF ReadMessages, ReadOrder, Writes, Writing, Reading, Removing
  <2> QED BY <1>1, <1>9, <1>11, <2>2, <2>3, <2>4, <2>5, <2>6, <1>10, TimeoutCases
<1> QED BY <1>1, <1>10, <1>11, TimeoutCases

\* The read list is ahead of what has come in by nothing but what is missing.
LEMMA ReadFacts ==
  ASSUME IInv, Reading, expectedAck = "AckMissionItem"
  PROVE  /\ Len(missionItems) \in Nat /\ missionItemCountToRead \in Nat
         /\ Len(missionItems) < missionItemCountToRead
         /\ itemIndicesToRead \subseteq 0..(missionItemCountToRead - 1)
<1>1. /\ itemIndicesToRead # {}
      /\ ReceivedIndices \cup itemIndicesToRead = 0..(missionItemCountToRead - 1)
      /\ Len(missionItems) + Cardinality(itemIndicesToRead) = missionItemCountToRead
      /\ missionItemCountToRead \in Int /\ Len(missionItems) \in Nat
  BY DEF IInv, ReadAccounting, TypeOK, Reading, inProgress
<1>2. itemIndicesToRead \subseteq 0..(missionItemCountToRead - 1)
  BY <1>1
<1>3. IsFiniteSet(itemIndicesToRead)
  <2>1. \A n \in Int : IsFiniteSet(0..(n - 1))
    BY FS_Interval
  <2>2. IsFiniteSet(0..(missionItemCountToRead - 1))
    BY <1>1, <2>1
  <2> QED BY <1>2, <2>2, FS_Subset
<1>4. Cardinality(itemIndicesToRead) \in Nat /\ Cardinality(itemIndicesToRead) # 0
  BY <1>1, <1>3, FS_CardinalityType, FS_EmptySet
<1> QED BY <1>1, <1>2, <1>4

\* What a message that does not end a transaction keeps of a read.
LEMMA AnnouncedKeeps ==
  ASSUME TransferInv, GcsReceives, NEW m \in Answers, m \in Range(toGcs), Announced(m),
         Range(toGcs') \subseteq Range(toGcs),
         Range(toVehicle') \subseteq Range(toVehicle) \cup Range(sent')
  PROVE  (ReadMessages /\ ReadData /\ ReadOrder /\ Removals /\ Writes)'
<1>1. /\ Reading /\ expectedAck = "AckMissionCount" /\ m.id = "MISSION_COUNT"
      /\ Reading' /\ expectedAck' = "AckMissionItem" /\ missionItems' = <<>>
      /\ missionItemCountToRead' = m.count /\ m.count \in Nat \ {0}
      /\ itemIndicesToRead' = 0..(m.count - 1)
      /\ Range(sent') = {RequestMessage(PlanType, 0)}
      /\ UNCHANGED <<invented, stored, failureMode>>
  BY DEF Announced, GcsReceives, vehicleVars
<1>2. /\ RequestMessage(PlanType, 0).id = "MISSION_REQUEST_INT"
      /\ RequestMessage(PlanType, 0).seq = 0
  BY DEF RequestMessage
<1>3. /\ \A x \in Range(toVehicle) : x.id \in {"MISSION_REQUEST_LIST", "MISSION_ACK"}
      /\ \A x \in Range(toGcs) : x.id = "MISSION_COUNT"
  BY <1>1 DEF TransferInv, ReadMessages
<1>4. \A x \in Range(toVehicle') :
        x.id \in {"MISSION_REQUEST_LIST", "MISSION_ACK"} \/ x = RequestMessage(PlanType, 0)
  BY <1>1, <1>3
<1>5. ReadMessages'
  BY <1>1, <1>2, <1>3, <1>4 DEF ReadMessages
<1>6. ReadData'
  <2>1. ~invented => /\ m.count = Cardinality(DOMAIN held)
                     /\ \A x \in Range(toGcs) : x.count = Cardinality(DOMAIN held)
    BY <1>1, <1>3 DEF TransferInv, ReadData
  <2>2. held' = held
    BY <1>1 DEF held
  <2> QED BY <1>1, <1>3, <2>1, <2>2 DEF ReadData
<1>7. ReadOrder'
  <2>1. Len(missionItems') = 0
    BY <1>1
  <2>2. \A n \in Nat \ {0} : 0 \in 0..(n - 1) /\ (n >= 2 => 1 \in 0..(n - 1))
    OBVIOUS
  <2>3. 0 \in itemIndicesToRead' /\ (missionItemCountToRead' >= 2 => 1 \in itemIndicesToRead')
    BY <1>1, <2>2
  <2>4. \A x \in Range(toGcs') : x.id # "MISSION_ITEM_INT"
    BY <1>3
  <2>5. \A x \in Range(toVehicle') : x.id = "MISSION_REQUEST_INT" => x.seq <= Len(missionItems')
    BY <1>2, <1>4, <2>1
  <2>6. itemIndicesToRead' = Len(missionItems')..(missionItemCountToRead' - 1)
    BY <1>1, <2>1
  <2>7. \A k \in 1..Len(missionItems') : missionItems'[k].seq = k - 1
    BY <2>1
  <2> QED BY <2>3, <2>4, <2>5, <2>6, <2>7 DEF ReadOrder
<1>8. Removals' /\ Writes'
  BY <1>1 DEF Removals, Writes, Writing, Reading
<1> QED BY <1>5, <1>6, <1>7, <1>8

LEMMA TakenKeeps ==
  ASSUME TransferInv, GcsReceives, NEW m \in Answers, m \in Range(toGcs), Taken(m),
         Range(toGcs') \subseteq Range(toGcs),
         Range(toVehicle') \subseteq Range(toVehicle) \cup Range(sent')
  PROVE  (ReadMessages /\ ReadData /\ ReadOrder /\ Removals /\ Writes)'
<1> DEFINE entry == Entry(m.seq, FromVehicle(m.item))
<1>1. /\ Reading /\ expectedAck = "AckMissionItem" /\ m.id = "MISSION_ITEM_INT"
      /\ m.item \in Item /\ m.seq \in itemIndicesToRead
      /\ Reading' /\ expectedAck' = "AckMissionItem"
      /\ missionItems' = Append(missionItems, entry)
      /\ missionItemCountToRead' = missionItemCountToRead
      /\ itemIndicesToRead' = itemIndicesToRead \ {m.seq}
      /\ UNCHANGED <<invented, stored, failureMode>>
  BY DEF Taken, GcsReceives, vehicleVars
<1>2. PICK s \in itemIndicesToRead \ {m.seq} :
             /\ \A x \in itemIndicesToRead \ {m.seq} : s <= x
             /\ Range(sent') = {RequestMessage(PlanType, s)}
  BY DEF Taken, AsksFirst
<1>3. /\ RequestMessage(PlanType, s).id = "MISSION_REQUEST_INT"
      /\ RequestMessage(PlanType, s).seq = s
  BY DEF RequestMessage
<1>4. IInv /\ ReadMessages /\ ReadData /\ ReadOrder
  BY DEF TransferInv
<1>5. /\ Len(missionItems) \in Nat /\ missionItemCountToRead \in Nat
      /\ itemIndicesToRead \subseteq 0..(missionItemCountToRead - 1)
      /\ missionItems \in Seq(MissionItem)
  BY <1>1, <1>4, ReadFacts DEF IInv, TypeOK
<1>6. m.seq \in Nat /\ s \in Nat
  <2>1. itemIndicesToRead \subseteq Nat
    BY <1>4 DEF IInv, TypeOK
  <2> QED BY <1>1, <1>2, <2>1
<1>7. entry \in MissionItem /\ entry.seq = m.seq
  BY <1>1, <1>6, EntryType, ConvertedItem
<1> HIDE DEF entry
<1>8. /\ missionItems' \in Seq(MissionItem) /\ Len(missionItems') = Len(missionItems) + 1
      /\ \A k \in 1..Len(missionItems) : missionItems'[k] = missionItems[k]
      /\ missionItems'[Len(missionItems) + 1] = entry
  BY <1>1, <1>5, <1>7
<1>9. ReadMessages'
  BY <1>1, <1>2, <1>3, <1>4 DEF ReadMessages
<1>10. ReadData'
  <2> SUFFICES ASSUME ~invented PROVE ReadData'
    BY <1>1 DEF ReadData
  <2>1. held' = held
    BY <1>1 DEF held
  <2>2. OfVehicle(entry)
    <3>1. m.seq \in DOMAIN held /\ m.item = held[m.seq]
      BY <1>1, <1>4 DEF ReadData
    <3> QED BY <1>7, <3>1 DEF OfVehicle, entry
  <2>3. \A k \in 1..Len(missionItems') : OfVehicle(missionItems'[k])
    <3> TAKE k \in 1..Len(missionItems')
    <3>1. CASE k = Len(missionItems) + 1
      BY <1>8, <2>2, <3>1
    <3>2. CASE k # Len(missionItems) + 1
      <4>1. k \in 1..Len(missionItems)
        BY <1>5, <1>8, <3>2
      <4> QED BY <1>1, <1>4, <1>8, <4>1 DEF ReadData
    <3> QED BY <3>1, <3>2
  <2> QED BY <1>1, <1>4, <2>1, <2>3 DEF ReadData, OfVehicle
<1>11. ReadOrder'
  <2>1. /\ NoItemZero => m.seq # 0
        /\ NoItemOne => m.seq # 1
    BY <1>1, <1>4 DEF ReadOrder
  <2>2. /\ NoItemZero' = NoItemZero /\ NoItemOne' = NoItemOne /\ Astray' = Astray
    BY <1>1 DEF NoItemZero, NoItemOne, Astray
  <2>3. /\ NoItemZero => 0 \in itemIndicesToRead'
        /\ NoItemOne /\ missionItemCountToRead >= 2 => 1 \in itemIndicesToRead'
    BY <1>1, <1>4, <2>1 DEF ReadOrder
  <2>4. \A x \in Range(toGcs') :
          x.id = "MISSION_ITEM_INT" => (NoItemZero => x.seq # 0) /\ (NoItemOne => x.seq # 1)
    BY <1>1, <1>4 DEF ReadOrder
  <2>5. ASSUME ~Astray
        PROVE  /\ \A k \in 1..Len(missionItems') : missionItems'[k].seq = k - 1
               /\ itemIndicesToRead' = Len(missionItems')..(missionItemCountToRead - 1)
               /\ \A x \in Range(toGcs') :
                    x.id = "MISSION_ITEM_INT" => x.seq <= Len(missionItems')
               /\ \A x \in Range(toVehicle') :
                    x.id = "MISSION_REQUEST_INT" => x.seq <= Len(missionItems')
    <3>1. /\ \A k \in 1..Len(missionItems) : missionItems[k].seq = k - 1
          /\ itemIndicesToRead = Len(missionItems)..(missionItemCountToRead - 1)
          /\ \A x \in Range(toGcs) :
               x.id = "MISSION_ITEM_INT" => x.seq <= Len(missionItems)
          /\ \A x \in Range(toVehicle) :
               x.id = "MISSION_REQUEST_INT" => x.seq <= Len(missionItems)
      BY <1>1, <1>4, <2>5 DEF ReadOrder
    <3>2. m.seq = Len(missionItems)
      BY <1>1, <1>5, <1>6, <3>1
    <3>3. itemIndicesToRead' = Len(missionItems')..(missionItemCountToRead - 1)
      BY <1>1, <1>5, <1>8, <3>1, <3>2
    <3>4. s = Len(missionItems')
      <4>1. Len(missionItems') \in itemIndicesToRead \ {m.seq} /\ s >= Len(missionItems')
        BY <1>1, <1>2, <1>5, <1>6, <1>8, <3>3
      <4>2. s <= Len(missionItems') /\ Len(missionItems') \in Nat
        BY <1>2, <1>5, <1>8, <4>1
      <4> QED BY <1>6, <4>1, <4>2
    <3>5. \A k \in 1..Len(missionItems') : missionItems'[k].seq = k - 1
      <4> TAKE k \in 1..Len(missionItems')
      <4>1. CASE k = Len(missionItems) + 1
        BY <1>5, <1>7, <1>8, <3>2, <4>1
      <4>2. CASE k # Len(missionItems) + 1
        <5>1. k \in 1..Len(missionItems)
          BY <1>5, <1>8, <4>2
        <5> QED BY <1>8, <3>1, <5>1
      <4> QED BY <4>1, <4>2
    <3>6. \A x \in Nat : x <= Len(missionItems) => x <= Len(missionItems')
      BY <1>5, <1>8
    <3>7. \A x \in Range(toGcs) : x.id = "MISSION_ITEM_INT" => x.seq \in Nat
      BY RangeIs, MessageType DEF TransferInv, TransferTypes
    <3>8. \A x \in Range(toVehicle) : x.id = "MISSION_REQUEST_INT" => x.seq \in Nat
      BY RangeIs, OutboundType DEF TransferInv, TransferTypes
    <3>9. \A x \in Range(toVehicle') :
            x.id = "MISSION_REQUEST_INT" => x.seq <= Len(missionItems')
      BY <1>2, <1>3, <1>6, <3>1, <3>4, <3>6, <3>8
    <3> QED BY <3>1, <3>3, <3>5, <3>6, <3>7, <3>9
  <2> QED BY <1>1, <2>2, <2>3, <2>4, <2>5 DEF ReadOrder
<1>12. Removals' /\ Writes'
  BY <1>1 DEF Removals, Writes, Writing, Reading
<1> QED BY <1>9, <1>10, <1>11, <1>12

\* What an answer of the vehicle keeps of a write: the item it asks for is
\* then the only thing under way.
LEMMA AskedKeeps ==
  ASSUME TransferInv, GcsReceives, NEW m \in Answers, m \in Range(toGcs), Asked(m),
         ~late => Range(toGcs') = {} /\ \A x \in Range(toVehicle) : x.id = "MISSION_ACK",
         Range(toVehicle') \subseteq Range(toVehicle) \cup Range(sent')
  PROVE  (ReadMessages /\ ReadData /\ ReadOrder /\ Removals /\ Writes)'
<1>0. PICK item : item = ItemMessage(PlanType, m.seq, ItemOf(writeMissionItems[m.seq + 1]))
  OBVIOUS
<1>1. /\ SendingPlan /\ SendingPlan' /\ m.id = "MISSION_REQUEST_INT"
      /\ m.seq \in 0..(Len(writeMissionItems) - 1)
      /\ writeMissionItems' = writeMissionItems
      /\ itemIndicesToWrite' = itemIndicesToWrite \ {m.seq}
      /\ Range(sent') = {item}
      /\ UNCHANGED <<stored, failureMode, late>>
  BY <1>0 DEF Asked, GcsReceives, vehicleVars, Carry
<1>2. /\ item.id = "MISSION_ITEM_INT" /\ item.seq = m.seq
      /\ item.item = ItemOf(writeMissionItems[m.seq + 1])
  BY <1>0 DEF ItemMessage
<1>3. ReadMessages' /\ ReadData' /\ ReadOrder' /\ Removals'
  BY <1>1 DEF ReadMessages, ReadData, ReadOrder, Removals, Reading, SendingPlan
<1>4. Writes'
  <2> SUFFICES ASSUME Writing' PROVE Writes'
    BY DEF Writes
  <2>1. Writing /\ ~late
    BY <1>1 DEF Writing, SendingPlan
  <2>2. WriteProgress /\ AnswerUnderWay(m)
    BY <2>1 DEF TransferInv, Writes
  <2>3. HoldsOnly' /\ held' = held /\ NoFirst' = NoFirst
    BY <1>1, <2>2 DEF AnswerUnderWay, HoldsOnly, held, NoFirst
  <2>4. /\ NoFirst => m.seq # 0
        /\ ~NoFirst /\ 0 \in itemIndicesToWrite => m.seq = 0
        /\ ~NoFirst => Given \subseteq DOMAIN held
    BY <1>1, <2>2 DEF AnswerUnderWay
  <2>5. writeMissionItems # <<>>
    BY <1>1
  <2>6. NoFirst => 0 \in itemIndicesToWrite'
    BY <1>1, <2>2, <2>4, <2>5 DEF WriteProgress
  <2>7. ~NoFirst => 0 \notin itemIndicesToWrite'
    BY <1>1, <2>4
  <2>8. Given' \subseteq Given \cup {m.seq}
    BY <1>1 DEF Given
  <2>9. WriteProgress'
    BY <2>3, <2>6, <2>7 DEF WriteProgress
  <2>10. ItemUnderWay(item)'
    <3>1. /\ item.seq \in 0..(Len(writeMissionItems') - 1)
          /\ item.item = ItemOf(writeMissionItems'[item.seq + 1])
      BY <1>1, <1>2
    <3>2. ~NoFirst => Given' \subseteq DOMAIN held \cup {item.seq}
      BY <1>2, <2>4, <2>8
    <3> QED BY <1>1, <2>3, <2>7, <3>1, <3>2 DEF ItemUnderWay
  <2>11. \A x \in Range(toVehicle') : x.id = "MISSION_ACK" \/ x = item
    BY <1>1, <2>1
  <2> QED BY <1>2, <2>1, <2>9, <2>10, <2>11 DEF Writes
<1> QED BY <1>3, <1>4

\* What the ground station keeps when it receives a message.
LEMMA GcsKeeps ==
  ASSUME ConstantsAssumption, TransferInv, GcsReceives
  PROVE  TransferInv'
<1> DEFINE m == Head(toGcs)
<1>1. IInv /\ TransferTypes /\ OneUnderWay
  BY DEF TransferInv
<1>2. /\ toGcs # <<>> /\ MavlinkMessageReceived(m) /\ toGcs' = Tail(toGcs)
      /\ Carry(toVehicle, sent') /\ UNCHANGED <<invented, vehicleVars>>
      /\ late' = late /\ held' = held
  BY DEF GcsReceives, Carry, vehicleVars, held
<1>3. /\ m \in Answers /\ m \in Range(toGcs) /\ toGcs' \in Seq(Answers)
      /\ Range(toGcs') \subseteq Range(toGcs) /\ Len(toGcs') = Len(toGcs) - 1
  BY <1>1, <1>2, TailIs DEF TransferTypes
<1> HIDE DEF m
<1>4. AtMostOne(sent', Outbound)
  BY <1>1, <1>2, <1>3, MessageSends
<1>5. Range(toVehicle') \subseteq Range(toVehicle) \cup Range(sent')
  BY <1>1, <1>2, <1>4, Sends
<1>6. ~late => /\ inProgress /\ toGcs' = <<>> /\ Range(toGcs') = {}
               /\ \A i \in 1..Len(toVehicle) : IsAck(toVehicle[i])
               /\ \A x \in Range(toVehicle) : x.id = "MISSION_ACK"
  <2> SUFFICES ASSUME ~late
               PROVE  /\ inProgress /\ toGcs' = <<>> /\ Range(toGcs') = {}
                      /\ \A i \in 1..Len(toVehicle) : IsAck(toVehicle[i])
                      /\ \A x \in Range(toVehicle) : x.id = "MISSION_ACK"
    OBVIOUS
  <2>1. inProgress
    BY <1>1, <1>2 DEF OneUnderWay, Quiet
  <2>2. Len(toGcs) = 1 /\ \A i \in 1..Len(toVehicle) : IsAck(toVehicle[i])
    BY <1>1, <1>2 DEF OneUnderWay
  <2>3. toGcs' = <<>>
    BY <1>3, <2>2
  <2>4. \A x \in Range(toVehicle) : x.id = "MISSION_ACK"
    BY <1>1, <2>2, RangeIs DEF TransferTypes, IsAck
  <2> QED BY <2>1, <2>2, <2>3, <2>4, RangeIs
<1>7. IInv'
  BY <1>1, <1>2, <1>3, MessageKeepsInvariant
<1>8. TransferTypes'
  BY <1>1, <1>2, <1>3, <1>4, Sends DEF TransferTypes, vehicleVars
<1>9. inProgress => inProgress' \/ \A x \in Range(sent') : x.id = "MISSION_ACK"
  <2>1. AckMessage(PlanType, "ACCEPTED").id = "MISSION_ACK"
    BY DEF AckMessage
  <2>2. Ends => \A x \in Range(sent') : x.id = "MISSION_ACK"
    BY <2>1 DEF Ends
  <2>3. inProgress /\ (Unmoved \/ Announced(m) \/ Taken(m) \/ Asked(m)) => inProgress'
    BY DEF Unmoved, Announced, Taken, Asked, Reading, SendingPlan, inProgress
  <2> QED BY <1>1, <1>2, <1>3, <2>2, <2>3, MessageCases
<1>10. OneUnderWay'
  <2>1. CASE late
    BY <1>2, <2>1 DEF OneUnderWay
  <2>2. CASE ~late
    BY <1>1, <1>2, <1>4, <1>6, <1>9, <2>2, OneMoreUnderWay
  <2> QED BY <2>1, <2>2
<1>11. (ReadMessages /\ ReadData /\ ReadOrder /\ Removals /\ Writes)'
  <2>1. CASE Ends
    <3>1. (transactionInProgress = "TransactionNone")'
      BY <2>1 DEF Ends
    <3> QED BY <3>1, IdleKeeps
  <2>2. CASE Unmoved /\ sent' = <<>>
    <3>1. /\ UNCHANGED <<expectedAck, transactionInProgress, itemIndicesToRead,
                         missionItemCountToRead, missionItems, itemIndicesToWrite,
                         writeMissionItems, invented, stored, failureMode, late, toVehicle>>
      BY <1>1, <1>2, <1>4, <2>2, Sends DEF Unmoved, readVars, writeVars, vehicleVars
    <3>2. ReadMessages' /\ ReadData' /\ Removals'
      BY <1>3, <3>1 DEF TransferInv, ReadMessages, ReadData, Removals, Reading, OfVehicle, held
    <3>3. ReadOrder'
      BY <1>3, <3>1 DEF TransferInv, ReadOrder, Reading, Astray, NoItemZero, NoItemOne
    <3>4. Writes'
      BY <1>3, <3>1 DEF TransferInv, Writes, Writing, WriteProgress, CountUnderWay,
         ItemUnderWay, AnswerUnderWay, HoldsOnly, Given, NoFirst, held
    <3> QED BY <3>2, <3>3, <3>4
  <2>3. CASE Announced(m)
    BY <1>3, <1>5, <2>3, AnnouncedKeeps
  <2>4. CASE Taken(m)
    BY <1>3, <1>5, <2>4, TakenKeeps
  <2>5. CASE Asked(m)
    BY <1>3, <1>5, <1>6, <2>5, AskedKeeps
  <2> QED BY <1>1, <1>2, <1>3, <2>1, <2>2, <2>3, <2>4, <2>5, MessageCases
<1> QED BY <1>7, <1>8, <1>10, <1>11 DEF TransferInv

\* What the vehicle does, one message at a time.
LEMMA VehicleCases ==
  ASSUME ConstantsAssumption, TransferTypes, NEW m \in Outbound, Vehicle!HandleMessage(m)
  PROVE  /\ VehicleTypes
         /\ \/ /\ m.id \in {"MISSION_ACK", "MISSION_ITEM"}
               /\ stored' = stored /\ replies' = <<>>
            \/ /\ m.id = "MISSION_CLEAR_ALL" /\ held' = Vehicle!NoItems
               /\ \A r \in Range(replies') : r.id = "MISSION_ACK"
            \/ /\ m.id = "MISSION_REQUEST_LIST" /\ stored' = stored
               /\ \A r \in Range(replies') :
                    r.id = "MISSION_COUNT" /\ r.count = Cardinality(DOMAIN held)
            \/ /\ m.id = "MISSION_REQUEST_INT"
               /\ \A r \in Range(replies') : r.id = "MISSION_ACK" \/ ItemAnswers(m, r)
            \/ /\ m.id = "MISSION_COUNT" /\ held' = Vehicle!NoItems
               /\ \A r \in Range(replies') :
                    /\ FollowsUp(r)
                    /\ r.id = "MISSION_REQUEST_INT" =>
                         /\ NoFirst => r.seq # 0
                         /\ ~NoFirst => r.seq = 0
            \/ /\ m.id = "MISSION_ITEM_INT" /\ held' = Vehicle!Store(held, m.seq, m.item)
               /\ \A r \in Range(replies') :
                    FollowsUp(r) /\ (r.id = "MISSION_REQUEST_INT" /\ NoFirst => r.seq # 0)
<1>1. CASE Vehicle!HandleMissionClearAll(m)
  BY <1>1, ClearAllCase
<1>2. CASE Vehicle!HandleMissionRequestList(m)
  BY <1>2, RequestListCase
<1>3. CASE Vehicle!HandleMissionRequest(m)
  BY <1>3, RequestCase
<1>4. CASE Vehicle!HandleMissionCount(m)
  BY <1>4, CountCase
<1>5. CASE Vehicle!HandleMissionItem(m)
  BY <1>5, ItemCase
<1>6. CASE Vehicle!IgnoreMessage(m)
  BY <1>6, IgnoredCase DEF Vehicle!IgnoreMessage, Vehicle!NoReply
<1> QED BY <1>1, <1>2, <1>3, <1>4, <1>5, <1>6 DEF Vehicle!HandleMessage

\* The facts of a step of the vehicle that receives m.
VehicleStep(m) ==
  /\ TransferInv /\ VehicleReceives
  /\ m = Head(toVehicle) /\ m \in Outbound /\ m \in Range(toVehicle)
  /\ held \in Stores /\ held' \in Stores
  /\ Range(toVehicle') \subseteq Range(toVehicle)
  /\ Range(toGcs') \subseteq Range(toGcs) \cup Range(replies')
  /\ ~late /\ ~IsAck(m) => Range(toVehicle') = {} /\ Range(toGcs) = {}
  /\ UNCHANGED <<expectedAck, transactionInProgress, itemIndicesToRead,
                 missionItemCountToRead, missionItems, itemIndicesToWrite,
                 writeMissionItems, late, failureMode>>


LEMMA VehicleKeepsReads ==
  ASSUME ConstantsAssumption, NEW m, VehicleStep(m)
  PROVE  (ReadMessages /\ ReadData /\ ReadOrder)'
<1> SUFFICES ASSUME Reading
             PROVE  (ReadMessages /\ ReadData /\ ReadOrder)'
  BY DEF VehicleStep, ReadMessages, ReadData, ReadOrder, Reading
<1>1. /\ ReadMessages /\ ReadData /\ ReadOrder /\ IInv /\ TransferTypes
      /\ m \in Range(toVehicle) /\ m \in Outbound
      /\ Range(toVehicle') \subseteq Range(toVehicle)
      /\ Range(toGcs') \subseteq Range(toGcs) \cup Range(replies')
      /\ UNCHANGED <<expectedAck, transactionInProgress, itemIndicesToRead,
                     missionItemCountToRead, missionItems, failureMode>>
  BY DEF VehicleStep, TransferInv
<1>2. /\ m.id \in {"MISSION_REQUEST_LIST", "MISSION_REQUEST_INT", "MISSION_ACK"}
      /\ expectedAck = "AckMissionCount" => m.id # "MISSION_REQUEST_INT"
  BY <1>1 DEF ReadMessages
<1>3. /\ Vehicle!HandleMessage(m)
      /\ invented' = (invented \/ (m.id = "MISSION_REQUEST_INT" /\ stored' # stored))
  BY DEF VehicleStep, VehicleReceives
<1>4. expectedAck \in {"AckMissionCount", "AckMissionItem"}
  BY <1>1 DEF IInv, NeverStranded, Reading
<1>5. /\ m.id # "MISSION_REQUEST_INT" => stored' = stored
      /\ \A r \in Range(replies') :
           \/ m.id = "MISSION_REQUEST_LIST" /\ r.id = "MISSION_COUNT"
                /\ r.count = Cardinality(DOMAIN held)
           \/ m.id = "MISSION_REQUEST_INT" /\ (r.id = "MISSION_ACK" \/ ItemAnswers(m, r))
  <2>1. Range(<<>>) = {}
    BY RangeIs
  <2> QED BY <1>1, <1>2, <1>3, <2>1, VehicleCases
<1>6. ReadMessages'
  BY <1>1, <1>2, <1>4, <1>5 DEF ReadMessages, Reading, ItemAnswers
<1>7. ReadData'
  <2> SUFFICES ASSUME ~invented' PROVE ReadData'
    BY DEF ReadData
  <2>1. ~invented /\ stored' = stored /\ held' = held
    BY <1>3, <1>5 DEF held
  <2>2. \A r \in Range(replies') :
          /\ r.id = "MISSION_COUNT" => r.count = Cardinality(DOMAIN held)
          /\ r.id = "MISSION_ITEM_INT" => r.seq \in DOMAIN held /\ r.item = held[r.seq]
    BY <1>5, <2>1 DEF ItemAnswers
  <2> QED BY <1>1, <2>1, <2>2 DEF ReadData, OfVehicle, Reading
<1>8. ReadOrder'
  <2> SUFFICES ASSUME expectedAck = "AckMissionItem" PROVE ReadOrder'
    BY <1>1 DEF ReadOrder
  <2>1. UNCHANGED <<NoItemZero, NoItemOne, Astray>>
    BY <1>1 DEF NoItemZero, NoItemOne, Astray
  <2>2. \A r \in Range(replies') : r.id = "MISSION_ITEM_INT" => ItemAnswers(m, r)
    BY <1>5
  <2>3. m.id = "MISSION_REQUEST_INT" => m.seq \in Nat
    BY <1>1, OutboundType
  <2>4. \A r \in Range(replies') : r.id = "MISSION_ITEM_INT" =>
          (NoItemZero => r.seq # 0) /\ (NoItemOne => r.seq # 1)
    <3> TAKE r \in Range(replies')
    <3> HAVE r.id = "MISSION_ITEM_INT"
    <3>1. ItemAnswers(m, r) /\ m.seq \in Nat
      BY <1>5, <2>2, <2>3
    <3>2. NoItemZero => ~NoItemOne
      BY DEF NoItemZero, NoItemOne
    <3> QED BY <3>1, <3>2 DEF ItemAnswers
  <2>5. ASSUME ~Astray, NEW r \in Range(replies'), r.id = "MISSION_ITEM_INT"
        PROVE  r.seq <= Len(missionItems)
    <3>1. ItemAnswers(m, r) /\ m.seq \in Nat /\ m.id = "MISSION_REQUEST_INT"
      BY <1>5, <2>2, <2>3, <2>5
    <3>2. m.seq <= Len(missionItems)
      BY <1>1, <2>5, <3>1 DEF ReadOrder
    <3>3. ~NoItemZero /\ (NoItemOne => ~(missionItemCountToRead >= 2))
      BY <2>5 DEF Astray
    <3>4. /\ Len(missionItems) \in Nat /\ missionItemCountToRead \in Nat
          /\ Len(missionItems) < missionItemCountToRead
      BY <1>1, ReadFacts
    <3>5. NoItemOne => m.seq # 1
      BY <3>1, <3>2, <3>3, <3>4
    <3>6. r.seq = m.seq
      BY <3>1, <3>3, <3>5 DEF ItemAnswers
    <3> QED BY <3>2, <3>6
  <2> QED BY <1>1, <2>1, <2>4, <2>5 DEF ReadOrder
<1> QED BY <1>6, <1>7, <1>8

LEMMA VehicleKeepsRemovals ==
  ASSUME ConstantsAssumption, NEW m, VehicleStep(m)
  PROVE  Removals'
<1> SUFFICES ASSUME Removing PROVE Removals'
  BY DEF VehicleStep, Removals, Removing
<1>1. /\ Removals /\ TransferTypes /\ m \in Range(toVehicle) /\ m \in Outbound
      /\ Range(toVehicle') \subseteq Range(toVehicle)
      /\ Range(toGcs') \subseteq Range(toGcs) \cup Range(replies')
      /\ Vehicle!HandleMessage(m)
      /\ UNCHANGED transactionInProgress
  BY DEF VehicleStep, VehicleReceives, TransferInv
<1>2. m.id \in {"MISSION_CLEAR_ALL", "MISSION_ACK"}
  BY <1>1 DEF Removals, Removing
<1>3. Range(<<>>) = {}
  BY RangeIs
<1>4. \/ held' = Vehicle!NoItems /\ \A r \in Range(replies') : r.id = "MISSION_ACK"
      \/ held' = held /\ Range(replies') = {}
  <2>1. stored' = stored => held' = held
    BY DEF held
  <2> QED BY <1>1, <1>2, <1>3, <2>1, VehicleCases
<1>5. (Vehicle!NoItems)' = Vehicle!NoItems
  BY DEF Vehicle!NoItems
<1> QED BY <1>1, <1>4, <1>5 DEF Removals, Removing

\* While a plan is written, what is stored comes from it.
LEMMA VehicleKeepsWrites ==
  ASSUME ConstantsAssumption, NEW m, VehicleStep(m)
  PROVE  Writes'
<1> SUFFICES ASSUME Writing PROVE Writes'
  BY DEF VehicleStep, Writes, Writing
<1>1. /\ Writes /\ TransferTypes /\ IInv /\ m \in Range(toVehicle) /\ m \in Outbound
      /\ Range(toVehicle') \subseteq Range(toVehicle)
      /\ Range(toGcs') \subseteq Range(toGcs) \cup Range(replies')
      /\ Vehicle!HandleMessage(m)
      /\ ~IsAck(m) => Range(toVehicle') = {} /\ Range(toGcs) = {}
      /\ UNCHANGED <<expectedAck, transactionInProgress, itemIndicesToWrite,
                     writeMissionItems, late, failureMode>>
  BY DEF VehicleStep, VehicleReceives, TransferInv, Writing
<1>2. /\ m.id \in {"MISSION_COUNT", "MISSION_ITEM_INT", "MISSION_ACK"}
      /\ m.id = "MISSION_COUNT" => CountUnderWay(m)
      /\ m.id = "MISSION_ITEM_INT" => ItemUnderWay(m)
      /\ WriteProgress
  BY <1>1 DEF Writes
<1>3. /\ UNCHANGED <<NoFirst, Given>> /\ WriteProgress'
  BY <1>1, <1>2 DEF NoFirst, Given, WriteProgress
<1>4. CASE m.id = "MISSION_ACK"
  <2>1. stored' = stored /\ Range(replies') = {}
    BY <1>1, <1>4, RangeIs, VehicleCases
  <2> QED BY <1>1, <1>3, <2>1 DEF Writes, Writing, CountUnderWay, ItemUnderWay,
          AnswerUnderWay, HoldsOnly, held
<1>5. ASSUME m.id # "MISSION_ACK",
             HoldsOnly', ~NoFirst => Given \subseteq DOMAIN held',
             \A r \in Range(replies') :
               /\ FollowsUp(r)
               /\ r.id = "MISSION_REQUEST_INT" =>
                    /\ NoFirst => r.seq # 0
                    /\ ~NoFirst /\ 0 \in itemIndicesToWrite => r.seq = 0
      PROVE  Writes'
  <2>1. Range(toVehicle') = {} /\ Range(toGcs') \subseteq Range(replies')
    BY <1>1, <1>5 DEF IsAck
  <2>2. \A r \in Range(toGcs') : AnswerUnderWay(r)'
    BY <1>1, <1>3, <1>5, <2>1 DEF AnswerUnderWay, FollowsUp
  <2> QED BY <1>3, <2>1, <2>2 DEF Writes
<1>6. CASE m.id = "MISSION_COUNT"
  <2>1. /\ held' = Vehicle!NoItems
        /\ \A r \in Range(replies') :
             /\ FollowsUp(r)
             /\ r.id = "MISSION_REQUEST_INT" =>
                  /\ NoFirst => r.seq # 0
                  /\ ~NoFirst => r.seq = 0
    BY <1>1, <1>6, VehicleCases
  <2>2. DOMAIN held' = {}
    BY <2>1, NoItemsStored
  <2>3. HoldsOnly'
    BY <2>2 DEF HoldsOnly
  <2>4. ~NoFirst => Given \subseteq DOMAIN held'
    BY <1>2, <1>6 DEF CountUnderWay
  <2> QED BY <1>5, <1>6, <2>1, <2>3, <2>4
<1>7. CASE m.id = "MISSION_ITEM_INT"
  <2>1. /\ held' = Vehicle!Store(held, m.seq, m.item)
        /\ \A r \in Range(replies') :
             FollowsUp(r) /\ (r.id = "MISSION_REQUEST_INT" /\ NoFirst => r.seq # 0)
    BY <1>1, <1>7, VehicleCases
  <2>2. ItemUnderWay(m) /\ HoldsOnly
    BY <1>2, <1>7 DEF ItemUnderWay
  <2>3. held \in Stores /\ m.seq \in Nat /\ m.item \in Item
    BY <1>1, <1>7, OutboundType DEF VehicleStep
  <2>4. /\ DOMAIN held' = DOMAIN held \cup {m.seq} /\ held'[m.seq] = m.item
        /\ \A x \in DOMAIN held : x # m.seq => held'[x] = held[x]
    <3>1. DOMAIN Vehicle!Store(held, m.seq, m.item) = DOMAIN held \cup {m.seq}
      BY DEF Vehicle!Store
    <3>2. Vehicle!Store(held, m.seq, m.item)[m.seq] = m.item
      BY DEF Vehicle!Store
    <3>3. \A x \in DOMAIN held :
               x # m.seq => Vehicle!Store(held, m.seq, m.item)[x] = held[x]
      BY DEF Vehicle!Store
    <3> QED BY <2>1, <3>1, <3>2, <3>3
  <2>5. HoldsOnly'
    <3> SUFFICES ASSUME NEW k \in DOMAIN held'
                 PROVE  /\ k \in 0..(Len(writeMissionItems) - 1)
                        /\ held'[k] = ItemOf(writeMissionItems[k + 1])
      BY <1>1 DEF HoldsOnly
    <3>1. CASE k = m.seq
      BY <2>2, <2>4, <3>1 DEF ItemUnderWay
    <3>2. CASE k # m.seq
      BY <2>2, <2>4, <3>2 DEF HoldsOnly
    <3> QED BY <3>1, <3>2
  <2>6. ~NoFirst => Given \subseteq DOMAIN held' /\ 0 \notin itemIndicesToWrite
    BY <2>2, <2>4 DEF ItemUnderWay
  <2> QED BY <1>5, <1>7, <2>1, <2>5, <2>6
<1> QED BY <1>2, <1>4, <1>6, <1>7

\* What the vehicle keeps when it receives a message.
LEMMA VehicleKeeps ==
  ASSUME ConstantsAssumption, TransferInv, VehicleReceives
  PROVE  TransferInv'
<1> DEFINE m == Head(toVehicle)
<1>1. IInv /\ TransferTypes /\ OneUnderWay
  BY DEF TransferInv
<1>2. /\ toVehicle # <<>> /\ Vehicle!HandleMessage(m) /\ toVehicle' = Tail(toVehicle)
      /\ Carry(toGcs, replies') /\ UNCHANGED vars /\ late' = late
  BY DEF VehicleReceives, Carry
<1>3. /\ m \in Outbound /\ m \in Range(toVehicle) /\ m = toVehicle[1]
      /\ toVehicle' \in Seq(Outbound) /\ Len(toVehicle) \in Nat \ {0}
      /\ Len(toVehicle') = Len(toVehicle) - 1
      /\ \A i \in 1..Len(toVehicle') : toVehicle'[i] = toVehicle[i + 1]
      /\ Range(toVehicle') \subseteq Range(toVehicle)
  BY <1>1, <1>2, TailIs DEF TransferTypes
<1> HIDE DEF m
<1>4. VehicleTypes
  BY <1>1, <1>2, <1>3, VehicleCases
<1>5. /\ toGcs' \in Seq(Answers)
      /\ Range(toGcs') \subseteq Range(toGcs) \cup Range(replies')
      /\ Len(toGcs') \in {Len(toGcs), Len(toGcs) + 1}
      /\ replies' = <<>> => toGcs' = toGcs
  <2>1. /\ toGcs \in Seq(Answers) /\ AtMostOne(replies', Answers)
        /\ toGcs' = toGcs \o replies' \/ toGcs' = toGcs
    BY <1>1, <1>2, <1>4 DEF TransferTypes, Carry, VehicleTypes
  <2> QED BY <2>1, Carried
<1>6. IsAck(m) => replies' = <<>>
  BY <1>1, <1>2, <1>3, VehicleCases DEF IsAck
<1>7. ~late /\ ~IsAck(m) => toVehicle' = <<>> /\ toGcs = <<>>
  <2> SUFFICES ASSUME ~late, ~IsAck(m) PROVE toVehicle' = <<>> /\ toGcs = <<>>
    OBVIOUS
  <2>1. 1 \in 1..Len(toVehicle)
    BY <1>3
  <2>2. toGcs = <<>> /\ \A i \in 1..(Len(toVehicle) - 1) : IsAck(toVehicle[i])
    BY <1>1, <1>3, <2>1 DEF OneUnderWay
  <2>3. 1 \notin 1..(Len(toVehicle) - 1)
    BY <1>3, <2>2
  <2>4. Len(toVehicle') = 0
    BY <1>3, <2>3
  <2> QED BY <1>3, <2>2, <2>4
<1>8. VehicleStep(m)
  <2>1. held \in Stores /\ held' \in Stores
    BY <1>1, <1>4 DEF ConstantsAssumption, TransferTypes, VehicleTypes, held
  <2>2. m = Head(toVehicle)
    BY DEF m
  <2> QED BY <1>2, <1>3, <1>4, <1>5, <1>7, <2>1, <2>2, RangeIs
          DEF VehicleStep, VehicleTypes, vars, readVars, writeVars
<1>9. IInv'
  BY <1>1, <1>2, StutterKeepsInvariant DEF vars, IInv, TypeOK
<1>10. TransferTypes'
  BY <1>1, <1>3, <1>4, <1>5 DEF TransferTypes, VehicleTypes
<1>11. OneUnderWay'
  <2> SUFFICES ASSUME ~late
               PROVE  /\ \/ /\ toGcs' = <<>>
                            /\ \A i \in 1..(Len(toVehicle') - 1) : IsAck(toVehicle'[i])
                         \/ /\ Len(toGcs') = 1
                            /\ \A i \in 1..Len(toVehicle') : IsAck(toVehicle'[i])
                      /\ inProgress' \/ Quiet'
    BY <1>2 DEF OneUnderWay, IsAck
  <2>1. CASE IsAck(m)
    <3>1. toGcs' = toGcs
      BY <1>5, <1>6, <2>1
    <3>2. \A i \in 1..Len(toVehicle') : i + 1 \in 1..Len(toVehicle)
      BY <1>3
    <3>3. \A i \in 1..(Len(toVehicle') - 1) :
            i \in 1..Len(toVehicle') /\ i + 1 \in 1..(Len(toVehicle) - 1)
      BY <1>3
    <3>4. \/ /\ toGcs' = <<>>
             /\ \A i \in 1..(Len(toVehicle') - 1) : IsAck(toVehicle'[i])
          \/ /\ Len(toGcs') = 1
             /\ \A i \in 1..Len(toVehicle') : IsAck(toVehicle'[i])
      BY <1>1, <1>3, <3>1, <3>2, <3>3 DEF OneUnderWay
    <3>5. inProgress' = inProgress
      BY <1>2 DEF vars, inProgress
    <3>6. Quiet => Quiet'
      BY <1>3, <3>1, <3>2 DEF Quiet
    <3> QED BY <1>1, <3>4, <3>5, <3>6 DEF OneUnderWay
  <2>2. CASE ~IsAck(m)
    <3>1. toVehicle' = <<>> /\ toGcs = <<>>
      BY <1>7, <2>2
    <3>2. Len(toGcs') \in {0, 1} /\ (Len(toGcs') = 0 => toGcs' = <<>>)
      BY <1>5, <3>1
    <3>3. inProgress
      <4>1. ~Quiet
        BY <1>3, <2>2 DEF Quiet, IsAck
      <4> QED BY <1>1, <4>1 DEF OneUnderWay
    <3>4. inProgress'
      BY <1>2, <3>3 DEF vars, inProgress
    <3> QED BY <3>1, <3>2, <3>4
  <2> QED BY <2>1, <2>2
<1> QED BY <1>8, <1>9, <1>10, <1>11, VehicleKeepsReads, VehicleKeepsRemovals,
        VehicleKeepsWrites DEF TransferInv

LEMMA TransferInvariantStep ==
  ASSUME ConstantsAssumption, TransferInv, [TransferNext]_transferVars
  PROVE  TransferInv'
<1>1. CASE Call
  BY <1>1, CallKeeps
<1>2. CASE GcsReceives
  BY <1>2, GcsKeeps
<1>3. CASE VehicleReceives
  BY <1>3, VehicleKeeps
<1>4. CASE Timeout
  BY <1>4, TimeoutKeeps
<1>5. CASE UNCHANGED transferVars
  <2>1. IInv'
    BY <1>5, StutterKeepsInvariant DEF TransferInv, transferVars, vars, IInv, TypeOK
  <2>2. (TransferTypes /\ OneUnderWay)'
    BY <1>5 DEF TransferInv, transferVars, vars, vehicleVars, linkVars, TransferTypes,
       OneUnderWay, Quiet, inProgress
  <2>3. (ReadMessages /\ ReadData /\ ReadOrder /\ Removals /\ Writes)'
    BY <1>5 DEF TransferInv, transferVars, vars, readVars, writeVars, vehicleVars, linkVars,
       ReadMessages, ReadData, ReadOrder, Removals, Writes, Writing, Reading, OfVehicle,
       Astray, NoItemZero, NoItemOne, WriteProgress, CountUnderWay, ItemUnderWay,
       AnswerUnderWay, HoldsOnly, Given, NoFirst, held
  <2> QED BY <2>1, <2>2, <2>3 DEF TransferInv
<1> QED BY <1>1, <1>2, <1>3, <1>4, <1>5 DEF TransferNext

\* The invariant holds in every state the two programs reach.
THEOREM TransferInvariance == TransferSpec => []TransferInv
<1>1. TransferInit => TransferInv
  BY TransferInvariantInit, ConstantsAssumption, TransferAssumption
<1>2. TransferInv /\ [TransferNext]_transferVars => TransferInv'
  BY TransferInvariantStep, ConstantsAssumption
<1>3. TransferSpec => TransferInit /\ [][TransferNext]_transferVars
  BY DEF TransferSpec
<1> HIDE DEF TransferSpec
<1> QED BY <1>1, <1>2, <1>3, PTL

-----------------------------------------------------------------------------
(* What a transaction that is reported to have succeeded has done.         *)

\* Only a message ends a transaction well.
LEMMA SuccessIsAnswered ==
  ASSUME ConstantsAssumption, TransferInv, TransferNext, NEW signal, signal # "none",
         Succeeds(signal)
  PROVE  \E m \in Range(toGcs) :
           /\ ReadsNothing(m) \/ ReadsLast(m) \/ IsAcknowledged(m)
           /\ m.id = "MISSION_ITEM_INT" => m.seq \in Nat
<1>1. inProgress /\ ~inProgress' /\ ~outcome'.error /\ IInv /\ TransferTypes
  BY DEF Succeeds, inProgress, TransferInv
<1>2. ~Call
  BY <1>1, CallCases DEF Call
<1>3. ~VehicleReceives
  BY <1>1 DEF VehicleReceives, vars, inProgress
<1>4. ~Timeout
  <2>1. Unmoved => inProgress'
    BY <1>1 DEF Unmoved, inProgress
  <2> QED BY <1>1, <2>1, TimeoutCases DEF Timeout
<1>5. GcsReceives
  BY <1>2, <1>3, <1>4 DEF TransferNext
<1>6. PICK m \in Range(toGcs) : m \in Answers /\ MavlinkMessageReceived(m)
  BY <1>1, <1>5, TailIs DEF GcsReceives, TransferTypes
<1>7. ~(Unmoved \/ Announced(m) \/ Taken(m) \/ Asked(m))
  BY <1>1 DEF Unmoved, Announced, Taken, Asked, Reading, SendingPlan, inProgress
<1> QED BY <1>1, <1>6, <1>7, MessageCases, MessageType

\* A write or a removal that is reported done is done.
LEMMA DoneStep ==
  ASSUME ConstantsAssumption, TransferInv, TransferNext
  PROVE  /\ Succeeds("sendComplete") /\ ~late => VehicleHolds(writeMissionItems)
         /\ Succeeds("removeAllComplete") => stored[PlanType] = Vehicle!NoItems
<1>1. ASSUME Succeeds("sendComplete"), ~late
      PROVE  VehicleHolds(writeMissionItems)
  <2>1. PICK m \in Range(toGcs) :
               ReadsNothing(m) \/ ReadsLast(m) \/ IsAcknowledged(m)
    BY <1>1, SuccessIsAnswered
  <2>2. /\ m.id = "MISSION_ACK" /\ SendingPlan /\ itemIndicesToWrite = {}
    BY <1>1, <2>1 DEF Succeeds, ReadsNothing, ReadsLast, IsAcknowledged
  <2>3. WriteProgress /\ AnswerUnderWay(m)
    BY <1>1, <2>2 DEF TransferInv, Writes, Writing, SendingPlan
  <2>4. Len(writeMissionItems) \in Nat /\ \A k \in 1..Len(writeMissionItems) : writeMissionItems[k].seq = k - 1
    BY DEF TransferInv, IInv, TypeOK, WriteAccounting
  <2>5. HoldsOnly
    BY <2>3 DEF AnswerUnderWay
  <2>6. DOMAIN held = 0..(Len(writeMissionItems) - 1)
    <3>1. DOMAIN held \subseteq 0..(Len(writeMissionItems) - 1)
      BY <2>5 DEF HoldsOnly
    <3>2. CASE NoFirst
      <4>1. writeMissionItems = <<>>
        BY <2>2, <2>3, <3>2 DEF WriteProgress
      <4>2. 0..(Len(writeMissionItems) - 1) = {}
        BY <4>1
      <4> QED BY <3>1, <4>2
    <3>3. CASE ~NoFirst
      <4>1. 0..(Len(writeMissionItems) - 1) \subseteq DOMAIN held
        BY <2>2, <2>3, <3>3 DEF AnswerUnderWay, Given
      <4> QED BY <3>1, <4>1
    <3> QED BY <3>2, <3>3
  <2>7. \A k \in 1..Len(writeMissionItems) :
          stored[PlanType][k - 1] = ItemOf(writeMissionItems[k])
    <3> TAKE k \in 1..Len(writeMissionItems)
    <3>1. k - 1 \in 0..(Len(writeMissionItems) - 1) /\ (k - 1) + 1 = k
      BY <2>4
    <3>2. held[k - 1] = ItemOf(writeMissionItems[(k - 1) + 1])
      BY <2>5, <2>6, <3>1 DEF HoldsOnly
    <3> QED BY <3>1, <3>2 DEF held
  <2> QED BY <2>4, <2>6, <2>7 DEF VehicleHolds, held
<1>2. ASSUME Succeeds("removeAllComplete")
      PROVE  stored[PlanType] = Vehicle!NoItems
  <2>1. PICK m \in Range(toGcs) :
               ReadsNothing(m) \/ ReadsLast(m) \/ IsAcknowledged(m)
    BY <1>2, SuccessIsAnswered
  <2>2. Removing
    BY <1>2, <2>1 DEF Succeeds, ReadsNothing, ReadsLast, IsAcknowledged
  <2> QED BY <2>2 DEF TransferInv, Removals, Removing, held
<1> QED BY <1>1, <1>2

\* A plan that is reported read is the vehicle's.
LEMMA ReadStep ==
  ASSUME ConstantsAssumption, TransferInv, TransferNext,
         Succeeds("newMissionItemsAvailable"), ~invented
  PROVE  PlanRead(missionItems')
<1>1. PICK m \in Range(toGcs) :
             /\ ReadsNothing(m) \/ ReadsLast(m) \/ IsAcknowledged(m)
             /\ m.id = "MISSION_ITEM_INT" => m.seq \in Nat
  BY SuccessIsAnswered
<1>2. ReadsNothing(m) \/ ReadsLast(m)
  BY <1>1 DEF Succeeds, IsAcknowledged
<1>3. /\ Reading /\ ReadData /\ ReadOrder /\ IInv
  BY <1>2 DEF ReadsNothing, ReadsLast, TransferInv
<1>4. CASE ReadsNothing(m)
  <2>1. Cardinality(DOMAIN held) = 0 /\ missionItems' = <<>>
    BY <1>3, <1>4 DEF ReadData, ReadsNothing
  <2> QED BY <2>1 DEF PlanRead, held
<1>5. CASE ReadsLast(m)
  <2> DEFINE entry == Entry(m.seq, FromVehicle(m.item))
  <2>1. /\ m.id = "MISSION_ITEM_INT" /\ m.seq \in Nat /\ m.item \in Item
        /\ expectedAck = "AckMissionItem" /\ itemIndicesToRead = {m.seq}
        /\ missionItems' = Append(missionItems, entry)
    BY <1>1, <1>5 DEF ReadsLast
  <2>2. /\ Len(missionItems) \in Nat /\ missionItemCountToRead \in Nat
        /\ Len(missionItems) < missionItemCountToRead
        /\ missionItems \in Seq(MissionItem)
    BY <1>3, <2>1, ReadFacts DEF IInv, TypeOK
  <2>3. ~Astray
    BY <1>3, <2>1 DEF ReadOrder, Astray
  <2>4. /\ \A k \in 1..Len(missionItems) : missionItems[k].seq = k - 1
        /\ {m.seq} = Len(missionItems)..(missionItemCountToRead - 1)
    BY <1>3, <2>1, <2>3 DEF ReadOrder
  <2>5. m.seq = Len(missionItems) /\ missionItemCountToRead = Len(missionItems) + 1
    <3>1. /\ Len(missionItems) \in {m.seq}
          /\ missionItemCountToRead - 1 \in {m.seq}
      BY <2>2, <2>4
    <3> QED BY <2>1, <2>2, <3>1
  <2>6. entry \in MissionItem
    BY <2>1, EntryType, ConvertedItem
  <2>7. OfVehicle(entry) /\ entry.seq = m.seq
    <3>1. m.seq \in DOMAIN held /\ m.item = held[m.seq]
      BY <1>3, <2>1 DEF ReadData
    <3>2. entry.seq = m.seq
      BY DEF Entry
    <3> QED BY <3>1, <3>2 DEF OfVehicle
  <2> HIDE DEF entry
  <2>8. /\ Len(missionItems') = Len(missionItems) + 1
        /\ \A k \in 1..Len(missionItems) : missionItems'[k] = missionItems[k]
        /\ missionItems'[Len(missionItems) + 1] = entry
    BY <2>1, <2>2, <2>6
  <2>9. Cardinality(DOMAIN held) = Len(missionItems')
    BY <1>3, <2>1, <2>5, <2>8 DEF ReadData
  <2>10. ASSUME NEW k \in 1..Len(missionItems')
         PROVE  OfVehicle(missionItems'[k]) /\ missionItems'[k].seq = k - 1
    <3>1. CASE k = Len(missionItems) + 1
      BY <2>2, <2>5, <2>7, <2>8, <3>1
    <3>2. CASE k # Len(missionItems) + 1
      <4>1. k \in 1..Len(missionItems)
        BY <2>2, <2>8, <3>2
      <4> QED BY <1>3, <2>4, <2>8, <4>1 DEF ReadData
    <3> QED BY <3>1, <3>2
  <2> QED BY <2>9, <2>10 DEF PlanRead, OfVehicle, held
<1> QED BY <1>2, <1>4, <1>5

\* A write that is reported to have succeeded has left exactly the plan that
\* was written in the vehicle, and a removal none, whatever is lost and in
\* every failure mode (sendComplete and removeAllComplete).
THEOREM ReportedIsDoneHolds == TransferSpec => ReportedIsDone
<1>1. TransferInv /\ [TransferNext]_transferVars =>
        [/\ Succeeds("sendComplete") /\ ~late => VehicleHolds(writeMissionItems)
         /\ Succeeds("removeAllComplete") => stored[PlanType] = Vehicle!NoItems]_transferVars
  BY DoneStep, ConstantsAssumption
<1>2. TransferSpec => [][TransferNext]_transferVars
  BY DEF TransferSpec
<1> HIDE DEF TransferSpec
<1> QED BY <1>1, <1>2, TransferInvariance, PTL DEF ReportedIsDone

\* A read that is reported to have succeeded has brought the plan the vehicle
\* holds, whatever is lost, late or sent twice, unless the vehicle invented an
\* item on the way (newMissionItemsAvailable).
THEOREM ReadPlanIsTheVehiclesHolds == TransferSpec => ReadPlanIsTheVehicles
<1>1. TransferInv /\ [TransferNext]_transferVars =>
        [Succeeds("newMissionItemsAvailable") /\ ~invented =>
           PlanRead(missionItems')]_transferVars
  BY ReadStep, ConstantsAssumption
<1>2. TransferSpec => [][TransferNext]_transferVars
  BY DEF TransferSpec
<1> HIDE DEF TransferSpec
<1> QED BY <1>1, <1>2, TransferInvariance, PTL DEF ReadPlanIsTheVehicles

-----------------------------------------------------------------------------
(* How transactions end on a link that loses nothing: the invariant.       *)

Prompt == losses = 0 /\ ~late

\* What is under way to the vehicle and will be answered, if anything is.
Pending == {m \in Range(toVehicle) : ~IsAck(m)}

\* The modes that fail once ignore a first question and answer the second.
Again(mode) == failureMode = mode => retryCount = 0 \/ mode \notin failFirst
FailedOnce(mode) == failureMode = mode /\ retryCount = 0 /\ mode \notin failFirst

\* The vehicle knows the type of the plan before it is asked for an item, and
\* says it in every answer.
TypeKnown ==
  /\ \A r \in Range(toGcs) : r.type = PlanType
  /\ requestType # PlanType =>
       /\ toGcs = <<>>
       /\ \A m \in Range(toVehicle) : m.id \notin {"MISSION_REQUEST_INT", "MISSION_ITEM_INT"}
       /\ Reading => expectedAck # "AckMissionItem"

\* A guided item is all there is to receive while it waits to be acknowledged.
GuidedUnderWay ==
  transactionInProgress = "TransactionWrite" /\ expectedAck = "AckGuidedItem" =>
    /\ toGcs = <<>>
    /\ \A m \in Range(toVehicle) : m.id \in {"MISSION_ITEM", "MISSION_ACK"}

\* A write fails because the vehicle never asks for one of the items,
Denied(d) ==
  \/ /\ d = 0
     /\ failureMode \in {"FailWriteMissionCountNoResponse",
                         "FailWriteRequest0IncorrectSequence",
                         "FailWriteRequest0ErrorAck"}
  \/ /\ d = 1
     /\ failureMode \in {"FailWriteRequest1NoResponse",
                         "FailWriteRequest1IncorrectSequence",
                         "FailWriteRequest1ErrorAck"}
  \/ d = 3 /\ failureMode = "FailWriteFinalAckMissingRequests"

\* or never says that it has them all.
NeverTold == failureMode \in {"FailWriteFinalAckNoResponse", "FailWriteFinalAckErrorAck"}

WriteFails ==
  Writing =>
    /\ \A d \in 0..(Len(writeMissionItems) - 1) : Denied(d) => d \in itemIndicesToWrite
    /\ \A r \in Range(toGcs) :
         /\ r.id = "MISSION_REQUEST_INT" => ~Denied(r.seq)
         /\ r.id = "MISSION_ACK" /\ NeverTold =>
              r.result = "ERROR" \/ writeMissionItems = <<>>

\* A read fails because the vehicle does not announce its plan or never sends
\* one of the items,
Withheld(d) ==
  \/ /\ d = 0
     /\ failureMode \in {"FailReadRequest0NoResponse", "FailReadRequest0IncorrectSequence",
                         "FailReadRequest0ErrorAck"}
  \/ /\ d = 1
     /\ failureMode \in {"FailReadRequest1NoResponse", "FailReadRequest1IncorrectSequence",
                         "FailReadRequest1ErrorAck"}

ReadFails ==
  Reading =>
    /\ expectedAck = "AckMissionCount" => ~invented
    /\ failureMode = "FailReadRequestListNoResponse" =>
         expectedAck = "AckMissionCount" /\ toGcs = <<>>
    /\ expectedAck = "AckMissionItem" =>
         \A d \in 0..(missionItemCountToRead - 1) : Withheld(d) => d \in itemIndicesToRead
    /\ \A r \in Range(toGcs) : r.id = "MISSION_ITEM_INT" => ~Withheld(r.seq)

\* the second of them only if it has a second: one of two items or more is
\* announced as such, because the plan has no holes.
InOrder == \E k \in Nat : DOMAIN held = 0..(k - 1)

SecondIsThere ==
  Prompt /\ Withheld(1) =>
    /\ InOrder
    /\ Reading /\ expectedAck = "AckMissionItem" =>
         /\ 0..(missionItemCountToRead - 1) \subseteq DOMAIN held
         /\ missionItemCountToRead = 1 => DOMAIN held = {0}
         /\ \A m \in Range(toVehicle) :
              m.id = "MISSION_REQUEST_INT" => m.seq \in 0..(missionItemCountToRead - 1)

\* In all other modes one message is always under way, except after the one
\* question that a mode ignores.
RemovalProgress ==
  Prompt /\ Removing =>
    \/ Pending = {ClearAllMessage(PlanType)} /\ toGcs = <<>>
    \/ Pending = {} /\ toGcs = <<AckMessage(PlanType, "ACCEPTED")>>

CountProgress ==
  \/ /\ Pending = {RequestListMessage(PlanType)} /\ toGcs = <<>>
     /\ Again("FailReadRequestListFirstResponse")
  \/ Pending = {} /\ \E c \in Nat : toGcs = <<CountMessage(PlanType, c)>>
  \/ Pending = {} /\ toGcs = <<>> /\ FailedOnce("FailReadRequestListFirstResponse")

ItemProgress ==
  \/ /\ \E s \in itemIndicesToRead : Pending = {RequestMessage(PlanType, s)}
     /\ toGcs = <<>> /\ Again("FailReadRequest1FirstResponse")
  \/ /\ Pending = {}
     /\ \E s \in itemIndicesToRead, i \in Item : toGcs = <<ItemMessage(PlanType, s, i)>>
  \/ Pending = {} /\ toGcs = <<>> /\ FailedOnce("FailReadRequest1FirstResponse")

ReadProgress ==
  Prompt /\ Reading /\ failureMode \notin FailsRead =>
    /\ expectedAck = "AckMissionCount" => CountProgress
    /\ expectedAck = "AckMissionItem" => ItemProgress

\* The items before the one that is asked for or sent are stored.
InSequence(first) ==
  /\ writeSequenceCount = Len(writeMissionItems)
  /\ writeSequenceIndex \in 0..(Len(writeMissionItems) - 1)
  /\ DOMAIN held = 0..(writeSequenceIndex - 1)
  /\ itemIndicesToWrite = first..(Len(writeMissionItems) - 1)

SendProgress ==
  Prompt /\ SendingPlan /\ failureMode \notin FailsWrite =>
    \/ /\ Pending = {CountMessage(PlanType, Len(writeMissionItems))} /\ toGcs = <<>>
       /\ itemIndicesToWrite = 0..(Len(writeMissionItems) - 1)
       /\ Again("FailWriteMissionCountFirstResponse")
    \/ /\ Pending = {} /\ toGcs = <<>> /\ 0 \in itemIndicesToWrite
       /\ itemIndicesToWrite = 0..(Len(writeMissionItems) - 1)
       /\ FailedOnce("FailWriteMissionCountFirstResponse")
    \/ /\ Pending = {} /\ toGcs = <<RequestMessage(PlanType, writeSequenceIndex)>>
       /\ InSequence(writeSequenceIndex)
    \/ /\ \E i \in Item : Pending = {ItemMessage(PlanType, writeSequenceIndex, i)}
       /\ toGcs = <<>> /\ InSequence(writeSequenceIndex + 1)
    \/ /\ Pending = {} /\ toGcs = <<AckMessage(PlanType, "ACCEPTED")>>
       /\ itemIndicesToWrite = {}

OutcomeInv ==
  /\ TransferInv /\ losses \in Nat /\ TypeKnown /\ GuidedUnderWay
  /\ WriteFails /\ ReadFails /\ SecondIsThere
  /\ RemovalProgress /\ ReadProgress /\ SendProgress

-----------------------------------------------------------------------------
(* The link when it loses nothing.                                         *)

\* What is in a queue that nothing was lost of.
LEMMA Joined ==
  ASSUME NEW S, NEW q \in Seq(S), NEW messages, AtMostOne(messages, S)
  PROVE  Range(q \o messages) = Range(q) \cup Range(messages)
<1>1. CASE messages = <<>>
  BY <1>1, RangeIs
<1>2. ASSUME NEW m \in S, messages = <<m>>
      PROVE  Range(q \o messages) = Range(q) \cup Range(messages)
  <2> DEFINE r == q \o messages
  <2>1. /\ r \in Seq(S) /\ Len(r) = Len(q) + 1 /\ Len(q) \in Nat
        /\ \A i \in 1..Len(q) : r[i] = q[i]
        /\ r[Len(q) + 1] = m
    BY <1>2
  <2> HIDE DEF r
  <2>2. Range(messages) = {m}
    BY <1>2, RangeIs
  <2>3. \A i \in 1..Len(r) : i \in 1..Len(q) \/ i = Len(q) + 1
    BY <2>1
  <2>4. \A i \in 1..Len(q) : i \in 1..Len(r)
    BY <2>1
  <2>5. Len(q) + 1 \in 1..Len(r)
    BY <2>1
  <2>6. Range(q) = {q[i] : i \in 1..Len(q)} /\ Range(r) = {r[i] : i \in 1..Len(r)}
    BY <2>1, RangeIs
  <2>7. Range(r) = Range(q) \cup {m}
    <3>1. \A x \in Range(r) : x \in Range(q) \cup {m}
      BY <2>1, <2>3, <2>6
    <3>2. \A x \in Range(q) : x \in Range(r)
      BY <2>1, <2>4, <2>6
    <3>3. m \in Range(r)
      BY <2>1, <2>5, <2>6
    <3> QED BY <3>1, <3>2, <3>3
  <2> QED BY <2>2, <2>7 DEF r
<1> QED BY <1>1, <1>2 DEF AtMostOne

\* What the manager sends is what is under way, if nothing was.
LEMMA PromptSends ==
  ASSUME TransferTypes, losses \in Nat, AtMostOne(sent', Outbound),
         Carry(toVehicle, sent'), Prompt', Pending = {}
  PROVE  Prompt /\ Pending' = {x \in Range(sent') : ~IsAck(x)}
<1>1. /\ losses' = 0 /\ ~late' /\ late' = late
      /\ \/ toVehicle' = toVehicle \o sent' /\ losses' = losses
         \/ losses' = losses + 1
  BY DEF Carry, Prompt
<1>2. Prompt /\ toVehicle' = toVehicle \o sent'
  BY <1>1 DEF Prompt
<1>3. Range(toVehicle') = Range(toVehicle) \cup Range(sent')
  BY <1>2, Joined DEF TransferTypes
<1>4. \A x \in Range(toVehicle) : IsAck(x)
  BY DEF Pending
<1> QED BY <1>2, <1>3, <1>4 DEF Pending

\* The manager steps when nothing is asked.
LEMMA NothingAsked ==
  ASSUME TransferInv, Call \/ Timeout \/ GcsReceives, ~late
  PROVE  /\ Pending = {} /\ toGcs' = <<>>
         /\ GcsReceives => toGcs = <<Head(toGcs)>> /\ Head(toGcs) \in Answers
         /\ Call \/ Timeout => toGcs = <<>>
<1>1. IInv /\ TransferTypes /\ OneUnderWay
  BY DEF TransferInv
<1>2. CASE Call \/ Timeout
  <2>1. Quiet
    <3>1. Call => ~inProgress
      BY <1>1, CallCases DEF Call
    <3> QED BY <1>1, <1>2, <3>1 DEF OneUnderWay, Timeout
  <2>2. toGcs = <<>> /\ toGcs' = <<>> /\ Pending = {}
    BY <1>1, <1>2, <2>1, QuietIs DEF Call, Timeout, Pending, IsAck
  <2> QED BY <2>2 DEF GcsReceives
<1>3. CASE GcsReceives
  <2>1. toGcs # <<>> /\ toGcs' = Tail(toGcs) /\ toGcs \in Seq(Answers)
    BY <1>1, <1>3 DEF GcsReceives, TransferTypes
  <2>2. Len(toGcs) = 1 /\ \A i \in 1..Len(toVehicle) : IsAck(toVehicle[i])
    BY <1>1, <2>1 DEF OneUnderWay
  <2>3. toGcs = <<Head(toGcs)>> /\ toGcs' = <<>> /\ Head(toGcs) \in Answers
    BY <2>1, <2>2
  <2>4. Pending = {}
    BY <1>1, <2>2, RangeIs DEF Pending, TransferTypes
  <2>5. ~(Call \/ Timeout)
    <3>1. Call \/ Timeout => toGcs' = toGcs
      BY DEF Call, Timeout
    <3> QED BY <2>1, <2>3, <3>1
  <2> QED BY <2>3, <2>4, <2>5
<1> QED BY <1>2, <1>3

\* What it sends is then the only thing that is.
LEMMA PromptManager ==
  ASSUME OutcomeInv, Call \/ Timeout \/ GcsReceives, Prompt'
  PROVE  Prompt /\ Pending' = {x \in Range(sent') : ~IsAck(x)}
<1>1. IInv /\ TransferTypes /\ TransferInv /\ losses \in Nat
  BY DEF OutcomeInv, TransferInv
<1>2. Carry(toVehicle, sent') /\ ~late
  BY DEF Call, Timeout, GcsReceives, Carry, Prompt
<1>3. AtMostOne(sent', Outbound)
  <2>1. GcsReceives => Head(toGcs) \in Answers
    BY <1>1, TailIs DEF GcsReceives, TransferTypes
  <2> QED BY <1>1, <2>1, CallSends, TimeoutSends, MessageSends DEF Call, Timeout, GcsReceives
<1>4. Pending = {}
  BY <1>1, <1>2, NothingAsked
<1> QED BY <1>1, <1>2, <1>3, <1>4, PromptSends

\* The vehicle receives the question that is under way, or an ack, which it
\* ignores.
LEMMA PromptVehicle ==
  ASSUME ConstantsAssumption, OutcomeInv, VehicleReceives, Prompt'
  PROVE  LET m == Head(toVehicle)
         IN  /\ Prompt /\ m \in Outbound /\ Vehicle!HandleMessage(m)
             /\ \/ /\ IsAck(m) /\ Pending' = Pending /\ toGcs' = toGcs
                   /\ Vehicle!IgnoreMessage(m)
                \/ /\ ~IsAck(m) /\ Pending = {m} /\ toGcs = <<>>
                   /\ Pending' = {} /\ toGcs' = replies'
<1> DEFINE m == Head(toVehicle)
<1>1. IInv /\ TransferTypes /\ OneUnderWay /\ losses \in Nat
  BY DEF OutcomeInv, TransferInv
<1>2. /\ toVehicle # <<>> /\ Vehicle!HandleMessage(m) /\ toVehicle' = Tail(toVehicle)
      /\ Carry(toGcs, replies') /\ UNCHANGED vars /\ ~late
  BY DEF VehicleReceives, Carry, Prompt
<1>3. /\ m \in Outbound /\ m \in Range(toVehicle) /\ m = toVehicle[1]
      /\ toVehicle' \in Seq(Outbound) /\ Len(toVehicle) \in Nat \ {0}
      /\ Len(toVehicle') = Len(toVehicle) - 1
      /\ \A i \in 1..Len(toVehicle') : toVehicle'[i] = toVehicle[i + 1]
      /\ Range(toVehicle') \subseteq Range(toVehicle)
  BY <1>1, <1>2, TailIs DEF TransferTypes
<1>4. Prompt /\ toGcs' = toGcs \o replies'
  BY <1>1, <1>2 DEF Carry, Prompt
<1> HIDE DEF m
<1>5. AtMostOne(replies', Answers)
  BY <1>1, <1>2, <1>3, VehicleCases DEF VehicleTypes
<1>6. CASE IsAck(m)
  <2>1. Vehicle!IgnoreMessage(m) /\ replies' = <<>>
    BY <1>2, <1>6 DEF IsAck, Vehicle!HandleMessage, Vehicle!HandleMissionClearAll,
       Vehicle!HandleMissionRequestList, Vehicle!HandleMissionRequest,
       Vehicle!HandleMissionCount, Vehicle!HandleMissionItem, Vehicle!IgnoreMessage,
       Vehicle!NoReply
  <2>2. toGcs' = toGcs
    BY <1>1, <1>4, <2>1 DEF TransferTypes
  <2>3. Pending' = Pending
    <3>1. \A x \in Range(toVehicle) : x = m \/ x \in Range(toVehicle')
      <4> SUFFICES ASSUME NEW i \in 1..Len(toVehicle), i # 1
                   PROVE  toVehicle[i] \in Range(toVehicle')
        BY <1>1, <1>3, RangeIs DEF TransferTypes
      <4>1. i - 1 \in 1..Len(toVehicle') /\ (i - 1) + 1 = i
        BY <1>3
      <4>2. toVehicle'[i - 1] = toVehicle[i]
        BY <1>3, <4>1
      <4>3. toVehicle'[i - 1] \in Range(toVehicle')
        BY <1>3, <4>1, RangeIs
      <4> QED BY <4>2, <4>3
    <3> QED BY <1>3, <1>6, <3>1 DEF Pending
  <2> QED BY <1>2, <1>3, <1>4, <1>6, <2>1, <2>2, <2>3 DEF m
<1>7. CASE ~IsAck(m)
  <2>1. 1 \in 1..Len(toVehicle)
    BY <1>3
  <2>2. toGcs = <<>> /\ \A i \in 1..(Len(toVehicle) - 1) : IsAck(toVehicle[i])
    BY <1>1, <1>2, <1>3, <1>7, <2>1 DEF OneUnderWay
  <2>3. Len(toVehicle) = 1
    BY <1>3, <1>7, <2>2
  <2>4. toVehicle' = <<>> /\ Range(toVehicle) = {m}
    <3>1. Len(toVehicle') = 0
      BY <1>3, <2>3
    <3>2. \A i \in 1..Len(toVehicle) : toVehicle[i] = m
      BY <1>3, <2>3
    <3> QED BY <1>1, <1>3, <3>1, <3>2, RangeIs DEF TransferTypes
  <2>5. Pending = {m} /\ Pending' = {}
    BY <1>7, <2>4, RangeIs DEF Pending
  <2>6. toGcs' = replies'
    BY <1>4, <1>5, <2>2 DEF AtMostOne
  <2> QED BY <1>2, <1>3, <1>4, <1>7, <2>2, <2>5, <2>6 DEF m
<1> QED BY <1>6, <1>7

-----------------------------------------------------------------------------
(* What counts for how a transaction ends, of the manager's steps.         *)

\* A transaction starts without retries behind it.
LEMMA CallCounts ==
  ASSUME ApplicationCall
  PROVE  retryCount' = 0 \/ expectedAck' = "AckGuidedItem"
BY DEF ApplicationCall, LoadFromVehicle, WriteMissionItems, WriteMissionItemsWorker,
       RemoveAll, GenerateResumeMission, WriteArduPilotGuidedMissionItem, StartAckTimeout

\* The timer ends it when the retries are used up, or at once.
LEMMA TimeoutCounts ==
  ASSUME AckTimeout
  PROVE  \/ /\ transactionInProgress' = "TransactionNone"
            /\ \/ RetriesExhausted
               \/ expectedAck = "AckMissionRequest" /\ 0 \notin itemIndicesToWrite
               \/ expectedAck = "AckGuidedItem"
         \/ /\ transactionInProgress' = transactionInProgress
            /\ retryCount' = retryCount + 1
<1>1. CASE TimeoutWaitingForCount
  BY <1>1 DEF TimeoutWaitingForCount, TimeoutFails, Fail, FinishTransaction
<1>2. CASE TimeoutWaitingForItem
  BY <1>2 DEF TimeoutWaitingForItem, TimeoutFails, Fail, FinishTransaction
<1>3. CASE TimeoutWaitingForRequest
  BY <1>3 DEF TimeoutWaitingForRequest, TimeoutFails, Fail, FinishTransaction
<1>4. CASE TimeoutWaitingForClearAll
  BY <1>4 DEF TimeoutWaitingForClearAll, TimeoutFails, Fail, FinishTransaction
<1>5. CASE TimeoutWaitingForGuidedAck
  BY <1>5 DEF TimeoutWaitingForGuidedAck, TimeoutFails, Fail, FinishTransaction
<1> QED BY <1>1, <1>2, <1>3, <1>4, <1>5 DEF AckTimeout

\* A message that is expected is taken.
Done == transactionInProgress' = "TransactionNone" /\ ~outcome'.error

LEMMA CountTaken ==
  ASSUME IInv, Reading, expectedAck = "AckMissionCount", NEW c \in Nat,
         MavlinkMessageReceived(CountMessage(PlanType, c)), PlanType \in PlanTypes
  PROVE  /\ retryCount' = 0
         /\ Done \/ Announced(CountMessage(PlanType, c))
<1> DEFINE m == CountMessage(PlanType, c)
<1>1. m.id = "MISSION_COUNT" /\ m.type = PlanType /\ m.count = c /\ m \in Answers
  BY Replies DEF CountMessage
<1> HIDE DEF m
<1>2. connections > 0 /\ transactionInProgress # "TransactionNone"
  BY DEF IInv, NeverStranded, inProgress, Reading
<1>3. MavlinkMessageReceived(m)
  BY DEF m
<1>4. HandleMissionCount(m)
  BY <1>1, <1>2, <1>3 DEF MavlinkMessageReceived, HandleMissionItem, HandleHomePositionUpdate,
     HandleMissionRequest, HandleMissionAck, IgnoreMessage, Ignored, IInv, TypeOK
<1>5. retryCount' = 0
  BY <1>4 DEF HandleMissionCount
<1>6. CASE c = 0
  <2>1. ReadTransactionComplete(missionItems)
    BY <1>1, <1>4, <1>6 DEF HandleMissionCount
  <2> QED BY <1>5, <2>1 DEF ReadTransactionComplete, FinishTransaction, Done
<1>7. CASE c # 0
  <2>1. transactionInProgress' = transactionInProgress /\ expectedAck' = "AckMissionItem"
    BY <1>1, <1>4, <1>7 DEF HandleMissionCount, RequestNextMissionItem, StartAckTimeout
  <2>2. ~Ends /\ ~Unmoved /\ ~Taken(m) /\ ~Asked(m)
    BY <1>1, <1>2, <2>1 DEF Ends, Unmoved, Taken, Asked
  <2> QED BY <1>1, <1>3, <1>5, <2>2, MessageCases DEF m
<1> QED BY <1>6, <1>7

LEMMA ItemTaken ==
  ASSUME IInv, Reading, expectedAck = "AckMissionItem", NEW s \in itemIndicesToRead,
         NEW i \in Item, MavlinkMessageReceived(ItemMessage(PlanType, s, i)),
         PlanType \in PlanTypes
  PROVE  /\ retryCount' = 0
         /\ Done \/ Taken(ItemMessage(PlanType, s, i))
<1> DEFINE m == ItemMessage(PlanType, s, i)
<1>0. s \in Nat
  BY DEF IInv, TypeOK
<1>1. m.id = "MISSION_ITEM_INT" /\ m.type = PlanType /\ m.seq = s /\ m \in Answers
  BY <1>0, Replies DEF ItemMessage
<1> HIDE DEF m
<1>2. connections > 0 /\ transactionInProgress # "TransactionNone"
  BY DEF IInv, NeverStranded, inProgress, Reading
<1>3. MavlinkMessageReceived(m)
  BY DEF m
<1>4. HandleMissionItem(m)
  BY <1>1, <1>2, <1>3 DEF MavlinkMessageReceived, HandleMissionCount, HandleHomePositionUpdate,
     HandleMissionRequest, HandleMissionAck, IgnoreMessage, Ignored, IInv, TypeOK
<1>5. /\ retryCount' = 0
      /\ \/ ReadTransactionComplete(Append(missionItems, Entry(m.seq, FromVehicle(m.item))))
         \/ /\ itemIndicesToRead' = itemIndicesToRead \ {m.seq}
            /\ transactionInProgress' = transactionInProgress
  BY <1>1, <1>4 DEF HandleMissionItem
<1>6. CASE ReadTransactionComplete(Append(missionItems, Entry(m.seq, FromVehicle(m.item))))
  BY <1>5, <1>6 DEF ReadTransactionComplete, FinishTransaction, Done
<1>7. CASE /\ itemIndicesToRead' = itemIndicesToRead \ {m.seq}
           /\ transactionInProgress' = transactionInProgress
  <2>1. ~Ends /\ ~Unmoved /\ ~Announced(m) /\ ~Asked(m)
    BY <1>1, <1>2, <1>7 DEF Ends, Unmoved, Announced, Asked, readVars
  <2> QED BY <1>1, <1>3, <1>5, <2>1, MessageCases DEF m
<1> QED BY <1>5, <1>6, <1>7

LEMMA RequestTaken ==
  ASSUME IInv, SendingPlan, NEW s \in 0..(Len(writeMissionItems) - 1),
         MavlinkMessageReceived(RequestMessage(PlanType, s)), PlanType \in PlanTypes
  PROVE  Asked(RequestMessage(PlanType, s))
<1> DEFINE m == RequestMessage(PlanType, s)
<1>0. s \in Nat /\ Len(writeMissionItems) \in Nat
  BY DEF IInv, TypeOK
<1>1. m.id = "MISSION_REQUEST_INT" /\ m.type = PlanType /\ m.seq = s /\ m \in Answers
  BY <1>0, Replies DEF RequestMessage
<1> HIDE DEF m
<1>2. /\ connections > 0 /\ transactionInProgress # "TransactionNone"
      /\ expectedAck = "AckMissionRequest"
  BY DEF IInv, NeverStranded, inProgress, SendingPlan
<1>3. MavlinkMessageReceived(m)
  BY DEF m
<1>4. HandleMissionRequest(m)
  BY <1>1, <1>2, <1>3 DEF MavlinkMessageReceived, HandleMissionCount, HandleHomePositionUpdate,
     HandleMissionItem, HandleMissionAck, IgnoreMessage, Ignored, IInv, TypeOK
<1>5. ~(m.seq > Len(writeMissionItems) - 1)
  BY <1>0, <1>1
<1>6. /\ sent' = <<ItemMessage(PlanType, m.seq, ItemOf(writeMissionItems[m.seq + 1]))>>
      /\ transactionInProgress' = transactionInProgress
  BY <1>4, <1>5 DEF HandleMissionRequest
<1>7. ~Ends /\ ~(Unmoved /\ sent' = <<>>) /\ ~Announced(m) /\ ~Taken(m)
  BY <1>1, <1>2, <1>6 DEF Ends, Announced, Taken
<1> QED BY <1>1, <1>3, <1>7, MessageCases DEF m

LEMMA AckTaken ==
  ASSUME IInv, Removing \/ (SendingPlan /\ itemIndicesToWrite = {}),
         MavlinkMessageReceived(AckMessage(PlanType, "ACCEPTED"))
  PROVE  Done
<1> DEFINE m == AckMessage(PlanType, "ACCEPTED")
<1>1. m.id = "MISSION_ACK" /\ m.type = PlanType /\ m.result = "ACCEPTED"
  BY DEF AckMessage
<1> HIDE DEF m
<1>2. /\ connections > 0
      /\ \/ expectedAck = "AckMissionClearAll"
         \/ expectedAck = "AckMissionRequest" /\ itemIndicesToWrite = {}
  BY DEF IInv, NeverStranded, inProgress, SendingPlan, Removing
<1>3. MavlinkMessageReceived(m)
  BY DEF m
<1>4. HandleMissionAck(m)
  BY <1>1, <1>2, <1>3 DEF MavlinkMessageReceived, HandleMissionCount, HandleHomePositionUpdate,
     HandleMissionItem, HandleMissionRequest, IgnoreMessage, Ignored, IInv, TypeOK
<1>5. AckSucceeds(m)
  BY <1>1, <1>2 DEF AckSucceeds
<1> QED BY <1>4, <1>5 DEF HandleMissionAck, FinishTransaction, Done

-----------------------------------------------------------------------------
(* What counts for how a transaction ends, of the vehicle's steps.         *)

\* A mode ignores its first question.
FailsNow(mode) == failureMode = mode /\ mode \in failFirst /\ mode \notin failFirst'

LEMMA ListAnswered ==
  ASSUME ConstantsAssumption, NEW m \in Outbound, Vehicle!HandleMissionRequestList(m)
  PROVE  /\ stored' = stored /\ failureMode' = failureMode
         /\ \/ /\ replies' = <<CountMessage(PlanType, Cardinality(DOMAIN held))>>
               /\ requestType' = PlanType /\ failureMode # "FailReadRequestListNoResponse"
            \/ /\ replies' = <<>> /\ requestType' = requestType
               /\ \/ failureMode = "FailReadRequestListNoResponse"
                  \/ FailsNow("FailReadRequestListFirstResponse")
<1>1. m.type = PlanType
  BY OutboundType
<1> QED BY <1>1, SameMessages DEF Vehicle!HandleMissionRequestList, Vehicle!NoReply,
    Vehicle!Reply, Vehicle!ItemCount, held, FailsNow

\* An item is asked for: it is sent, or in the modes that are for that, the
\* next one, an error or nothing.
AsksWrong(m) ==
  \/ failureMode = "FailReadRequest0IncorrectSequence" /\ m.seq = 0
  \/ failureMode = "FailReadRequest1IncorrectSequence" /\ m.seq = 1
SeqFor(m) == IF AsksWrong(m) THEN m.seq + 1 ELSE m.seq

LEMMA ItemAnswered ==
  ASSUME ConstantsAssumption, TransferTypes, NEW m \in Outbound,
         Vehicle!HandleMissionRequest(m)
  PROVE  /\ m.seq \in Nat /\ requestType' = requestType /\ failureMode' = failureMode
         /\ \/ /\ replies' = <<>> /\ stored' = stored
               /\ \/ failureMode \in FailsRead
                  \/ FailsNow("FailReadRequest1FirstResponse")
            \/ /\ replies' = <<AckMessage(requestType, "ERROR")>> /\ stored' = stored
               /\ failureMode \in FailsRead
            \/ /\ \E i \in Item : replies' = <<ItemMessage(requestType, SeqFor(m), i)>>
               /\ ~Withheld(SeqFor(m)) /\ SeqFor(m) \in Nat
               /\ \/ stored' = stored
                  \/ /\ SeqFor(m) \notin DOMAIN held
                     /\ DOMAIN held' = DOMAIN held \cup {SeqFor(m)}
<1>1. m.id = "MISSION_REQUEST_INT" /\ m.type = PlanType /\ PlanType \in PlanTypes /\ m.seq \in Nat
  BY OutboundType, ConstantsAssumption DEF ConstantsAssumption, Vehicle!HandleMissionRequest
<1>2. held \in Stores /\ stored \in [PlanTypes -> Stores]
  BY <1>1 DEF TransferTypes, held
<1>3. UNCHANGED <<requestType, failureMode>>
  BY DEF Vehicle!HandleMissionRequest
<1> DEFINE seq == SeqFor(m)
<1>4. seq \in Nat
  BY <1>1 DEF SeqFor
<1>5. \/ /\ replies' = <<>> /\ stored' = stored
         /\ \/ failureMode = "FailReadRequest0NoResponse"
            \/ failureMode = "FailReadRequest1NoResponse"
            \/ FailsNow("FailReadRequest1FirstResponse")
      \/ /\ replies' = <<AckMessage(requestType, "ERROR")>> /\ stored' = stored
         /\ failureMode \in {"FailReadRequest0ErrorAck", "FailReadRequest1ErrorAck"}
      \/ /\ ~(failureMode = "FailReadRequest0NoResponse" /\ m.seq = 0)
         /\ ~(failureMode = "FailReadRequest1NoResponse" /\ m.seq = 1)
         /\ ~(failureMode = "FailReadRequest0ErrorAck" /\ seq = 0)
         /\ ~(failureMode = "FailReadRequest1ErrorAck" /\ seq = 1)
         /\ \/ /\ seq \in DOMAIN held /\ stored' = stored
               /\ replies' = <<ItemMessage(requestType, seq, held[seq])>>
            \/ /\ seq \notin DOMAIN held
               /\ stored' = [stored EXCEPT ![PlanType] = Vehicle!Store(@, seq, NoItem)]
               /\ replies' = <<ItemMessage(requestType, seq, NoItem)>>
  BY <1>1, SameMessages DEF Vehicle!HandleMissionRequest, Vehicle!NoReply, Vehicle!Reply,
     held, SeqFor, AsksWrong, FailsNow
<1>6. /\ ~(failureMode = "FailReadRequest0NoResponse" /\ m.seq = 0)
      /\ ~(failureMode = "FailReadRequest1NoResponse" /\ m.seq = 1)
      /\ ~(failureMode = "FailReadRequest0ErrorAck" /\ seq = 0)
      /\ ~(failureMode = "FailReadRequest1ErrorAck" /\ seq = 1)
      => ~Withheld(seq)
  BY <1>1 DEF Withheld, SeqFor, AsksWrong
<1> HIDE DEF seq
<1>7. CASE /\ replies' = <<>> /\ stored' = stored
           /\ \/ failureMode = "FailReadRequest0NoResponse"
              \/ failureMode = "FailReadRequest1NoResponse"
              \/ FailsNow("FailReadRequest1FirstResponse")
  BY <1>1, <1>3, <1>7 DEF FailsRead
<1>8. CASE /\ replies' = <<AckMessage(requestType, "ERROR")>> /\ stored' = stored
           /\ failureMode \in {"FailReadRequest0ErrorAck", "FailReadRequest1ErrorAck"}
  BY <1>1, <1>3, <1>8 DEF FailsRead
<1>9. CASE /\ seq \in DOMAIN held /\ stored' = stored /\ ~Withheld(seq)
           /\ replies' = <<ItemMessage(requestType, seq, held[seq])>>
  <2>1. held[seq] \in Item
    BY <1>2, <1>9, StoresAre
  <2> QED BY <1>1, <1>3, <1>4, <1>9, <2>1 DEF seq
<1>10. CASE /\ seq \notin DOMAIN held /\ ~Withheld(seq)
            /\ stored' = [stored EXCEPT ![PlanType] = Vehicle!Store(@, seq, NoItem)]
            /\ replies' = <<ItemMessage(requestType, seq, NoItem)>>
  <2>1. NoItem \in Item
    BY DEF NoItem, Item, Commands
  <2>2. DOMAIN Vehicle!Store(held, seq, NoItem) = DOMAIN held \cup {seq}
    BY <1>2, <1>4, <2>1, StoredOver
  <2>3. stored' = [stored EXCEPT ![PlanType] = Vehicle!Store(held, seq, NoItem)]
    BY <1>10 DEF held
  <2>4. held' = Vehicle!Store(held, seq, NoItem)
    BY <1>1, <1>2, <2>3 DEF held
  <2> QED BY <1>1, <1>3, <1>4, <1>10, <2>1, <2>2, <2>4 DEF seq
<1> QED BY <1>5, <1>6, <1>7, <1>8, <1>9, <1>10

\* The next item of a plan that is written is asked for, unless the mode is
\* against it.
LEMMA NextAsked ==
  ASSUME NEW t \in PlanTypes, NEW seq \in Nat, NEW count,
         Vehicle!RequestNextItem(t, seq, count),
         seq = 0 => failureMode # "FailWriteMissionCountNoResponse",
         seq = 3 => failureMode # "FailWriteFinalAckMissingRequests"
  PROVE  /\ \/ replies' = <<>> \/ replies' = <<AckMessage(t, "ERROR")>>
            \/ \E a \in Nat : replies' = <<RequestMessage(t, a)>> /\ ~Denied(a)
         /\ failureMode \notin FailsWrite /\ ~(seq >= count) =>
              replies' = <<RequestMessage(t, seq)>>
<1> DEFINE wrong == \/ failureMode = "FailWriteRequest0IncorrectSequence" /\ seq = 0
                    \/ failureMode = "FailWriteRequest1IncorrectSequence" /\ seq = 1
           refused == \/ failureMode = "FailWriteRequest0ErrorAck" /\ seq = 0
                      \/ failureMode = "FailWriteRequest1ErrorAck" /\ seq = 1
           silent == \/ failureMode = "FailWriteRequest1NoResponse" /\ seq = 1
                     \/ seq >= count
           asked == IF wrong THEN seq + 1 ELSE seq
<1>1. replies' = IF silent THEN <<>>
                 ELSE IF refused THEN <<AckMessage(t, "ERROR")>>
                 ELSE <<RequestMessage(t, asked)>>
  BY DEF Vehicle!RequestNextItem, Vehicle!AckMessage, Vehicle!RequestMessage, AckMessage,
     RequestMessage
<1>2. asked \in Nat
  OBVIOUS
<1>3. ~silent /\ ~refused => ~Denied(asked)
  BY DEF Denied
<1>4. failureMode \notin FailsWrite => ~wrong /\ ~refused /\ (silent => seq >= count)
  BY DEF FailsWrite
<1> HIDE DEF wrong, refused, silent
<1>5. failureMode \notin FailsWrite /\ ~(seq >= count) => replies' = <<RequestMessage(t, seq)>>
  BY <1>1, <1>4
<1> HIDE DEF asked
<1> QED BY <1>1, <1>2, <1>3, <1>5

LEMMA CountAnswered ==
  ASSUME ConstantsAssumption, NEW m \in Outbound, Vehicle!HandleMissionCount(m)
  PROVE  /\ m.count \in Nat /\ requestType' = PlanType /\ failureMode' = failureMode
         /\ writeSequenceCount' = m.count
         /\ \/ m.count = 0 /\ replies' = <<AckMessage(PlanType, "ACCEPTED")>>
            \/ /\ m.count # 0 /\ replies' = <<>>
               /\ \/ failureMode = "FailWriteMissionCountNoResponse"
                  \/ FailsNow("FailWriteMissionCountFirstResponse")
            \/ /\ m.count # 0 /\ failureMode # "FailWriteMissionCountNoResponse"
               /\ writeSequenceIndex' = 0
               /\ Vehicle!RequestNextItem(PlanType, 0, m.count)
<1>1. m.type = PlanType /\ m.count \in Nat
  BY OutboundType DEF Vehicle!HandleMissionCount
<1> QED BY <1>1, SameMessages DEF Vehicle!HandleMissionCount, Vehicle!NoReply,
    Vehicle!Reply, FailsNow

LEMMA ItemStoredAnswered ==
  ASSUME NEW m \in Outbound, Vehicle!HandleMissionItem(m)
  PROVE  /\ requestType' = requestType /\ failureMode' = failureMode
         /\ writeSequenceCount' = writeSequenceCount
         /\ writeSequenceIndex' = writeSequenceIndex + 1
         /\ \/ /\ replies' = <<AckMessage(requestType, "ACCEPTED")>>
               /\ failureMode = "FailWriteFinalAckMissingRequests"
            \/ /\ writeSequenceIndex' < writeSequenceCount
               /\ ~(failureMode = "FailWriteFinalAckMissingRequests"
                      /\ writeSequenceIndex' = 3)
               /\ Vehicle!RequestNextItem(requestType, writeSequenceIndex', writeSequenceCount)
            \/ /\ writeSequenceIndex' >= writeSequenceCount
               /\ failureMode # "FailWriteFinalAckNoResponse"
               /\ replies' = <<AckMessage(requestType,
                       IF failureMode = "FailWriteFinalAckErrorAck"
                       THEN "ERROR" ELSE "ACCEPTED")>>
            \/ failureMode = "FailWriteFinalAckNoResponse" /\ replies' = <<>>
<1> QED BY SameMessages DEF Vehicle!HandleMissionItem, Vehicle!NoReply, Vehicle!Reply,
    Vehicle!FinalAck

-----------------------------------------------------------------------------
(* The invariant of the outcomes is kept by every step.                    *)

LEMMA GuidedSends ==
  ASSUME ApplicationCall, expectedAck' = "AckGuidedItem"
  PROVE  Range(sent') = {GuidedItemMessage}
<1>1. sent' = <<GuidedItemMessage>>
  BY DEF ApplicationCall, LoadFromVehicle, RequestList, WriteMissionItems,
     WriteMissionItemsWorker, WriteMissionCount, RemoveAll, RemoveAllWorker,
     GenerateResumeMission, WriteArduPilotGuidedMissionItem, StartAckTimeout
<1> QED BY <1>1, RangeIs

\* A loss stays a loss.
LEMMA LossesAreNatural ==
  ASSUME losses \in Nat, TransferNext
  PROVE  losses' \in Nat
<1>1. losses' = losses \/ losses' = losses + 1
  <2>1. CASE Call \/ Timeout \/ GcsReceives
    BY <2>1 DEF Call, Timeout, GcsReceives, Carry
  <2>2. CASE VehicleReceives
    BY <2>2 DEF VehicleReceives, Carry
  <2> QED BY <2>1, <2>2 DEF TransferNext
<1> QED BY <1>1

\* What a call keeps: it finds nothing under way.
LEMMA CallOutcomes ==
  ASSUME ConstantsAssumption, OutcomeInv, Call
  PROVE  OutcomeInv'
<1>1. /\ TransferInv /\ IInv /\ TransferTypes /\ OneUnderWay /\ ApplicationCall
      /\ losses \in Nat /\ SecondIsThere
  BY DEF OutcomeInv, TransferInv, Call
<1>2. TransferInv' /\ losses' \in Nat
  BY <1>1, CallKeeps, LossesAreNatural DEF TransferNext
<1>3. ~inProgress
  BY <1>1, CallCases
<1>4. /\ toGcs' = <<>> /\ Range(toGcs') = {}
      /\ \A m \in Range(toVehicle) : m.id = "MISSION_ACK"
      /\ Carry(toVehicle, sent') /\ invented' = FALSE
      /\ UNCHANGED <<failureMode, failFirst, requestType, stored>>
  <2>1. Quiet
    BY <1>1, <1>3 DEF Call, OneUnderWay
  <2> QED BY <1>1, <2>1, QuietIs, RangeIs DEF Call, vehicleVars
<1>5. \A m \in Range(toVehicle') : m.id = "MISSION_ACK" \/ m \in Range(sent')
  <2>1. AtMostOne(sent', Outbound)
    BY <1>1, CallSends
  <2> QED BY <1>1, <1>4, <2>1, Sends
<1>6. Prompt' => Prompt /\ Pending' = {x \in Range(sent') : ~IsAck(x)}
  BY PromptManager
<1>7. InOrder' = InOrder /\ \A d : Withheld(d)' = Withheld(d)
  BY <1>4 DEF InOrder, held, Withheld
<1>8. expectedAck' # "AckMissionItem" => SecondIsThere'
  BY <1>1, <1>6, <1>7 DEF SecondIsThere
<1>9. ASSUME \A m \in Range(sent') : m.id \notin {"MISSION_REQUEST_INT", "MISSION_ITEM_INT"},
             expectedAck' # "AckMissionItem"
      PROVE  TypeKnown'
  BY <1>4, <1>5, <1>9 DEF TypeKnown
<1>10. CASE /\ Reading' /\ expectedAck' = "AckMissionCount"
            /\ Range(sent') = {RequestListMessage(PlanType)}
  <2>1. RequestListMessage(PlanType).id = "MISSION_REQUEST_LIST"
    BY DEF RequestListMessage
  <2>2. TypeKnown' /\ SecondIsThere'
    BY <1>8, <1>9, <1>10, <2>1
  <2>3. GuidedUnderWay' /\ WriteFails' /\ RemovalProgress' /\ SendProgress'
    BY <1>10 DEF GuidedUnderWay, WriteFails, RemovalProgress, SendProgress, Writing,
       Removing, SendingPlan, Reading
  <2>4. ReadFails'
    BY <1>4, <1>10 DEF ReadFails
  <2>5. ReadProgress'
    <3> SUFFICES ASSUME Prompt' PROVE CountProgress'
      BY <1>10 DEF ReadProgress
    <3>1. Pending' = {RequestListMessage(PlanType)}
      BY <1>6, <1>10, <2>1 DEF IsAck
    <3>2. retryCount' = 0
      BY <1>1, <1>10, CallCounts
    <3> QED BY <1>4, <3>1, <3>2 DEF CountProgress, Again
  <2> QED BY <1>2, <2>2, <2>3, <2>4, <2>5 DEF OutcomeInv
<1>11. CASE /\ SendingPlan' /\ itemIndicesToWrite' = 0..(Len(writeMissionItems') - 1)
            /\ Range(sent') = {CountMessage(PlanType, Len(writeMissionItems'))}
  <2>1. CountMessage(PlanType, Len(writeMissionItems')).id = "MISSION_COUNT"
    BY DEF CountMessage
  <2>2. TypeKnown' /\ SecondIsThere'
    BY <1>8, <1>9, <1>11, <2>1 DEF SendingPlan
  <2>3. GuidedUnderWay' /\ ReadFails' /\ RemovalProgress' /\ ReadProgress'
    BY <1>11 DEF GuidedUnderWay, ReadFails, RemovalProgress, ReadProgress,
       Removing, SendingPlan, Reading
  <2>4. WriteFails'
    BY <1>4, <1>11 DEF WriteFails
  <2>5. SendProgress'
    <3> SUFFICES ASSUME Prompt' PROVE SendProgress'
      BY DEF SendProgress
    <3>1. Pending' = {CountMessage(PlanType, Len(writeMissionItems'))}
      BY <1>6, <1>11, <2>1 DEF IsAck
    <3>2. retryCount' = 0
      BY <1>1, <1>11, CallCounts DEF SendingPlan
    <3>3. Again("FailWriteMissionCountFirstResponse")'
      BY <3>2 DEF Again
    <3> QED BY <1>4, <1>11, <3>1, <3>3 DEF SendProgress
  <2> QED BY <1>2, <2>2, <2>3, <2>4, <2>5 DEF OutcomeInv
<1>12. CASE Removing' /\ Range(sent') = {ClearAllMessage(PlanType)}
  <2>1. ClearAllMessage(PlanType).id = "MISSION_CLEAR_ALL"
    BY DEF ClearAllMessage
  <2>2. expectedAck' # "AckMissionItem"
    BY <1>2, <1>12 DEF TransferInv, IInv, NeverStranded, Removing
  <2>3. TypeKnown' /\ SecondIsThere'
    BY <1>8, <1>9, <1>12, <2>1, <2>2
  <2>4. GuidedUnderWay' /\ WriteFails' /\ ReadFails' /\ ReadProgress' /\ SendProgress'
    BY <1>12 DEF GuidedUnderWay, WriteFails, ReadFails, ReadProgress, SendProgress, Writing,
       Removing, SendingPlan, Reading
  <2>5. RemovalProgress'
    BY <1>4, <1>6, <1>12, <2>1 DEF RemovalProgress, IsAck
  <2> QED BY <1>2, <2>3, <2>4, <2>5 DEF OutcomeInv
<1>13. CASE transactionInProgress' = "TransactionWrite" /\ expectedAck' = "AckGuidedItem"
  <2>1. Range(sent') = {GuidedItemMessage} /\ GuidedItemMessage.id = "MISSION_ITEM"
    BY <1>1, <1>13, GuidedSends DEF GuidedItemMessage
  <2>2. TypeKnown' /\ SecondIsThere'
    BY <1>8, <1>9, <1>13, <2>1
  <2>3. /\ WriteFails' /\ ReadFails' /\ RemovalProgress' /\ ReadProgress'
        /\ SendProgress'
    BY <1>13 DEF WriteFails, ReadFails, RemovalProgress, ReadProgress, SendProgress,
       Writing, Removing, SendingPlan, Reading
  <2>4. GuidedUnderWay'
    BY <1>4, <1>5, <2>1 DEF GuidedUnderWay
  <2> QED BY <1>2, <2>2, <2>3, <2>4 DEF OutcomeInv
<1> QED BY <1>1, <1>10, <1>11, <1>12, <1>13, CallCases

\* Between transactions hardly anything is promised.
LEMMA IdleOutcomes ==
  ASSUME (transactionInProgress = "TransactionNone")'
  PROVE  /\ (GuidedUnderWay /\ WriteFails /\ ReadFails)'
         /\ (RemovalProgress /\ ReadProgress /\ SendProgress)'
BY DEF GuidedUnderWay, WriteFails, ReadFails, RemovalProgress, ReadProgress, SendProgress,
   Writing, Removing, SendingPlan, Reading

\* What the timer keeps.
LEMMA TimeoutOutcomes ==
  ASSUME ConstantsAssumption, OutcomeInv, Timeout
  PROVE  OutcomeInv'
<1>1. /\ TransferInv /\ IInv /\ TransferTypes /\ AckTimeout /\ losses \in Nat
      /\ SecondIsThere /\ TypeKnown /\ GuidedUnderWay /\ WriteFails /\ ReadFails
      /\ RemovalProgress /\ ReadProgress /\ SendProgress
  BY DEF OutcomeInv, TransferInv, Timeout
<1>2. TransferInv' /\ losses' \in Nat
  BY <1>1, TimeoutKeeps, LossesAreNatural DEF TransferNext
<1>3. /\ Carry(toVehicle, sent') /\ toGcs' = toGcs /\ late' = late /\ invented' = invented
      /\ UNCHANGED <<failureMode, failFirst, requestType, stored>>
  BY DEF Timeout, vehicleVars, Carry
<1>4. Range(toVehicle') \subseteq Range(toVehicle) \cup Range(sent')
  <2>1. AtMostOne(sent', Outbound)
    BY <1>1, TimeoutSends
  <2> QED BY <1>1, <1>3, <2>1, Sends
<1>5. Prompt' => /\ Prompt /\ Pending = {} /\ toGcs = <<>>
                 /\ Pending' = {x \in Range(sent') : ~IsAck(x)}
  <2>1. Prompt' => ~late
    BY <1>3 DEF Prompt
  <2> QED BY <1>1, <2>1, PromptManager, NothingAsked
<1>6. InOrder' = InOrder /\ held' = held /\ \A d : /\ Withheld(d)' = Withheld(d)
                                                   /\ Denied(d)' = Denied(d)
  BY <1>3 DEF InOrder, held, Withheld, Denied
<1>7. CASE Ends /\ sent' = <<>>
  <2>1. (transactionInProgress = "TransactionNone")' /\ Range(sent') = {}
    BY <1>7, RangeIs DEF Ends
  <2>2. TypeKnown'
    BY <1>1, <1>3, <1>4, <2>1 DEF TypeKnown, Reading
  <2>3. SecondIsThere'
    BY <1>1, <1>5, <1>6, <2>1 DEF SecondIsThere, Reading
  <2> QED BY <1>2, <2>1, <2>2, <2>3, IdleOutcomes DEF OutcomeInv
<1>8. CASE /\ Unmoved
           /\ \/ /\ Reading /\ expectedAck = "AckMissionCount"
                 /\ Range(sent') = {RequestListMessage(PlanType)}
              \/ /\ Reading /\ expectedAck = "AckMissionItem"
                 /\ AsksFirst(itemIndicesToRead)
              \/ /\ SendingPlan /\ 0 \in itemIndicesToWrite
                 /\ Range(sent') = {CountMessage(PlanType, Len(writeMissionItems))}
              \/ Removing /\ Range(sent') = {ClearAllMessage(PlanType)}
  <2>1. /\ UNCHANGED <<expectedAck, transactionInProgress, itemIndicesToRead,
                       missionItemCountToRead, missionItems, itemIndicesToWrite,
                       writeMissionItems>>
        /\ UNCHANGED <<Reading, SendingPlan, Removing, Writing>>
    BY <1>3, <1>8 DEF Unmoved, readVars, writeVars, Reading, SendingPlan, Removing, Writing
  <2>2. WriteFails' /\ ReadFails'
    BY <1>1, <1>3, <1>6, <2>1 DEF WriteFails, ReadFails, NeverTold
  <2>3. /\ RequestListMessage(PlanType).id = "MISSION_REQUEST_LIST"
        /\ ClearAllMessage(PlanType).id = "MISSION_CLEAR_ALL"
        /\ \A c : CountMessage(PlanType, c).id = "MISSION_COUNT"
        /\ \A s : /\ RequestMessage(PlanType, s).id = "MISSION_REQUEST_INT"
                  /\ RequestMessage(PlanType, s).seq = s
    BY DEF RequestListMessage, ClearAllMessage, CountMessage, RequestMessage
  <2>4. TypeKnown'
    BY <1>1, <1>3, <1>4, <1>8, <2>1, <2>3 DEF TypeKnown, Reading
  <2>5. GuidedUnderWay'
    BY <1>8, <2>1 DEF GuidedUnderWay, Reading, SendingPlan, Removing
  <2>6. SecondIsThere'
    <3> SUFFICES ASSUME Prompt', Withheld(1), Reading, expectedAck = "AckMissionItem"
                 PROVE  \A m \in Range(sent') :
                          m.id = "MISSION_REQUEST_INT" => m.seq \in 0..(missionItemCountToRead - 1)
      BY <1>1, <1>4, <1>5, <1>6, <2>1 DEF SecondIsThere
    <3>1. PICK s \in itemIndicesToRead : Range(sent') = {RequestMessage(PlanType, s)}
      BY <1>8 DEF AsksFirst, Reading, SendingPlan, Removing
    <3>2. s \in 0..(missionItemCountToRead - 1)
      BY <1>1, ReadFacts
    <3> QED BY <2>3, <3>1, <3>2
  <2>7. RemovalProgress'
    BY <1>3, <1>5, <1>8, <2>1, <2>3 DEF RemovalProgress, IsAck, Removing, Reading, SendingPlan, Prompt
  <2>8. ASSUME NEW mode, FailedOnce(mode) PROVE Again(mode)'
    BY <1>3, <2>8 DEF FailedOnce, Again
  <2>9. ReadProgress'
    <3> SUFFICES ASSUME Prompt', Reading, failureMode \notin FailsRead
                 PROVE  /\ expectedAck = "AckMissionCount" => CountProgress'
                        /\ expectedAck = "AckMissionItem" => ItemProgress'
      BY <1>3, <2>1 DEF ReadProgress
    <3>1. Prompt /\ Pending = {} /\ toGcs = <<>> /\ toGcs' = <<>>
      BY <1>3, <1>5
    <3>2. ASSUME expectedAck = "AckMissionCount" PROVE CountProgress'
      <4>1. Range(sent') = {RequestListMessage(PlanType)}
        BY <1>8, <3>2 DEF Reading, SendingPlan, Removing
      <4>2. Pending' = {RequestListMessage(PlanType)}
        BY <1>5, <2>3, <4>1 DEF IsAck
      <4>3. FailedOnce("FailReadRequestListFirstResponse")
        BY <1>1, <3>1, <3>2 DEF ReadProgress, CountProgress
      <4> QED BY <2>8, <3>1, <4>2, <4>3 DEF CountProgress
    <3>3. ASSUME expectedAck = "AckMissionItem" PROVE ItemProgress'
      <4>1. PICK s \in itemIndicesToRead : Range(sent') = {RequestMessage(PlanType, s)}
        BY <1>8, <3>3 DEF Reading, SendingPlan, Removing, AsksFirst
      <4>2. Pending' = {RequestMessage(PlanType, s)}
        BY <1>5, <2>3, <4>1 DEF IsAck
      <4>3. FailedOnce("FailReadRequest1FirstResponse")
        BY <1>1, <3>1, <3>3 DEF ReadProgress, ItemProgress
      <4> QED BY <2>1, <2>8, <3>1, <4>2, <4>3 DEF ItemProgress
    <3> QED BY <3>2, <3>3
  <2>10. SendProgress'
    <3> SUFFICES ASSUME Prompt', SendingPlan, failureMode \notin FailsWrite
                 PROVE  SendProgress'
      BY <1>3, <2>1 DEF SendProgress
    <3>1. Prompt /\ Pending = {} /\ toGcs = <<>> /\ toGcs' = <<>>
      BY <1>3, <1>5
    <3>2. Range(sent') = {CountMessage(PlanType, Len(writeMissionItems))}
      BY <1>8 DEF Reading, SendingPlan, Removing
    <3>3. Pending' = {CountMessage(PlanType, Len(writeMissionItems'))}
      BY <1>5, <2>1, <2>3, <3>2 DEF IsAck
    <3>4. /\ FailedOnce("FailWriteMissionCountFirstResponse")
          /\ itemIndicesToWrite = 0..(Len(writeMissionItems) - 1)
      BY <1>1, <3>1 DEF SendProgress
    <3>5. Again("FailWriteMissionCountFirstResponse")'
      BY <2>8, <3>4
    <3>6. itemIndicesToWrite' = 0..(Len(writeMissionItems') - 1)
      BY <2>1, <3>4
    <3> QED BY <3>1, <3>3, <3>5, <3>6 DEF SendProgress
  <2> QED BY <1>2, <2>2, <2>4, <2>5, <2>6, <2>7, <2>9, <2>10 DEF OutcomeInv
<1> QED BY <1>1, <1>7, <1>8, TimeoutCases

\* What the ground station keeps when it receives a message.
LEMMA GcsOutcomes ==
  ASSUME ConstantsAssumption, OutcomeInv, GcsReceives
  PROVE  OutcomeInv'
<1> DEFINE m == Head(toGcs)
<1>1. /\ TransferInv /\ IInv /\ TransferTypes /\ losses \in Nat /\ PlanType \in PlanTypes
      /\ SecondIsThere /\ TypeKnown /\ GuidedUnderWay /\ WriteFails /\ ReadFails
      /\ RemovalProgress /\ ReadProgress /\ SendProgress
  BY ConstantsAssumption DEF OutcomeInv, TransferInv, ConstantsAssumption
<1>2. TransferInv' /\ losses' \in Nat
  BY <1>1, GcsKeeps, LossesAreNatural DEF TransferNext
<1>3. /\ toGcs # <<>> /\ MavlinkMessageReceived(m) /\ Carry(toVehicle, sent')
      /\ late' = late /\ invented' = invented
      /\ UNCHANGED <<failureMode, failFirst, requestType, stored>>
      /\ m \in Answers /\ m \in Range(toGcs) /\ Range(toGcs') \subseteq Range(toGcs)
  BY <1>1, TailIs DEF GcsReceives, vehicleVars, Carry, TransferTypes
<1>4. Prompt' => /\ Prompt /\ Pending = {} /\ toGcs = <<m>> /\ toGcs' = <<>>
                 /\ Pending' = {x \in Range(sent') : ~IsAck(x)}
  <2>1. Prompt' => ~late
    BY <1>3 DEF Prompt
  <2> QED BY <1>1, <2>1, PromptManager, NothingAsked
<1> HIDE DEF m
<1>5. Range(toVehicle') \subseteq Range(toVehicle) \cup Range(sent')
  <2>1. AtMostOne(sent', Outbound)
    BY <1>1, <1>3, MessageSends
  <2> QED BY <1>1, <1>3, <2>1, Sends
<1>6. InOrder' = InOrder /\ held' = held /\ \A d : /\ Withheld(d)' = Withheld(d)
                                                   /\ Denied(d)' = Denied(d)
  BY <1>3 DEF InOrder, held, Withheld, Denied
<1>7. Ends \/ (Unmoved /\ sent' = <<>>) \/ Announced(m) \/ Taken(m) \/ Asked(m)
  BY <1>1, <1>3, MessageCases
<1>8. TypeKnown'
  BY <1>1, <1>3 DEF TypeKnown
<1>9. CASE Ends
  <2>1. (transactionInProgress = "TransactionNone")'
    BY <1>9 DEF Ends
  <2>2. SecondIsThere'
    BY <1>1, <1>4, <1>6, <2>1 DEF SecondIsThere, Reading
  <2> QED BY <1>2, <1>8, <2>1, <2>2, IdleOutcomes DEF OutcomeInv
<1>10. CASE Unmoved /\ sent' = <<>>
  <2>1. /\ UNCHANGED <<expectedAck, transactionInProgress, itemIndicesToRead,
                       missionItemCountToRead, missionItems, itemIndicesToWrite,
                       writeMissionItems>>
        /\ UNCHANGED <<Reading, SendingPlan, Removing, Writing>>
        /\ Range(sent') = {}
    BY <1>3, <1>10, RangeIs DEF Unmoved, readVars, writeVars, Reading, SendingPlan,
       Removing, Writing
  <2>2. WriteFails'
    BY <1>1, <1>3, <1>6, <2>1 DEF WriteFails, NeverTold
  <2>3. ReadFails'
    <3> SUFFICES ASSUME Reading PROVE ReadFails'
      BY <2>1 DEF ReadFails
    <3>1. failureMode # "FailReadRequestListNoResponse"
      BY <1>1, <1>3 DEF ReadFails
    <3> QED BY <1>1, <1>3, <1>6, <2>1, <3>1 DEF ReadFails
  <2>4. GuidedUnderWay'
    BY <1>1, <1>3, <2>1 DEF GuidedUnderWay
  <2>5. SecondIsThere'
    BY <1>1, <1>4, <1>5, <1>6, <2>1 DEF SecondIsThere
  \* A message that is expected moves the transaction on or ends it.
  <2>6. ASSUME Prompt', Reading, failureMode \notin FailsRead PROVE FALSE
    <3>1. CASE expectedAck = "AckMissionCount"
      <4>1. PICK c \in Nat : m = CountMessage(PlanType, c)
        BY <1>1, <1>4, <2>6, <3>1 DEF ReadProgress, CountProgress
      <4>2. Done \/ Announced(m)
        BY <1>1, <1>3, <2>6, <3>1, <4>1, CountTaken
      <4> QED BY <2>1, <2>6, <3>1, <4>2 DEF Done, Announced, Reading
    <3>2. CASE expectedAck = "AckMissionItem"
      <4>1. PICK s \in itemIndicesToRead, i \in Item : m = ItemMessage(PlanType, s, i)
        BY <1>1, <1>4, <2>6, <3>2 DEF ReadProgress, ItemProgress
      <4>2. Done \/ Taken(m)
        BY <1>1, <1>3, <2>6, <3>2, <4>1, ItemTaken
      <4> QED BY <2>1, <2>6, <3>2, <4>2 DEF Done, Taken, Reading
    <3> QED BY <1>1, <2>6, <3>1, <3>2 DEF IInv, NeverStranded, Reading
  <2>7. ASSUME Prompt', Removing PROVE FALSE
    <3>1. m = AckMessage(PlanType, "ACCEPTED")
      BY <1>1, <1>4, <2>7 DEF RemovalProgress
    <3>2. Done
      BY <1>1, <1>3, <2>7, <3>1, AckTaken
    <3> QED BY <2>1, <2>7, <3>2 DEF Done, Removing
  <2>8. ASSUME Prompt', SendingPlan, failureMode \notin FailsWrite PROVE FALSE
    <3>1. \/ m = RequestMessage(PlanType, writeSequenceIndex) /\ InSequence(writeSequenceIndex)
          \/ m = AckMessage(PlanType, "ACCEPTED") /\ itemIndicesToWrite = {}
      BY <1>1, <1>4, <2>8 DEF SendProgress
    <3>2. Asked(m) \/ Done
      BY <1>1, <1>3, <2>8, <3>1, RequestTaken, AckTaken DEF InSequence
    <3>3. ~Done
      BY <2>1, <2>8 DEF Done, SendingPlan
    <3>4. ~Asked(m)
      <4>1. sent' = <<>> /\ Range(sent') = {}
        BY <1>10, <2>1
      <4> QED BY <4>1 DEF Asked
    <3> QED BY <3>2, <3>3, <3>4
  <2>9. RemovalProgress' /\ ReadProgress' /\ SendProgress'
    BY <1>3, <2>1, <2>6, <2>7, <2>8 DEF RemovalProgress, ReadProgress, SendProgress
  <2> QED BY <1>2, <1>8, <2>2, <2>3, <2>4, <2>5, <2>9 DEF OutcomeInv
<1>11. CASE Announced(m)
  <2>1. /\ Reading /\ expectedAck = "AckMissionCount" /\ m.id = "MISSION_COUNT"
        /\ Reading' /\ expectedAck' = "AckMissionItem"
        /\ missionItemCountToRead' = m.count /\ m.count \in Nat \ {0}
        /\ itemIndicesToRead' = 0..(m.count - 1)
        /\ Range(sent') = {RequestMessage(PlanType, 0)}
    BY <1>11 DEF Announced
  <2>2. /\ RequestMessage(PlanType, 0).id = "MISSION_REQUEST_INT"
        /\ RequestMessage(PlanType, 0).seq = 0 /\ 0 \in itemIndicesToRead'
    BY <2>1 DEF RequestMessage
  <2>3. WriteFails' /\ GuidedUnderWay' /\ RemovalProgress' /\ SendProgress'
    BY <2>1 DEF WriteFails, GuidedUnderWay, RemovalProgress, SendProgress, Writing, Removing,
       SendingPlan, Reading
  <2>4. ReadFails'
    <3>1. failureMode # "FailReadRequestListNoResponse"
      BY <1>1, <1>3, <2>1 DEF ReadFails
    <3> QED BY <1>1, <1>3, <1>6, <2>1, <3>1 DEF ReadFails
  <2>5. SecondIsThere'
    <3> SUFFICES ASSUME Prompt', Withheld(1)
                 PROVE  /\ InOrder
                        /\ 0..(m.count - 1) \subseteq DOMAIN held
                        /\ m.count = 1 => DOMAIN held = {0}
                        /\ \A x \in Range(toVehicle') :
                             x.id = "MISSION_REQUEST_INT" => x.seq \in 0..(m.count - 1)
      BY <1>6, <2>1 DEF SecondIsThere
    <3>1. InOrder
      BY <1>1, <1>4 DEF SecondIsThere
    <3>2. m.count = Cardinality(DOMAIN held)
      BY <1>1, <1>3, <2>1 DEF ReadFails, TransferInv, ReadData
    <3>3. PICK k \in Nat : DOMAIN held = 0..(k - 1)
      BY <3>1 DEF InOrder
    <3>4. Cardinality(0..(k - 1)) = k
      <4>1. k = 0 => 0..(k - 1) = {}
        OBVIOUS
      <4>2. Cardinality({}) = 0
        BY FS_EmptySet
      <4>3. CASE k > 0
        BY <4>3, PrimedReadList
      <4> QED BY <4>1, <4>2, <4>3
    <3>5. m.count = k
      BY <3>2, <3>3, <3>4
    <3>6. k = 1 => 0..(k - 1) = {0}
      OBVIOUS
    <3>7. \A x \in Range(toVehicle) : x.id # "MISSION_REQUEST_INT"
      BY <1>1, <2>1 DEF TransferInv, ReadMessages
    <3> QED BY <1>5, <2>1, <2>2, <3>1, <3>3, <3>5, <3>6, <3>7
  <2>6. ReadProgress'
    <3> SUFFICES ASSUME Prompt', failureMode \notin FailsRead PROVE ItemProgress'
      BY <1>3, <2>1 DEF ReadProgress
    <3>1. Pending' = {RequestMessage(PlanType, 0)} /\ toGcs' = <<>>
      BY <1>4, <2>1, <2>2 DEF IsAck
    <3>2. retryCount' = 0
      <4>1. PICK c \in Nat : m = CountMessage(PlanType, c)
        BY <1>1, <1>3, <1>4, <2>1 DEF ReadProgress, CountProgress
      <4> QED BY <1>1, <1>3, <2>1, <4>1, CountTaken
    <3>3. Again("FailReadRequest1FirstResponse")'
      BY <3>2 DEF Again
    <3> QED BY <2>2, <3>1, <3>3 DEF ItemProgress
  <2> QED BY <1>2, <1>8, <2>3, <2>4, <2>5, <2>6 DEF OutcomeInv
<1>12. CASE Taken(m)
  <2>1. /\ Reading /\ expectedAck = "AckMissionItem" /\ m.id = "MISSION_ITEM_INT"
        /\ Reading' /\ expectedAck' = "AckMissionItem"
        /\ missionItemCountToRead' = missionItemCountToRead
        /\ itemIndicesToRead' = itemIndicesToRead \ {m.seq}
    BY <1>12 DEF Taken
  <2>2. PICK s \in itemIndicesToRead' : Range(sent') = {RequestMessage(PlanType, s)}
    BY <1>12, <2>1 DEF Taken, AsksFirst
  <2>3. /\ RequestMessage(PlanType, s).id = "MISSION_REQUEST_INT"
        /\ RequestMessage(PlanType, s).seq = s
    BY DEF RequestMessage
  <2>4. WriteFails' /\ GuidedUnderWay' /\ RemovalProgress' /\ SendProgress'
    BY <2>1 DEF WriteFails, GuidedUnderWay, RemovalProgress, SendProgress, Writing, Removing,
       SendingPlan, Reading
  <2>5. ReadFails'
    <3>1. failureMode # "FailReadRequestListNoResponse"
      BY <1>1, <1>3, <2>1 DEF ReadFails
    <3>2. ~Withheld(m.seq)
      BY <1>1, <1>3, <2>1 DEF ReadFails
    <3> QED BY <1>1, <1>3, <1>6, <2>1, <3>1, <3>2 DEF ReadFails
  <2>6. SecondIsThere'
    <3>1. s \in 0..(missionItemCountToRead - 1)
      BY <1>1, <2>1, ReadFacts
    <3> QED BY <1>1, <1>4, <1>5, <1>6, <2>1, <2>2, <2>3, <3>1 DEF SecondIsThere
  <2>7. ReadProgress'
    <3> SUFFICES ASSUME Prompt', failureMode \notin FailsRead PROVE ItemProgress'
      BY <1>3, <2>1 DEF ReadProgress
    <3>1. Pending' = {RequestMessage(PlanType, s)} /\ toGcs' = <<>>
      BY <1>4, <2>2, <2>3 DEF IsAck
    <3>2. retryCount' = 0
      <4>1. PICK x \in itemIndicesToRead, i \in Item : m = ItemMessage(PlanType, x, i)
        BY <1>1, <1>3, <1>4, <2>1 DEF ReadProgress, ItemProgress
      <4> QED BY <1>1, <1>3, <2>1, <4>1, ItemTaken
    <3>3. Again("FailReadRequest1FirstResponse")'
      BY <3>2 DEF Again
    <3> QED BY <2>2, <3>1, <3>3 DEF ItemProgress
  <2> QED BY <1>2, <1>8, <2>4, <2>5, <2>6, <2>7 DEF OutcomeInv
<1>13. CASE Asked(m)
  <2>0. PICK item : item = ItemMessage(PlanType, m.seq, ItemOf(writeMissionItems[m.seq + 1]))
    OBVIOUS
  <2>1. /\ SendingPlan /\ SendingPlan' /\ m.id = "MISSION_REQUEST_INT"
        /\ m.seq \in 0..(Len(writeMissionItems) - 1)
        /\ writeMissionItems' = writeMissionItems
        /\ itemIndicesToWrite' = itemIndicesToWrite \ {m.seq}
        /\ Range(sent') = {item}
    BY <1>13, <2>0 DEF Asked
  <2>2. item.id = "MISSION_ITEM_INT" /\ ItemOf(writeMissionItems[m.seq + 1]) \in Item
    <3>1. writeMissionItems[m.seq + 1] \in MissionItem
      BY <1>1, <2>1 DEF IInv, TypeOK
    <3> QED BY <2>0, <3>1, ItemOfType DEF ItemMessage
  <2>3. GuidedUnderWay' /\ ReadFails' /\ RemovalProgress' /\ ReadProgress'
    BY <2>1 DEF GuidedUnderWay, ReadFails, RemovalProgress, ReadProgress, Removing,
       SendingPlan, Reading
  <2>4. WriteFails'
    <3> SUFFICES ASSUME Writing' PROVE WriteFails'
      BY DEF WriteFails
    <3>1. Writing
      BY <1>3, <2>1 DEF Writing, SendingPlan
    <3>2. ~Denied(m.seq)
      BY <1>1, <1>3, <2>1, <3>1 DEF WriteFails
    <3> QED BY <1>1, <1>3, <1>6, <2>1, <3>1, <3>2 DEF WriteFails, NeverTold
  <2>5. SecondIsThere'
    BY <1>1, <1>4, <1>6, <2>1 DEF SecondIsThere, SendingPlan, Reading
  <2>6. SendProgress'
    <3> SUFFICES ASSUME Prompt', failureMode \notin FailsWrite PROVE SendProgress'
      BY <1>3 DEF SendProgress
    <3>1. Pending' = {item} /\ toGcs' = <<>>
      BY <1>4, <2>1, <2>2 DEF IsAck
    <3>2. /\ m = RequestMessage(PlanType, writeSequenceIndex)
          /\ InSequence(writeSequenceIndex)
      BY <1>1, <1>3, <1>4, <2>1 DEF SendProgress, AckMessage
    <3>3. m.seq = writeSequenceIndex
      BY <3>2 DEF RequestMessage
    <3>4. /\ writeSequenceIndex' = writeSequenceIndex
          /\ writeSequenceCount' = writeSequenceCount
      BY DEF GcsReceives, vehicleVars
    <3>5. itemIndicesToWrite' = (writeSequenceIndex + 1)..(Len(writeMissionItems) - 1)
      BY <2>1, <3>2, <3>3 DEF InSequence
    <3>6. InSequence(writeSequenceIndex + 1)'
      BY <1>6, <2>1, <3>2, <3>4, <3>5 DEF InSequence
    <3> QED BY <2>0, <2>2, <3>1, <3>3, <3>4, <3>6 DEF SendProgress
  <2> QED BY <1>2, <1>8, <2>3, <2>4, <2>5, <2>6 DEF OutcomeInv
<1> QED BY <1>7, <1>9, <1>10, <1>11, <1>12, <1>13

\* Which handler of the vehicle receives a message.
LEMMA HandledAs ==
  ASSUME NEW m, Vehicle!HandleMessage(m)
  PROVE  \/ m.id = "MISSION_CLEAR_ALL" /\ Vehicle!HandleMissionClearAll(m)
         \/ m.id = "MISSION_REQUEST_LIST" /\ Vehicle!HandleMissionRequestList(m)
         \/ m.id = "MISSION_REQUEST_INT" /\ Vehicle!HandleMissionRequest(m)
         \/ m.id = "MISSION_COUNT" /\ Vehicle!HandleMissionCount(m)
         \/ m.id = "MISSION_ITEM_INT" /\ Vehicle!HandleMissionItem(m)
         \/ m.id \in {"MISSION_ACK", "MISSION_ITEM"} /\ Vehicle!IgnoreMessage(m)
<1>1. /\ Vehicle!HandleMissionClearAll(m) => m.id = "MISSION_CLEAR_ALL"
      /\ Vehicle!HandleMissionRequestList(m) => m.id = "MISSION_REQUEST_LIST"
      /\ Vehicle!HandleMissionRequest(m) => m.id = "MISSION_REQUEST_INT"
  BY DEF Vehicle!HandleMissionClearAll, Vehicle!HandleMissionRequestList,
     Vehicle!HandleMissionRequest
<1>2. /\ Vehicle!HandleMissionCount(m) => m.id = "MISSION_COUNT"
      /\ Vehicle!HandleMissionItem(m) => m.id = "MISSION_ITEM_INT"
      /\ Vehicle!IgnoreMessage(m) => m.id \in {"MISSION_ACK", "MISSION_ITEM"}
  BY DEF Vehicle!HandleMissionCount, Vehicle!HandleMissionItem, Vehicle!IgnoreMessage
<1> QED BY <1>1, <1>2 DEF Vehicle!HandleMessage

\* The facts of a step of the vehicle.
Answering(m) ==
  /\ OutcomeInv /\ TransferInv /\ IInv /\ TransferTypes /\ losses \in Nat
  /\ SecondIsThere /\ TypeKnown /\ GuidedUnderWay /\ WriteFails /\ ReadFails
  /\ RemovalProgress /\ ReadProgress /\ SendProgress
  /\ m \in Outbound /\ m \in Range(toVehicle) /\ m.type = PlanType
  /\ Vehicle!HandleMessage(m)
  /\ Range(toVehicle') \subseteq Range(toVehicle)
  /\ Range(toGcs') \subseteq Range(toGcs) \cup Range(replies')
  /\ replies' = <<>> => toGcs' = toGcs
  /\ invented' = (invented \/ (m.id = "MISSION_REQUEST_INT" /\ stored' # stored))
  /\ UNCHANGED <<expectedAck, retryCount, transactionInProgress, itemIndicesToRead,
                 missionItemCountToRead, missionItems, itemIndicesToWrite,
                 writeMissionItems, late, failureMode>>
  /\ Prompt' => /\ Prompt
                /\ \/ /\ IsAck(m) /\ Pending' = Pending /\ toGcs' = toGcs
                      /\ Vehicle!IgnoreMessage(m)
                   \/ /\ ~IsAck(m) /\ Pending = {m} /\ toGcs = <<>>
                      /\ Pending' = {} /\ toGcs' = replies'

LEMMA VehicleFacts ==
  ASSUME ConstantsAssumption, OutcomeInv, VehicleReceives
  PROVE  Answering(Head(toVehicle))
<1> DEFINE m == Head(toVehicle)
<1>1. /\ TransferInv /\ IInv /\ TransferTypes /\ losses \in Nat
      /\ SecondIsThere /\ TypeKnown /\ GuidedUnderWay /\ WriteFails /\ ReadFails
      /\ RemovalProgress /\ ReadProgress /\ SendProgress
  BY DEF OutcomeInv, TransferInv
<1>2. /\ toVehicle # <<>> /\ Vehicle!HandleMessage(m) /\ toVehicle' = Tail(toVehicle)
      /\ Carry(toGcs, replies') /\ UNCHANGED vars /\ late' = late
      /\ invented' = (invented \/ (m.id = "MISSION_REQUEST_INT" /\ stored' # stored))
  <2>1. invented' = \/ invented
                    \/ m.id = "MISSION_REQUEST_INT" /\ stored' # stored
    BY DEF VehicleReceives
  <2> QED BY <2>1 DEF VehicleReceives, Carry
<1>3. /\ m \in Outbound /\ m \in Range(toVehicle)
      /\ Range(toVehicle') \subseteq Range(toVehicle)
  BY <1>1, <1>2, TailIs DEF TransferTypes
<1>4. Prompt' => /\ Prompt
                 /\ \/ /\ IsAck(m) /\ Pending' = Pending /\ toGcs' = toGcs
                       /\ Vehicle!IgnoreMessage(m)
                    \/ /\ ~IsAck(m) /\ Pending = {m} /\ toGcs = <<>>
                       /\ Pending' = {} /\ toGcs' = replies'
  BY PromptVehicle
<1> HIDE DEF m
<1>5. VehicleTypes /\ m.type = PlanType
  BY <1>1, <1>2, <1>3, VehicleCases, OutboundType
<1>6. /\ Range(toGcs') \subseteq Range(toGcs) \cup Range(replies')
      /\ replies' = <<>> => toGcs' = toGcs
  <2>1. /\ toGcs \in Seq(Answers) /\ AtMostOne(replies', Answers)
        /\ toGcs' = toGcs \o replies' \/ toGcs' = toGcs
    BY <1>1, <1>2, <1>5 DEF TransferTypes, Carry, VehicleTypes
  <2> QED BY <2>1, Carried
<1> QED BY <1>1, <1>2, <1>3, <1>4, <1>5, <1>6
        DEF Answering, VehicleTypes, vars, readVars, writeVars, m

LEMMA VehicleTypeKnown ==
  ASSUME ConstantsAssumption, NEW m, Answering(m)
  PROVE  TypeKnown'
<1>1. ASSUME \A r \in Range(replies') : r.type = PlanType,
             requestType' = PlanType \/ (requestType' = requestType /\ replies' = <<>>)
      PROVE  TypeKnown'
  BY <1>1 DEF Answering, TypeKnown, Reading
<1>2. /\ Range(<<>>) = {} /\ \A x : Range(<<x>>) = {x}
      /\ \A t, c : CountMessage(t, c).type = t
      /\ \A t, s : RequestMessage(t, s).type = t
      /\ \A t, s, i : ItemMessage(t, s, i).type = t
      /\ \A t, r : AckMessage(t, r).type = t
  BY RangeIs DEF CountMessage, RequestMessage, ItemMessage, AckMessage
<1>3. m \in Outbound /\ m.type = PlanType /\ TransferTypes
  BY DEF Answering
<1>4. m.id \in {"MISSION_REQUEST_INT", "MISSION_ITEM_INT"} => requestType = PlanType
  BY DEF Answering, TypeKnown
<1>5. PlanType \in PlanTypes
  BY ConstantsAssumption DEF ConstantsAssumption
<1>6. CASE Vehicle!HandleMissionClearAll(m)
  <2>1. replies' = <<AckMessage(PlanType, "ACCEPTED")>> /\ requestType' = PlanType
    BY <1>3, <1>6, SameMessages DEF Vehicle!HandleMissionClearAll, Vehicle!Reply
  <2> QED BY <1>1, <1>2, <2>1
<1>7. CASE Vehicle!HandleMissionRequestList(m)
  BY <1>1, <1>2, <1>3, <1>7, ListAnswered
<1>8. CASE m.id = "MISSION_REQUEST_INT" /\ Vehicle!HandleMissionRequest(m)
  <2>1. /\ requestType' = PlanType
        /\ \/ replies' = <<>> \/ replies' = <<AckMessage(PlanType, "ERROR")>>
           \/ \E i \in Item : replies' = <<ItemMessage(PlanType, SeqFor(m), i)>>
    BY <1>3, <1>4, <1>8, ItemAnswered
  <2> QED BY <1>1, <1>2, <2>1
<1>9. CASE Vehicle!HandleMissionCount(m)
  <2>1. /\ requestType' = PlanType
        /\ \/ replies' = <<>> \/ replies' = <<AckMessage(PlanType, "ACCEPTED")>>
           \/ replies' = <<AckMessage(PlanType, "ERROR")>>
           \/ \E a \in Nat : replies' = <<RequestMessage(PlanType, a)>>
    BY <1>3, <1>5, <1>9, CountAnswered, NextAsked
  <2> QED BY <1>1, <1>2, <2>1
<1>10. CASE m.id = "MISSION_ITEM_INT" /\ Vehicle!HandleMissionItem(m)
  <2>1. /\ writeSequenceIndex' \in Nat /\ writeSequenceIndex' # 0
    BY <1>3, <1>10, ItemStoredAnswered DEF TransferTypes
  <2>2. /\ requestType' = PlanType
        /\ \/ replies' = <<>> \/ \E x : replies' = <<AckMessage(PlanType, x)>>
           \/ \E a \in Nat : replies' = <<RequestMessage(PlanType, a)>>
    BY <1>3, <1>4, <1>5, <1>10, <2>1, ItemStoredAnswered, NextAsked
  <2> QED BY <1>1, <1>2, <2>2
<1>11. CASE Vehicle!IgnoreMessage(m)
  <2>1. replies' = <<>> /\ requestType' = requestType
    BY <1>11 DEF Vehicle!IgnoreMessage, Vehicle!NoReply
  <2> QED BY <1>1, <1>2, <2>1
<1>12. Vehicle!HandleMessage(m)
  BY DEF Answering
<1> QED BY <1>6, <1>7, <1>8, <1>9, <1>10, <1>11, <1>12, HandledAs

LEMMA VehicleGuided ==
  ASSUME ConstantsAssumption, NEW m, Answering(m)
  PROVE  GuidedUnderWay'
<1> SUFFICES ASSUME transactionInProgress = "TransactionWrite", expectedAck = "AckGuidedItem"
             PROVE  GuidedUnderWay'
  BY DEF Answering, GuidedUnderWay
<1>1. m.id \in {"MISSION_ITEM", "MISSION_ACK"} /\ toGcs = <<>> /\ Vehicle!HandleMessage(m)
  BY DEF Answering, GuidedUnderWay
<1>2. replies' = <<>>
  BY <1>1, HandledAs DEF Vehicle!IgnoreMessage, Vehicle!NoReply
<1> QED BY <1>1, <1>2 DEF Answering, GuidedUnderWay

LEMMA VehicleWriteFails ==
  ASSUME ConstantsAssumption, NEW m, Answering(m)
  PROVE  WriteFails'
<1> SUFFICES ASSUME Writing PROVE WriteFails'
  BY DEF Answering, WriteFails, Writing
<1>1. /\ Writes /\ m \in Outbound /\ m \in Range(toVehicle) /\ TransferTypes
      /\ Vehicle!HandleMessage(m) /\ PlanType \in PlanTypes
  BY ConstantsAssumption DEF Answering, TransferInv, ConstantsAssumption
<1>2. /\ m.id \in {"MISSION_COUNT", "MISSION_ITEM_INT", "MISSION_ACK"}
      /\ m.id = "MISSION_COUNT" => m.count = Len(writeMissionItems)
  BY <1>1 DEF Writes, CountUnderWay
<1>3. ASSUME \A r \in Range(replies') :
               /\ r.id = "MISSION_REQUEST_INT" => ~Denied(r.seq)
               /\ r.id = "MISSION_ACK" /\ NeverTold =>
                    r.result = "ERROR" \/ writeMissionItems = <<>>
      PROVE  WriteFails'
  <2>1. NeverTold' = NeverTold /\ \A d : Denied(d)' = Denied(d)
    BY DEF Answering, NeverTold, Denied
  <2> QED BY <1>3, <2>1 DEF Answering, WriteFails, Writing
<1>4. /\ Range(<<>>) = {} /\ \A x : Range(<<x>>) = {x}
      /\ \A t, s : RequestMessage(t, s).id = "MISSION_REQUEST_INT" /\ RequestMessage(t, s).seq = s
      /\ \A t, r : AckMessage(t, r).id = "MISSION_ACK" /\ AckMessage(t, r).result = r
  BY RangeIs DEF RequestMessage, AckMessage
<1>5. CASE m.id = "MISSION_COUNT" /\ Vehicle!HandleMissionCount(m)
  <2>1. \/ /\ m.count = 0 /\ replies' = <<AckMessage(PlanType, "ACCEPTED")>>
        \/ replies' = <<>> \/ replies' = <<AckMessage(PlanType, "ERROR")>>
        \/ \E a \in Nat : replies' = <<RequestMessage(PlanType, a)>> /\ ~Denied(a)
    BY <1>1, <1>5, CountAnswered, NextAsked
  <2>2. m.count = 0 => writeMissionItems = <<>>
    BY <1>2, <1>5 DEF Answering, IInv, TypeOK
  <2> QED BY <1>3, <1>4, <2>1, <2>2
<1>6. CASE Vehicle!HandleMissionItem(m)
  <2>1. /\ writeSequenceIndex' \in Nat /\ writeSequenceIndex' # 0
    BY <1>1, <1>6, ItemStoredAnswered DEF TransferTypes
  <2>2. \/ replies' = <<AckMessage(requestType, "ACCEPTED")>> /\ ~NeverTold
        \/ replies' = <<>> \/ replies' = <<AckMessage(requestType, "ERROR")>>
        \/ \E a \in Nat : replies' = <<RequestMessage(requestType, a)>> /\ ~Denied(a)
    <3>1. requestType \in PlanTypes
      BY <1>1 DEF TransferTypes
    <3>2. CASE /\ ~(failureMode = "FailWriteFinalAckMissingRequests"
                      /\ writeSequenceIndex' = 3)
               /\ Vehicle!RequestNextItem(requestType, writeSequenceIndex', writeSequenceCount)
      BY <2>1, <3>1, <3>2, NextAsked
    <3>3. CASE ~(/\ ~(failureMode = "FailWriteFinalAckMissingRequests"
                        /\ writeSequenceIndex' = 3)
                 /\ Vehicle!RequestNextItem(requestType, writeSequenceIndex', writeSequenceCount))
      BY <1>1, <1>6, <3>3, ItemStoredAnswered DEF NeverTold
    <3> QED BY <3>2, <3>3
  <2> QED BY <1>3, <1>4, <2>2
<1>7. CASE Vehicle!IgnoreMessage(m)
  <2>1. replies' = <<>>
    BY <1>7 DEF Vehicle!IgnoreMessage, Vehicle!NoReply
  <2> QED BY <1>3, <1>4, <2>1
<1> QED BY <1>1, <1>2, <1>5, <1>6, <1>7, HandledAs

LEMMA VehicleReadFails ==
  ASSUME ConstantsAssumption, NEW m, Answering(m)
  PROVE  ReadFails'
<1> SUFFICES ASSUME Reading PROVE ReadFails'
  BY DEF Answering, ReadFails, Reading
<1>1. /\ m \in Outbound /\ m \in Range(toVehicle) /\ TransferTypes
      /\ Vehicle!HandleMessage(m)
      /\ m.id \in {"MISSION_REQUEST_LIST", "MISSION_REQUEST_INT", "MISSION_ACK"}
      /\ expectedAck = "AckMissionCount" => m.id # "MISSION_REQUEST_INT"
  BY DEF Answering, TransferInv, ReadMessages
<1>2. ASSUME \A r \in Range(replies') : r.id = "MISSION_ITEM_INT" => ~Withheld(r.seq),
             failureMode = "FailReadRequestListNoResponse" => replies' = <<>>
      PROVE  ReadFails'
  <2>1. \A d : Withheld(d)' = Withheld(d)
    BY DEF Answering, Withheld
  <2> QED BY <1>1, <1>2, <2>1 DEF Answering, ReadFails, Reading
<1>3. /\ Range(<<>>) = {} /\ \A x : Range(<<x>>) = {x}
      /\ \A t, c : CountMessage(t, c).id = "MISSION_COUNT"
      /\ \A t, s, i : ItemMessage(t, s, i).seq = s
      /\ \A t, r : AckMessage(t, r).id = "MISSION_ACK"
  BY RangeIs DEF CountMessage, ItemMessage, AckMessage
<1>4. CASE Vehicle!HandleMissionRequestList(m)
  BY <1>1, <1>2, <1>3, <1>4, ListAnswered
<1>5. CASE m.id = "MISSION_REQUEST_INT" /\ Vehicle!HandleMissionRequest(m)
  <2>1. failureMode # "FailReadRequestListNoResponse"
    BY <1>1, <1>5 DEF Answering, ReadFails
  <2>2. \/ replies' = <<>> \/ replies' = <<AckMessage(requestType, "ERROR")>>
        \/ /\ \E i \in Item : replies' = <<ItemMessage(requestType, SeqFor(m), i)>>
           /\ ~Withheld(SeqFor(m))
    BY <1>1, <1>5, ItemAnswered
  <2>3. \A r \in Range(replies') : r.id = "MISSION_ITEM_INT" => ~Withheld(r.seq)
    BY <1>3, <2>2
  <2> QED BY <1>2, <2>1, <2>3
<1>6. CASE Vehicle!IgnoreMessage(m)
  <2>1. replies' = <<>>
    BY <1>6 DEF Vehicle!IgnoreMessage, Vehicle!NoReply
  <2> QED BY <1>2, <1>3, <2>1
<1> QED BY <1>1, <1>4, <1>5, <1>6, HandledAs

\* The transaction a message belongs to.
LEMMA BelongsTo ==
  ASSUME NEW m, Answering(m), ~late, ~IsAck(m)
  PROVE  /\ m.id = "MISSION_CLEAR_ALL" => Removing
         /\ m.id = "MISSION_REQUEST_LIST" => Reading
         /\ m.id = "MISSION_REQUEST_INT" => Reading /\ expectedAck = "AckMissionItem"
         /\ m.id \in {"MISSION_COUNT", "MISSION_ITEM_INT"} => SendingPlan
<1>1. /\ TransferTypes /\ OneUnderWay /\ NeverStranded /\ TypeOK /\ m \in Range(toVehicle)
      /\ ReadMessages /\ Removals /\ Writes /\ GuidedUnderWay
  BY DEF Answering, TransferInv, IInv
<1>2. inProgress
  <2>1. ~Quiet
    BY <1>1, RangeIs DEF Quiet, IsAck, TransferTypes
  <2> QED BY <1>1, <2>1 DEF OneUnderWay
<1>3. CASE Reading
  BY <1>1, <1>2, <1>3 DEF ReadMessages, NeverStranded, Reading
<1>4. CASE Removing
  BY <1>1, <1>4 DEF Removals, Removing, IsAck
<1>5. CASE transactionInProgress = "TransactionWrite"
  BY <1>1, <1>2, <1>5 DEF Writes, Writing, GuidedUnderWay, SendingPlan, NeverStranded, IsAck
<1> QED BY <1>1, <1>2, <1>3, <1>4, <1>5 DEF TypeOK, TransactionTypes, inProgress, Reading, Removing

\* No holes appear that a question would show: what an item is added to has
\* all the items before it.
LEMMA VehicleSecondIsThere ==
  ASSUME ConstantsAssumption, NEW m, Answering(m)
  PROVE  SecondIsThere'
<1> SUFFICES ASSUME Prompt', Withheld(1)
             PROVE  /\ InOrder'
                    /\ Reading /\ expectedAck = "AckMissionItem" =>
                         /\ 0..(missionItemCountToRead - 1) \subseteq DOMAIN held'
                         /\ missionItemCountToRead = 1 => DOMAIN held' = {0}
  <2>1. Withheld(1)' = Withheld(1) /\ (Prompt' => Prompt)
    BY DEF Answering, Withheld
  <2>2. Reading' = Reading
    BY DEF Answering, Reading
  <2> QED BY <2>1, <2>2 DEF Answering, SecondIsThere
<1>1. /\ Prompt /\ ~late /\ TransferTypes /\ m \in Outbound /\ Vehicle!HandleMessage(m)
      /\ m \in Range(toVehicle) /\ SecondIsThere /\ InOrder /\ IInv
      /\ (IsAck(m) /\ Vehicle!IgnoreMessage(m)) \/ (~IsAck(m) /\ Pending = {m} /\ toGcs = <<>>)
  BY DEF Answering, Prompt, SecondIsThere
<1>2. Reading /\ expectedAck = "AckMissionItem" =>
        /\ 0..(missionItemCountToRead - 1) \subseteq DOMAIN held
        /\ missionItemCountToRead = 1 => DOMAIN held = {0}
        /\ m.id = "MISSION_REQUEST_INT" => m.seq \in 0..(missionItemCountToRead - 1)
  BY <1>1 DEF SecondIsThere
<1>3. CASE stored' = stored
  BY <1>1, <1>2, <1>3 DEF InOrder, held
<1>4. ASSUME held' = Vehicle!NoItems, ~Reading
      PROVE  InOrder'
  <2>1. DOMAIN held' = 0..(0 - 1)
    BY <1>4, NoItemsStored
  <2> QED BY <2>1 DEF InOrder
<1>5. CASE m.id = "MISSION_CLEAR_ALL" /\ Vehicle!HandleMissionClearAll(m)
  <2>1. held' = Vehicle!NoItems
    BY <1>1, <1>5, ClearAllCase
  <2>2. ~Reading
    BY <1>1, <1>5, BelongsTo DEF IsAck, Removing, Reading
  <2> QED BY <1>4, <2>1, <2>2
<1>6. CASE m.id = "MISSION_REQUEST_LIST" /\ Vehicle!HandleMissionRequestList(m)
  BY <1>1, <1>3, <1>6, ListAnswered
<1>7. CASE m.id = "MISSION_REQUEST_INT" /\ Vehicle!HandleMissionRequest(m)
  <2>1. /\ Reading /\ expectedAck = "AckMissionItem"
    BY <1>1, <1>7, BelongsTo DEF IsAck
  <2>2. /\ m.seq \in DOMAIN held /\ m.seq \in Nat
        /\ m.seq \in 0..(missionItemCountToRead - 1)
        /\ missionItemCountToRead \in Nat
    BY <1>1, <1>2, <1>7, <2>1, OutboundType, ReadFacts
  <2>3. CASE SeqFor(m) \notin DOMAIN held /\ DOMAIN held' = DOMAIN held \cup {SeqFor(m)}
    <3>1. m.seq = 1 /\ SeqFor(m) = 2
      BY <2>2, <2>3 DEF SeqFor, AsksWrong, Withheld
    <3>2. PICK k \in Nat : DOMAIN held = 0..(k - 1)
      BY <1>1 DEF InOrder
    <3>3. k = 2
      BY <2>2, <2>3, <3>1, <3>2
    <3>4. DOMAIN held' = 0..(3 - 1)
      BY <2>3, <3>1, <3>2, <3>3
    <3>5. missionItemCountToRead # 1
      BY <2>2, <3>1
    <3> QED BY <1>2, <2>1, <2>3, <3>4, <3>5 DEF InOrder
  <2> QED BY <1>1, <1>3, <1>7, <2>3, ItemAnswered
<1>8. CASE m.id = "MISSION_COUNT" /\ Vehicle!HandleMissionCount(m)
  <2>1. held' = Vehicle!NoItems
    BY <1>1, <1>8, CountCase
  <2>2. ~Reading
    BY <1>1, <1>8, BelongsTo DEF IsAck, SendingPlan, Reading
  <2> QED BY <1>4, <2>1, <2>2
<1>9. CASE m.id = "MISSION_ITEM_INT" /\ Vehicle!HandleMissionItem(m)
  <2>1. SendingPlan /\ ~Reading
    BY <1>1, <1>9, BelongsTo DEF IsAck, SendingPlan, Reading
  <2>2. failureMode \notin FailsWrite
    BY DEF Withheld, FailsWrite
  <2>3. Pending = {m} /\ m.seq \in Nat /\ m.item \in Item
    BY <1>1, <1>9, OutboundType DEF IsAck
  <2>4. PICK i \in Item : m = ItemMessage(PlanType, writeSequenceIndex, i)
    <3>1. SendProgress
      BY DEF Answering
    <3>2. m # CountMessage(PlanType, Len(writeMissionItems))
      BY <1>9 DEF CountMessage
    <3> QED BY <1>1, <2>1, <2>2, <2>3, <3>1, <3>2 DEF SendProgress
  <2>5. m.seq = writeSequenceIndex /\ DOMAIN held = 0..(writeSequenceIndex - 1)
    <3>1. SendProgress
      BY DEF Answering
    <3>2. m # CountMessage(PlanType, Len(writeMissionItems))
      BY <1>9 DEF CountMessage
    <3> QED BY <1>1, <2>1, <2>2, <2>3, <2>4, <3>1, <3>2 DEF SendProgress, InSequence, ItemMessage
  <2>6. held \in Stores
    BY <1>1 DEF TransferTypes, held, ConstantsAssumption
  <2>7. DOMAIN held' = DOMAIN held \cup {m.seq}
    <3>1. held' = Vehicle!Store(held, m.seq, m.item)
      BY <1>1, <1>9, ItemCase
    <3>2. m.seq = writeSequenceIndex /\ m.item = i /\ writeSequenceIndex \in Nat
      BY <2>4, <2>5, <2>3 DEF ItemMessage
    <3>3. DOMAIN Vehicle!Store(held, writeSequenceIndex, i) = DOMAIN held \cup {writeSequenceIndex}
      BY <2>6, <3>2, StoredOver
    <3> QED BY <3>1, <3>2, <3>3
  <2>8. DOMAIN held' = 0..((writeSequenceIndex + 1) - 1) /\ writeSequenceIndex + 1 \in Nat
    BY <1>1, <2>5, <2>7 DEF TransferTypes
  <2> QED BY <2>1, <2>8 DEF InOrder
<1>10. CASE Vehicle!IgnoreMessage(m)
  BY <1>3, <1>10 DEF Vehicle!IgnoreMessage
<1> QED BY <1>1, <1>5, <1>6, <1>7, <1>8, <1>9, <1>10, HandledAs

\* A removal is answered.
LEMMA VehicleRemovalProgress ==
  ASSUME ConstantsAssumption, NEW m, Answering(m)
  PROVE  RemovalProgress'
<1> SUFFICES ASSUME Prompt', Removing
             PROVE  \/ Pending' = {ClearAllMessage(PlanType)} /\ toGcs' = <<>>
                    \/ Pending' = {} /\ toGcs' = <<AckMessage(PlanType, "ACCEPTED")>>
  BY DEF Answering, RemovalProgress, Removing
<1>1. /\ \/ Pending = {ClearAllMessage(PlanType)} /\ toGcs = <<>>
         \/ Pending = {} /\ toGcs = <<AckMessage(PlanType, "ACCEPTED")>>
      /\ \/ Pending' = Pending /\ toGcs' = toGcs
         \/ Pending = {m} /\ Pending' = {} /\ toGcs' = replies'
      /\ Vehicle!HandleMessage(m)
  BY DEF Answering, RemovalProgress
<1>2. CASE Pending = {m} /\ Pending' = {} /\ toGcs' = replies'
  <2>1. m = ClearAllMessage(PlanType)
    BY <1>1, <1>2
  <2>2. m.id = "MISSION_CLEAR_ALL" /\ m.type = PlanType
    BY <2>1 DEF ClearAllMessage
  <2>3. Vehicle!HandleMissionClearAll(m)
    BY <1>1, <2>2, HandledAs
  <2> QED BY <1>2, <2>2, <2>3, SameMessages DEF Vehicle!HandleMissionClearAll, Vehicle!Reply
<1> QED BY <1>1, <1>2

\* So is every question of a read, but for the first one that a mode ignores.
LEMMA VehicleReadProgress ==
  ASSUME ConstantsAssumption, NEW m, Answering(m)
  PROVE  ReadProgress'
<1> SUFFICES ASSUME Prompt', Reading, failureMode \notin FailsRead
             PROVE  /\ expectedAck = "AckMissionCount" => CountProgress'
                    /\ expectedAck = "AckMissionItem" => ItemProgress'
  BY DEF Answering, ReadProgress, Reading
<1>1. /\ Prompt /\ TransferTypes /\ m \in Outbound /\ Vehicle!HandleMessage(m)
      /\ UNCHANGED <<failureMode, retryCount, itemIndicesToRead>>
      /\ expectedAck = "AckMissionCount" => CountProgress
      /\ expectedAck = "AckMissionItem" => ItemProgress
      /\ \/ Pending' = Pending /\ toGcs' = toGcs /\ Vehicle!IgnoreMessage(m)
         \/ Pending = {m} /\ toGcs = <<>> /\ Pending' = {} /\ toGcs' = replies'
  BY DEF Answering, ReadProgress
<1>2. ASSUME NEW mode, Again(mode), FailsNow(mode) PROVE FailedOnce(mode)'
  BY <1>1, <1>2 DEF Again, FailsNow, FailedOnce
<1>3. CASE Pending' = Pending /\ toGcs' = toGcs /\ Vehicle!IgnoreMessage(m)
  <2>1. failFirst' = failFirst
    BY <1>3 DEF Vehicle!IgnoreMessage
  <2>2. \A mode : Again(mode)' = Again(mode) /\ FailedOnce(mode)' = FailedOnce(mode)
    BY <1>1, <2>1 DEF Again, FailedOnce
  <2>3. CountProgress => CountProgress'
    BY <1>3, <2>2 DEF CountProgress
  <2>4. ItemProgress => ItemProgress'
    BY <1>1, <1>3, <2>2 DEF ItemProgress
  <2> QED BY <1>1, <2>3, <2>4
<1>4. CASE Pending = {m} /\ toGcs = <<>> /\ Pending' = {} /\ toGcs' = replies'
  <2>1. ASSUME expectedAck = "AckMissionCount" PROVE CountProgress'
    <3>1. m = RequestListMessage(PlanType) /\ Again("FailReadRequestListFirstResponse")
      BY <1>1, <1>4, <2>1 DEF CountProgress
    <3>2. Vehicle!HandleMissionRequestList(m)
      BY <1>1, <3>1, HandledAs DEF RequestListMessage
    <3>3. held \in Stores
      BY <1>1 DEF TransferTypes, held, ConstantsAssumption
    <3>4. Cardinality(DOMAIN held) \in Nat
      BY <3>3, StoresAre
    <3>5. \/ replies' = <<CountMessage(PlanType, Cardinality(DOMAIN held))>>
          \/ replies' = <<>> /\ FailsNow("FailReadRequestListFirstResponse")
      BY <1>1, <3>2, ListAnswered DEF FailsRead
    <3> QED BY <1>2, <1>4, <3>1, <3>4, <3>5 DEF CountProgress
  <2>2. ASSUME expectedAck = "AckMissionItem" PROVE ItemProgress'
    <3>1. PICK s \in itemIndicesToRead : m = RequestMessage(PlanType, s)
      BY <1>1, <1>4, <2>2 DEF ItemProgress
    <3>2. Again("FailReadRequest1FirstResponse")
      BY <1>1, <1>4, <2>2 DEF ItemProgress
    <3>3. m.id = "MISSION_REQUEST_INT" /\ m.seq = s
      BY <3>1 DEF RequestMessage
    <3>4. Vehicle!HandleMissionRequest(m)
      BY <1>1, <3>3, HandledAs
    <3>5. requestType = PlanType
      BY <3>3 DEF Answering, TypeKnown
    <3>6. ~AsksWrong(m) /\ SeqFor(m) = s
      BY <3>3 DEF AsksWrong, SeqFor, FailsRead
    <3>7. \/ replies' = <<>> /\ FailsNow("FailReadRequest1FirstResponse")
          \/ \E i \in Item : replies' = <<ItemMessage(PlanType, s, i)>>
      BY <1>1, <3>4, <3>5, <3>6, ItemAnswered
    <3>8. CASE replies' = <<>> /\ FailsNow("FailReadRequest1FirstResponse")
      BY <1>2, <1>4, <3>2, <3>8 DEF ItemProgress
    <3>9. CASE \E i \in Item : replies' = <<ItemMessage(PlanType, s, i)>>
      BY <1>1, <1>4, <3>9 DEF ItemProgress
    <3> QED BY <3>7, <3>8, <3>9
  <2> QED BY <2>1, <2>2
<1> QED BY <1>1, <1>3, <1>4

\* And what is sent of a plan that is written.
LEMMA VehicleSendProgress ==
  ASSUME ConstantsAssumption, NEW m, Answering(m)
  PROVE  SendProgress'
<1> SUFFICES ASSUME Prompt', SendingPlan, failureMode \notin FailsWrite
             PROVE  SendProgress'
  BY DEF Answering, SendProgress, SendingPlan
<1>1. /\ Prompt /\ TransferTypes /\ m \in Outbound /\ Vehicle!HandleMessage(m) /\ SendProgress
      /\ UNCHANGED <<failureMode, retryCount, itemIndicesToWrite, writeMissionItems>>
      /\ \/ Pending' = Pending /\ toGcs' = toGcs /\ Vehicle!IgnoreMessage(m)
         \/ Pending = {m} /\ toGcs = <<>> /\ Pending' = {} /\ toGcs' = replies'
      /\ writeSequenceIndex \in Nat /\ Len(writeMissionItems) \in Nat
      /\ PlanType \in PlanTypes
  BY ConstantsAssumption DEF Answering, TransferTypes, IInv, TypeOK, ConstantsAssumption
<1>2. held \in Stores
  BY <1>1 DEF TransferTypes, held
<1>3. CASE Pending' = Pending /\ toGcs' = toGcs /\ Vehicle!IgnoreMessage(m)
  <2>1. UNCHANGED <<failFirst, stored, writeSequenceCount, writeSequenceIndex>>
    BY <1>3 DEF Vehicle!IgnoreMessage
  <2>2. \A mode : Again(mode)' = Again(mode) /\ FailedOnce(mode)' = FailedOnce(mode)
    BY <1>1, <2>1 DEF Again, FailedOnce
  <2>3. \A first : InSequence(first)' = InSequence(first)
    BY <1>1, <2>1 DEF InSequence, held
  <2> QED BY <1>1, <1>3, <2>1, <2>2, <2>3 DEF SendProgress
<1>4. CASE Pending = {m} /\ toGcs = <<>> /\ Pending' = {} /\ toGcs' = replies'
  <2>1. \/ /\ m = CountMessage(PlanType, Len(writeMissionItems))
           /\ itemIndicesToWrite = 0..(Len(writeMissionItems) - 1)
           /\ Again("FailWriteMissionCountFirstResponse")
        \/ /\ \E i \in Item : m = ItemMessage(PlanType, writeSequenceIndex, i)
           /\ InSequence(writeSequenceIndex + 1)
    BY <1>1, <1>4 DEF SendProgress
  <2>2. CASE /\ m = CountMessage(PlanType, Len(writeMissionItems))
             /\ itemIndicesToWrite = 0..(Len(writeMissionItems) - 1)
             /\ Again("FailWriteMissionCountFirstResponse")
    <3>1. m.id = "MISSION_COUNT" /\ m.count = Len(writeMissionItems)
      BY <2>2 DEF CountMessage
    <3>2. Vehicle!HandleMissionCount(m)
      BY <1>1, <3>1, HandledAs
    <3>3. /\ writeSequenceCount' = Len(writeMissionItems)
          /\ \/ /\ Len(writeMissionItems) = 0
                /\ replies' = <<AckMessage(PlanType, "ACCEPTED")>>
             \/ /\ Len(writeMissionItems) # 0 /\ replies' = <<>>
                /\ FailsNow("FailWriteMissionCountFirstResponse")
             \/ /\ Len(writeMissionItems) # 0 /\ writeSequenceIndex' = 0
                /\ Vehicle!RequestNextItem(PlanType, 0, Len(writeMissionItems))
      BY <1>1, <3>1, <3>2, CountAnswered DEF FailsWrite
    <3>4. CASE Len(writeMissionItems) = 0 /\ replies' = <<AckMessage(PlanType, "ACCEPTED")>>
      <4>1. itemIndicesToWrite' = {}
        BY <1>1, <2>2, <3>4
      <4> QED BY <1>4, <3>4, <4>1 DEF SendProgress
    <3>5. CASE /\ Len(writeMissionItems) # 0 /\ replies' = <<>>
               /\ FailsNow("FailWriteMissionCountFirstResponse")
      <4>1. /\ 0 \in itemIndicesToWrite'
            /\ itemIndicesToWrite' = 0..(Len(writeMissionItems') - 1)
        BY <1>1, <2>2, <3>5
      <4>2. FailedOnce("FailWriteMissionCountFirstResponse")'
        BY <1>1, <2>2, <3>5 DEF Again, FailsNow, FailedOnce
      <4> QED BY <1>4, <3>5, <4>1, <4>2 DEF SendProgress
    <3>6. CASE /\ Len(writeMissionItems) # 0 /\ writeSequenceIndex' = 0
               /\ Vehicle!RequestNextItem(PlanType, 0, Len(writeMissionItems))
      <4>1. replies' = <<RequestMessage(PlanType, 0)>>
        <5>1. ~(0 >= Len(writeMissionItems))
          BY <1>1, <3>6
        <5>2. failureMode # "FailWriteMissionCountNoResponse"
          BY DEF FailsWrite
        <5> QED BY <1>1, <3>6, <5>1, <5>2, NextAsked
      <4>2. DOMAIN held' = 0..(0 - 1)
        BY <1>1, <3>2, CountCase, NoItemsStored
      <4>3. writeSequenceIndex' \in 0..(Len(writeMissionItems') - 1)
        BY <1>1, <3>6
      <4>4. /\ writeSequenceCount' = Len(writeMissionItems')
            /\ itemIndicesToWrite' = 0..(Len(writeMissionItems') - 1)
        BY <1>1, <2>2, <3>3
      <4>5. InSequence(writeSequenceIndex)'
        BY <3>6, <4>2, <4>3, <4>4 DEF InSequence
      <4> QED BY <1>4, <3>6, <4>1, <4>5 DEF SendProgress
    <3> QED BY <3>3, <3>4, <3>5, <3>6
  <2>3. ASSUME NEW i \in Item, m = ItemMessage(PlanType, writeSequenceIndex, i),
               InSequence(writeSequenceIndex + 1)
        PROVE  SendProgress'
    <3>1. /\ m.id = "MISSION_ITEM_INT" /\ m.seq = writeSequenceIndex /\ m.item = i
      BY <2>3 DEF ItemMessage
    <3>2. Vehicle!HandleMissionItem(m) /\ requestType = PlanType
      <4>1. TypeKnown /\ m \in Range(toVehicle)
        BY DEF Answering
      <4> QED BY <1>1, <3>1, <4>1, HandledAs DEF TypeKnown
    <3>3. /\ writeSequenceCount = Len(writeMissionItems)
          /\ DOMAIN held = 0..(writeSequenceIndex - 1)
          /\ itemIndicesToWrite = (writeSequenceIndex + 1)..(Len(writeMissionItems) - 1)
      BY <2>3 DEF InSequence
    <3>4. /\ writeSequenceIndex' = writeSequenceIndex + 1
          /\ writeSequenceCount' = writeSequenceCount
          /\ \/ /\ writeSequenceIndex' < Len(writeMissionItems)
                /\ Vehicle!RequestNextItem(PlanType, writeSequenceIndex', Len(writeMissionItems))
             \/ /\ writeSequenceIndex' >= Len(writeMissionItems)
                /\ replies' = <<AckMessage(PlanType, "ACCEPTED")>>
      BY <1>1, <3>2, <3>3, ItemStoredAnswered DEF FailsWrite
    <3>5. CASE /\ writeSequenceIndex' < Len(writeMissionItems)
               /\ Vehicle!RequestNextItem(PlanType, writeSequenceIndex', Len(writeMissionItems))
      <4>1. replies' = <<RequestMessage(PlanType, writeSequenceIndex')>>
        <5>1. /\ writeSequenceIndex' \in Nat /\ writeSequenceIndex' # 0
              /\ ~(writeSequenceIndex' >= Len(writeMissionItems))
          BY <1>1, <3>4, <3>5
        <5>2. failureMode # "FailWriteFinalAckMissingRequests"
          BY DEF FailsWrite
        <5> QED BY <1>1, <3>5, <5>1, <5>2, NextAsked
      <4>2. DOMAIN held' = 0..(writeSequenceIndex' - 1)
        <5>1. held' = Vehicle!Store(held, writeSequenceIndex, i)
          BY <1>1, <3>1, <3>2, ItemCase
        <5>2. DOMAIN Vehicle!Store(held, writeSequenceIndex, i) = DOMAIN held \cup {writeSequenceIndex}
          BY <1>1, <1>2, StoredOver
        <5>3. DOMAIN held' = 0..(writeSequenceIndex - 1) \cup {writeSequenceIndex}
          BY <3>3, <5>1, <5>2
        <5>4. 0..(writeSequenceIndex - 1) \cup {writeSequenceIndex} = 0..((writeSequenceIndex + 1) - 1)
          BY <1>1
        <5> QED BY <3>4, <5>3, <5>4
      <4>3. /\ writeSequenceIndex' \in 0..(Len(writeMissionItems') - 1)
            /\ writeSequenceCount' = Len(writeMissionItems')
            /\ itemIndicesToWrite' = writeSequenceIndex'..(Len(writeMissionItems') - 1)
        BY <1>1, <3>3, <3>4, <3>5
      <4>4. InSequence(writeSequenceIndex)'
        BY <4>2, <4>3 DEF InSequence
      <4> QED BY <1>4, <4>1, <4>4 DEF SendProgress
    <3>6. CASE /\ writeSequenceIndex' >= Len(writeMissionItems)
               /\ replies' = <<AckMessage(PlanType, "ACCEPTED")>>
      <4>1. itemIndicesToWrite' = {}
        BY <1>1, <3>3, <3>4, <3>6
      <4> QED BY <1>4, <3>6, <4>1 DEF SendProgress
    <3> QED BY <3>4, <3>5, <3>6
  <2> QED BY <2>1, <2>2, <2>3
<1> QED BY <1>1, <1>3, <1>4

LEMMA VehicleOutcomes ==
  ASSUME ConstantsAssumption, OutcomeInv, VehicleReceives
  PROVE  OutcomeInv'
<1> DEFINE m == Head(toVehicle)
<1>1. Answering(m)
  BY VehicleFacts
<1>2. TransferInv' /\ losses' \in Nat
  <2>1. TransferInv /\ losses \in Nat
    BY DEF OutcomeInv
  <2> QED BY <2>1, VehicleKeeps, LossesAreNatural DEF TransferNext
<1> HIDE DEF m
<1>3. TypeKnown' /\ GuidedUnderWay' /\ WriteFails' /\ ReadFails'
  BY <1>1, VehicleTypeKnown, VehicleGuided, VehicleWriteFails, VehicleReadFails
<1>4. SecondIsThere' /\ RemovalProgress' /\ ReadProgress' /\ SendProgress'
  BY <1>1, VehicleSecondIsThere, VehicleRemovalProgress, VehicleReadProgress,
     VehicleSendProgress
<1> QED BY <1>2, <1>3, <1>4 DEF OutcomeInv

-----------------------------------------------------------------------------
(* How transactions end.                                                   *)

\* The vehicle starts with a plan without holes, or with none.  (The vehicle
\* of MockLink starts with none: _missionItems is empty.)
PlansInOrder == \A plan \in InitialPlans : \E n \in Nat : DOMAIN plan = 0..(n - 1)

LEMMA OutcomeInvariantInit ==
  ASSUME ConstantsAssumption, TransferAssumption, PlansInOrder, TransferInit
  PROVE  OutcomeInv
<1>1. TransferInv
  BY TransferInvariantInit
<1>2. /\ transactionInProgress = "TransactionNone" /\ toVehicle = <<>> /\ toGcs = <<>>
      /\ losses = 0
  BY DEF TransferInit, Init
<1>3. TypeKnown
  BY <1>2, RangeIs DEF TypeKnown, Reading
<1>4. SecondIsThere
  <2>1. PlanType \in PlanTypes /\ stored \in [PlanTypes -> InitialPlans]
    BY DEF ConstantsAssumption, TransferInit, Vehicle!HandlerInit, Vehicle!PlanTypes, PlanTypes
  <2>2. held \in InitialPlans
    BY <2>1 DEF held
  <2>3. InOrder
    BY <2>2 DEF PlansInOrder, InOrder
  <2> QED BY <1>2, <2>3 DEF SecondIsThere, Reading
<1>5. /\ GuidedUnderWay /\ WriteFails /\ ReadFails
      /\ RemovalProgress /\ ReadProgress /\ SendProgress
  BY <1>2 DEF GuidedUnderWay, WriteFails, ReadFails, RemovalProgress, ReadProgress,
     SendProgress, Writing, Removing, SendingPlan, Reading
<1> QED BY <1>1, <1>2, <1>3, <1>4, <1>5 DEF OutcomeInv

LEMMA OutcomeInvariantStep ==
  ASSUME ConstantsAssumption, OutcomeInv, [TransferNext]_transferVars
  PROVE  OutcomeInv'
<1>1. CASE UNCHANGED transferVars
  <2>1. UNCHANGED <<expectedAck, retryCount, transactionInProgress, itemIndicesToRead,
                    missionItemCountToRead, missionItems, itemIndicesToWrite,
                    writeMissionItems>>
    BY <1>1 DEF transferVars, vars, readVars, writeVars
  <2>2. UNCHANGED <<stored, requestType, writeSequenceCount, writeSequenceIndex,
                    failureMode, failFirst, toVehicle, toGcs, late, losses, invented>>
    BY <1>1 DEF transferVars, vehicleVars, linkVars
  <2>3. TransferInv' /\ losses' \in Nat /\ TypeKnown' /\ GuidedUnderWay'
    <3>1. TransferInv'
      BY TransferInvariantStep DEF OutcomeInv
    <3> QED BY <2>1, <2>2, <3>1 DEF OutcomeInv, TypeKnown, GuidedUnderWay, Reading
  <2>4. WriteFails' /\ ReadFails' /\ SecondIsThere'
    BY <2>1, <2>2 DEF OutcomeInv, WriteFails, ReadFails, SecondIsThere, Writing, Reading,
       Denied, NeverTold, Withheld, InOrder, held, Prompt
  <2>5. Prompt' = Prompt /\ Pending' = Pending /\ held' = held
    BY <2>2 DEF Prompt, Pending, held
  <2>6. \A mode : Again(mode)' = Again(mode) /\ FailedOnce(mode)' = FailedOnce(mode)
    BY <2>1, <2>2 DEF Again, FailedOnce
  <2>7. RemovalProgress' /\ ReadProgress'
    BY <2>1, <2>2, <2>5, <2>6 DEF OutcomeInv, RemovalProgress, ReadProgress, CountProgress,
       ItemProgress, Removing, Reading
  <2>8. SendProgress'
    BY <2>1, <2>2, <2>5, <2>6 DEF OutcomeInv, SendProgress, InSequence, SendingPlan
  <2> QED BY <2>3, <2>4, <2>7, <2>8 DEF OutcomeInv
<1> QED BY <1>1, CallOutcomes, GcsOutcomes, VehicleOutcomes, TimeoutOutcomes
        DEF TransferNext

\* An ack that refuses ends no transaction well.
LEMMA AckRefused ==
  ASSUME NEW m, m.id = "MISSION_ACK", m.result = "ERROR", inProgress,
         MavlinkMessageReceived(m), transactionInProgress' = "TransactionNone"
  PROVE  outcome'.error
<1>1. ~IgnoreMessage(m)
  BY DEF IgnoreMessage, inProgress
<1>2. HandleMissionAck(m)
  BY <1>1 DEF MavlinkMessageReceived, HandleMissionCount, HandleHomePositionUpdate,
     HandleMissionItem, HandleMissionRequest
<1>3. ~AckSucceeds(m)
  BY DEF AckSucceeds
<1> QED BY <1>2, <1>3 DEF HandleMissionAck, FinishTransaction

\* The facts of a step that ends a transaction while nothing is lost or late:
\* the timer has fired when nothing was under way, or an answer has come in.
Ending(m) ==
  /\ IInv /\ TransferInv /\ inProgress /\ transactionInProgress' = "TransactionNone"
  /\ Prompt /\ Pending = {} /\ PlanType \in PlanTypes /\ MaxRetryCount \in Nat
  /\ WriteFails /\ ReadFails /\ SecondIsThere
  /\ RemovalProgress /\ ReadProgress /\ SendProgress
  /\ \/ /\ toGcs = <<>> /\ outcome'.error
        /\ \/ RetriesExhausted
           \/ expectedAck = "AckMissionRequest" /\ 0 \notin itemIndicesToWrite
           \/ expectedAck = "AckGuidedItem"
     \/ /\ toGcs = <<m>> /\ m \in Answers /\ m \in Range(toGcs)
        /\ MavlinkMessageReceived(m)
        /\ outcome'.error \/ ReadsNothing(m) \/ ReadsLast(m) \/ IsAcknowledged(m)

LEMMA EndingFacts ==
  ASSUME ConstantsAssumption, OutcomeInv, [TransferNext]_transferVars,
         inProgress, transactionInProgress' = "TransactionNone", losses = 0, ~late
  PROVE  \E m : Ending(m)
<1>1. /\ IInv /\ TransferInv /\ Prompt /\ PlanType \in PlanTypes /\ MaxRetryCount \in Nat
      /\ WriteFails /\ ReadFails /\ SecondIsThere
      /\ RemovalProgress /\ ReadProgress /\ SendProgress
  BY DEF OutcomeInv, TransferInv, Prompt, ConstantsAssumption
<1>2. ~Call
  BY <1>1, CallCases DEF Call
<1>3. ~VehicleReceives /\ ~UNCHANGED transferVars
  BY DEF VehicleReceives, transferVars, vars, inProgress
<1>4. CASE Timeout
  <2>1. Pending = {} /\ toGcs = <<>> /\ AckTimeout
    BY <1>1, <1>4, NothingAsked DEF Timeout
  <2>2. outcome'.error
    BY <1>1, <2>1, TimeoutCases DEF Unmoved, inProgress
  <2>3. \/ RetriesExhausted
        \/ expectedAck = "AckMissionRequest" /\ 0 \notin itemIndicesToWrite
        \/ expectedAck = "AckGuidedItem"
    BY <2>1, TimeoutCounts DEF inProgress
  <2> QED BY <1>1, <2>1, <2>2, <2>3 DEF Ending
<1>5. CASE GcsReceives
  <2> DEFINE m == Head(toGcs)
  <2>1. Pending = {} /\ toGcs = <<m>> /\ m \in Answers
    BY <1>1, <1>5, NothingAsked
  <2>2. MavlinkMessageReceived(m)
    BY <1>5 DEF GcsReceives
  <2> HIDE DEF m
  <2>3. m \in Range(toGcs)
    BY <2>1, RangeIs
  <2>4. outcome'.error \/ ReadsNothing(m) \/ ReadsLast(m) \/ IsAcknowledged(m)
    BY <1>1, <2>1, <2>2, MessageCases DEF Unmoved, Announced, Taken, Asked, Reading,
       SendingPlan, inProgress
  <2> QED BY <1>1, <2>1, <2>2, <2>3, <2>4 DEF Ending
<1> QED BY <1>2, <1>3, <1>4, <1>5 DEF TransferNext

\* What a transaction waits for, by its kind.
LEMMA AwaitedOf ==
  ASSUME NEW m, Ending(m)
  PROVE  /\ Reading => expectedAck \in {"AckMissionCount", "AckMissionItem"}
         /\ Removing => expectedAck = "AckMissionClearAll"
         /\ Reading => ~Removing /\ ~SendingPlan
         /\ ~RetriesExhausted \/ retryCount # 0
BY DEF Ending, IInv, NeverStranded, Reading, Removing, SendingPlan, inProgress,
   RetriesExhausted

LEMMA ReadOutcome ==
  ASSUME ConstantsAssumption, NEW m, Ending(m), Reading, Cardinality(DOMAIN held) >= 2
  PROVE  outcome'.error <=> failureMode \in FailsRead
<1>1. ASSUME failureMode \notin FailsRead PROVE ~outcome'.error
  <2>1. CASE expectedAck = "AckMissionCount"
    <3>1. \/ \E c \in Nat : toGcs = <<CountMessage(PlanType, c)>>
          \/ toGcs = <<>> /\ retryCount = 0
      BY <1>1, <2>1 DEF Ending, ReadProgress, CountProgress, FailedOnce
    <3>2. ~(toGcs = <<>> /\ retryCount = 0)
      BY <2>1, AwaitedOf DEF Ending
    <3>3. PICK c \in Nat : m = CountMessage(PlanType, c)
      BY <3>1, <3>2 DEF Ending
    <3>4. IInv /\ MavlinkMessageReceived(m) /\ PlanType \in PlanTypes
      BY <3>1, <3>2 DEF Ending
    <3>5. Done \/ Announced(m)
      BY <2>1, <3>3, <3>4, CountTaken
    <3> QED BY <3>5 DEF Done, Announced, Ending, Reading
  <2>2. CASE expectedAck = "AckMissionItem"
    <3>1. \/ \E s \in itemIndicesToRead, i \in Item : toGcs = <<ItemMessage(PlanType, s, i)>>
          \/ toGcs = <<>> /\ retryCount = 0
      BY <1>1, <2>2 DEF Ending, ReadProgress, ItemProgress, FailedOnce
    <3>2. ~(toGcs = <<>> /\ retryCount = 0)
      BY <2>2, AwaitedOf DEF Ending
    <3>3. PICK s \in itemIndicesToRead, i \in Item : toGcs = <<ItemMessage(PlanType, s, i)>>
      BY <3>1, <3>2
    <3>4. /\ toGcs = <<m>> /\ IInv /\ MavlinkMessageReceived(m) /\ PlanType \in PlanTypes
      BY <3>3 DEF Ending
    <3>5. m = ItemMessage(PlanType, s, i)
      BY <3>3, <3>4
    <3>6. Done \/ Taken(m)
      BY <2>2, <3>4, <3>5, ItemTaken
    <3> QED BY <3>6 DEF Done, Taken, Ending, Reading
  <2> QED BY <2>1, <2>2, AwaitedOf
<1>2. ASSUME failureMode \in FailsRead, ~outcome'.error PROVE FALSE
  <2>1. /\ m \in Range(toGcs) /\ IInv /\ ReadFails /\ SecondIsThere /\ ReadData /\ Prompt
        /\ ReadsNothing(m) \/ ReadsLast(m) \/ IsAcknowledged(m)
    BY <1>2 DEF Ending, TransferInv
  <2>2. CASE ReadsNothing(m)
    BY <2>1, <2>2 DEF ReadsNothing, ReadFails, ReadData
  <2>3. CASE ReadsLast(m)
    <3>1. /\ m.id = "MISSION_ITEM_INT" /\ expectedAck = "AckMissionItem"
          /\ itemIndicesToRead = {m.seq}
      BY <2>3 DEF ReadsLast
    <3>2. missionItemCountToRead \in Nat /\ missionItemCountToRead # 0
      BY <2>1, <3>1, ReadFacts
    <3>3. ~Withheld(m.seq)
      BY <2>1, <3>1 DEF ReadFails
    <3>4. CASE Withheld(0)
      <4>1. 0 \in itemIndicesToRead
        BY <2>1, <3>1, <3>2, <3>4 DEF ReadFails
      <4> QED BY <3>1, <3>3, <3>4, <4>1
    <3>5. CASE Withheld(1)
      <4>1. missionItemCountToRead # 1
        <5>1. Cardinality({0}) = 1
          BY FS_Singleton
        <5> QED BY <2>1, <3>1, <3>5, <5>1 DEF SecondIsThere
      <4>2. 1 \in itemIndicesToRead
        BY <2>1, <3>1, <3>2, <3>5, <4>1 DEF ReadFails
      <4> QED BY <3>1, <3>3, <3>5, <4>2
    <3>6. failureMode # "FailReadRequestListNoResponse"
      BY <2>1, <3>1 DEF ReadFails
    <3> QED BY <1>2, <3>4, <3>5, <3>6 DEF Withheld, FailsRead
  <2>4. CASE IsAcknowledged(m)
    BY <2>4, AwaitedOf DEF IsAcknowledged
  <2> QED BY <2>1, <2>2, <2>3, <2>4
<1> QED BY <1>1, <1>2 DEF Ending

\* A write of four items or more.
LEMMA WriteOutcome ==
  ASSUME ConstantsAssumption, NEW m, Ending(m),
         transactionInProgress = "TransactionWrite", Len(writeMissionItems) >= 4
  PROVE  outcome'.error <=> failureMode \in FailsWrite
<1>1. /\ SendingPlan /\ ~Reading /\ ~Removing
      /\ Len(writeMissionItems) \in Nat /\ writeMissionItems # <<>>
  <2>1. writeMissionItems # <<>>
    OBVIOUS
  <2> QED BY <2>1 DEF Ending, IInv, TypeOK, WriteAccounting, SendingPlan, Reading, Removing
<1>2. ASSUME failureMode \notin FailsWrite PROVE ~outcome'.error
  <2>1. /\ Pending = {} /\ IInv /\ PlanType \in PlanTypes /\ expectedAck = "AckMissionRequest"
        /\ toGcs # <<>> => toGcs = <<m>> /\ MavlinkMessageReceived(m)
        /\ toGcs = <<>> => RetriesExhausted \/ 0 \notin itemIndicesToWrite
    BY <1>1 DEF Ending, SendingPlan
  <2>2. \/ toGcs = <<>> /\ 0 \in itemIndicesToWrite /\ retryCount = 0
        \/ /\ toGcs = <<RequestMessage(PlanType, writeSequenceIndex)>>
           /\ writeSequenceIndex \in 0..(Len(writeMissionItems) - 1)
        \/ toGcs = <<AckMessage(PlanType, "ACCEPTED")>> /\ itemIndicesToWrite = {}
    BY <1>1, <1>2 DEF Ending, SendProgress, InSequence, FailedOnce
  <2>3. CASE toGcs = <<>> /\ 0 \in itemIndicesToWrite /\ retryCount = 0
    BY <2>1, <2>3, AwaitedOf
  <2>4. CASE /\ toGcs = <<RequestMessage(PlanType, writeSequenceIndex)>>
             /\ writeSequenceIndex \in 0..(Len(writeMissionItems) - 1)
    <3>1. m = RequestMessage(PlanType, writeSequenceIndex)
      BY <2>1, <2>4
    <3>2. Asked(m)
      BY <1>1, <2>1, <2>4, <3>1, RequestTaken
    <3> QED BY <3>2 DEF Asked, SendingPlan, Ending
  <2>5. CASE toGcs = <<AckMessage(PlanType, "ACCEPTED")>> /\ itemIndicesToWrite = {}
    <3>1. m = AckMessage(PlanType, "ACCEPTED")
      BY <2>1, <2>5
    <3>2. Done
      BY <1>1, <2>1, <2>5, <3>1, AckTaken
    <3> QED BY <3>2 DEF Done
  <2> QED BY <2>2, <2>3, <2>4, <2>5
<1>3. ASSUME failureMode \in FailsWrite, ~outcome'.error PROVE FALSE
  <2>1. /\ m \in Range(toGcs) /\ MavlinkMessageReceived(m) /\ inProgress
        /\ transactionInProgress' = "TransactionNone"
        /\ m.id = "MISSION_ACK" /\ itemIndicesToWrite = {}
    BY <1>1, <1>3 DEF Ending, ReadsNothing, ReadsLast, IsAcknowledged, SendingPlan
  <2>2. m.result # "ERROR"
    BY <1>3, <2>1, AckRefused
  <2>3. /\ \A d \in 0..(Len(writeMissionItems) - 1) : ~Denied(d)
        /\ ~NeverTold
    BY <1>1, <2>1, <2>2 DEF Ending, WriteFails, Writing, SendingPlan, Prompt
  <2>4. {0, 1, 3} \subseteq 0..(Len(writeMissionItems) - 1)
    BY <1>1
  <2>5. ~Denied(0) /\ ~Denied(1) /\ ~Denied(3)
    BY <2>3, <2>4
  <2> QED BY <1>3, <2>3, <2>5 DEF Denied, NeverTold, FailsWrite
<1> QED BY <1>2, <1>3 DEF Ending

\* A removal.
LEMMA RemoveAllOutcome ==
  ASSUME ConstantsAssumption, NEW m, Ending(m), Removing
  PROVE  ~outcome'.error
<1>1. /\ toGcs = <<AckMessage(PlanType, "ACCEPTED")>>
      /\ IInv /\ (toGcs = <<>> \/ (toGcs = <<m>> /\ MavlinkMessageReceived(m)))
  BY DEF Ending, RemovalProgress
<1>2. m = AckMessage(PlanType, "ACCEPTED") /\ MavlinkMessageReceived(m)
  BY <1>1
<1>3. Done
  BY <1>1, <1>2, AckTaken
<1> QED BY <1>3 DEF Done

LEMMA OutcomeStep ==
  ASSUME ConstantsAssumption, OutcomeInv, [TransferNext]_transferVars,
         inProgress /\ transactionInProgress' = "TransactionNone"
           /\ losses = 0 /\ ~late
  PROVE  CASE transactionInProgress = "TransactionRead" ->
                Cardinality(DOMAIN stored[PlanType]) >= 2 =>
                  (outcome'.error <=> failureMode \in FailsRead)
           [] transactionInProgress = "TransactionWrite" ->
                Len(writeMissionItems) >= 4 =>
                  (outcome'.error <=> failureMode \in FailsWrite)
           [] OTHER -> ~outcome'.error
<1>1. PICK m : Ending(m)
  BY EndingFacts
<1>2. CASE transactionInProgress = "TransactionRead"
  <2>1. Cardinality(DOMAIN stored[PlanType]) >= 2 =>
          (outcome'.error <=> failureMode \in FailsRead)
    BY <1>1, <1>2, ReadOutcome DEF Reading, held
  <2> QED BY <1>2, <2>1
<1>3. CASE transactionInProgress = "TransactionWrite"
  <2>1. Len(writeMissionItems) >= 4 => (outcome'.error <=> failureMode \in FailsWrite)
    BY <1>1, <1>3, WriteOutcome
  <2> QED BY <1>3, <2>1
<1>4. CASE /\ transactionInProgress # "TransactionRead"
           /\ transactionInProgress # "TransactionWrite"
  <2>1. Removing
    BY <1>1, <1>4 DEF Ending, IInv, TypeOK, TransactionTypes, inProgress, Removing
  <2>2. ~outcome'.error
    BY <1>1, <2>1, RemoveAllOutcome
  <2> QED BY <1>4, <2>2
<1> QED BY <1>2, <1>3, <1>4

\* On a link that loses nothing and answers before the timer fires, the
\* manager and the vehicle end every transaction as the tests of
\* MissionManager expect it: a read or a write fails in exactly the failure
\* modes that are listed for it, whatever the size of the plan, after any
\* number of operations, and a removal in none.  The vehicle starts without
\* holes in its plan (MissionManagerTest.cc:235-247, 281-292).
THEOREM OutcomesAsTestedHolds ==
  ASSUME PlansInOrder
  PROVE  TransferSpec => OutcomesAsTested
<1>1. TransferInit => OutcomeInv
  BY OutcomeInvariantInit, ConstantsAssumption, TransferAssumption
<1>2. OutcomeInv /\ [TransferNext]_transferVars => OutcomeInv'
  BY OutcomeInvariantStep, ConstantsAssumption
<1>3. OutcomeInv /\ [TransferNext]_transferVars =>
        [inProgress /\ transactionInProgress' = "TransactionNone"
         /\ losses = 0 /\ ~late =>
           CASE transactionInProgress = "TransactionRead" ->
                  Cardinality(DOMAIN stored[PlanType]) >= 2 =>
                    (outcome'.error <=> failureMode \in FailsRead)
             [] transactionInProgress = "TransactionWrite" ->
                  Len(writeMissionItems) >= 4 =>
                    (outcome'.error <=> failureMode \in FailsWrite)
             [] OTHER -> ~outcome'.error]_transferVars
  BY OutcomeStep, ConstantsAssumption
<1>4. TransferSpec => TransferInit /\ [][TransferNext]_transferVars
  BY DEF TransferSpec
<1> HIDE DEF TransferSpec
<1> QED BY <1>1, <1>2, <1>3, <1>4, PTL DEF OutcomesAsTested

=============================================================================
