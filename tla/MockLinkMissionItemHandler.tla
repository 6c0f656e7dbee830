--------------------- MODULE MockLinkMissionItemHandler ---------------------
(***************************************************************************)
(* MockLinkMissionItemHandler                                              *)
(* (src/src/Comms/MockLink/MockLinkMissionItemHandler.cc): the vehicle's   *)
(* half of the MAVLink mission protocol, as the repository simulates it.   *)
(* Its failure modes are those the tests of MissionManager go through.     *)
(*                                                                         *)
(* The option _sendHomePositionOnEmptyList, which nothing sets, is off.    *)
(* The timer for the next MISSION_ITEM_INT is left out: all it does is to  *)
(* fail an assertion of the test build.                                    *)
(***************************************************************************)
EXTENDS PlanMessages, Sequences, FiniteSets

VARIABLES
  stored,               \* _missionItems, _fenceItems, _rallyItems: per plan
                        \* type, a function of sequence number to item
  requestType,          \* _requestType
  writeSequenceCount,   \* _writeSequenceCount
  writeSequenceIndex,   \* _writeSequenceIndex
  failureMode,          \* _failureMode
  failFirst,            \* the modes *FirstResponse that have not failed yet
  replies               \* messages handed to the link in the last step

handlerVars == <<stored, requestType, writeSequenceCount, writeSequenceIndex,
                 failureMode, failFirst, replies>>

FirstResponseModes ==
  {"FailReadRequestListFirstResponse", "FailReadRequest1FirstResponse",
   "FailWriteMissionCountFirstResponse"}

FailureModes == FirstResponseModes \cup
  {"FailNone",
   "FailReadRequestListNoResponse", "FailReadRequest0NoResponse",
   "FailReadRequest1NoResponse", "FailReadRequest0IncorrectSequence",
   "FailReadRequest1IncorrectSequence", "FailReadRequest0ErrorAck",
   "FailReadRequest1ErrorAck",
   "FailWriteMissionCountNoResponse", "FailWriteRequest1NoResponse",
   "FailWriteRequest0IncorrectSequence", "FailWriteRequest1IncorrectSequence",
   "FailWriteRequest0ErrorAck", "FailWriteRequest1ErrorAck",
   "FailWriteFinalAckNoResponse", "FailWriteFinalAckErrorAck",
   "FailWriteFinalAckMissingRequests"}

\* Storing at a sequence number, as QMap::operator[] does.
Store(items, seq, item) ==
  [s \in DOMAIN items \cup {seq} |-> IF s = seq THEN item ELSE items[s]]

NoItems == [s \in {} |-> NoItem]

Reply(m) == replies' = <<m>>
NoReply  == replies' = <<>>

-----------------------------------------------------------------------------

HandleMissionClearAll(m) ==
  /\ m.id = "MISSION_CLEAR_ALL"
  /\ requestType' = m.type
  /\ stored' = [stored EXCEPT ![m.type] = NoItems]
  /\ Reply(AckMessage(m.type, "ACCEPTED"))
  /\ UNCHANGED <<writeSequenceCount, writeSequenceIndex, failureMode, failFirst>>

ItemCount(type) == Cardinality(DOMAIN stored[type])

HandleMissionRequestList(m) ==
  LET mode      == "FailReadRequestListFirstResponse"
      failsOnce == failureMode = mode /\ mode \in failFirst
      item1     == "FailReadRequest1FirstResponse"
  IN  /\ m.id = "MISSION_REQUEST_LIST"
      /\ \/ /\ failureMode = "FailReadRequestListNoResponse"
            /\ failFirst' = failFirst \cup {item1}
            /\ NoReply
            /\ UNCHANGED requestType
         \/ /\ failsOnce
            /\ failFirst' = (failFirst \ {mode}) \cup {item1}
            /\ NoReply
            /\ UNCHANGED requestType
         \/ /\ failureMode # "FailReadRequestListNoResponse" /\ ~failsOnce
            /\ failFirst' = failFirst \cup {mode, item1}
            /\ requestType' = m.type
            /\ Reply(CountMessage(m.type, ItemCount(m.type)))
      /\ UNCHANGED <<stored, writeSequenceCount, writeSequenceIndex, failureMode>>

HandleMissionRequest(m) ==
  LET mode      == "FailReadRequest1FirstResponse"
      failsOnce == failureMode = mode /\ m.seq = 1 /\ mode \in failFirst
      silent    == \/ failureMode = "FailReadRequest0NoResponse" /\ m.seq = 0
                   \/ failureMode = "FailReadRequest1NoResponse" /\ m.seq = 1
                   \/ failsOnce
      wrong     == \/ failureMode = "FailReadRequest0IncorrectSequence" /\ m.seq = 0
                   \/ failureMode = "FailReadRequest1IncorrectSequence" /\ m.seq = 1
      seq       == IF wrong THEN m.seq + 1 ELSE m.seq
      refused   == \/ failureMode = "FailReadRequest0ErrorAck" /\ seq = 0
                   \/ failureMode = "FailReadRequest1ErrorAck" /\ seq = 1
      items     == stored[m.type]
  IN  /\ m.id = "MISSION_REQUEST_INT"
      /\ \/ /\ silent
            /\ failFirst' = IF failsOnce THEN failFirst \ {mode} ELSE failFirst
            /\ NoReply
            /\ UNCHANGED stored
         \/ /\ refused
            /\ Reply(AckMessage(requestType, "ERROR"))
            /\ UNCHANGED <<stored, failFirst>>
         \/ /\ ~silent /\ ~refused
            /\ \/ /\ seq \in DOMAIN items
                  /\ Reply(ItemMessage(requestType, seq, items[seq]))
                  /\ UNCHANGED stored
               \/ /\ seq \notin DOMAIN items   \* operator[] inserts it
                  /\ Reply(ItemMessage(requestType, seq, NoItem))
                  /\ stored' = [stored EXCEPT ![m.type] = Store(@, seq, NoItem)]
            /\ UNCHANGED failFirst
      /\ UNCHANGED <<requestType, writeSequenceCount, writeSequenceIndex, failureMode>>

\* _requestNextMissionItem
RequestNextItem(type, seq, count) ==
  LET silent  == \/ failureMode = "FailWriteRequest1NoResponse" /\ seq = 1
                 \/ seq >= count
      wrong   == \/ failureMode = "FailWriteRequest0IncorrectSequence" /\ seq = 0
                 \/ failureMode = "FailWriteRequest1IncorrectSequence" /\ seq = 1
      refused == \/ failureMode = "FailWriteRequest0ErrorAck" /\ seq = 0
                 \/ failureMode = "FailWriteRequest1ErrorAck" /\ seq = 1
  IN  replies' =
        IF silent THEN <<>>
        ELSE IF refused THEN <<AckMessage(type, "ERROR")>>
        ELSE <<RequestMessage(type, IF wrong THEN seq + 1 ELSE seq)>>

\* An empty plan is acknowledged at once, without entering the write sequence.
HandleMissionCount(m) ==
  LET mode      == "FailWriteMissionCountFirstResponse"
      failsOnce == failureMode = mode /\ mode \in failFirst
      silent    == failureMode = "FailWriteMissionCountNoResponse" \/ failsOnce
  IN  /\ m.id = "MISSION_COUNT"
      /\ requestType' = m.type
      /\ writeSequenceCount' = m.count
      /\ stored' = [stored EXCEPT ![m.type] = NoItems]
      /\ \/ /\ m.count = 0
            /\ Reply(AckMessage(m.type, "ACCEPTED"))
            /\ UNCHANGED <<failFirst, writeSequenceIndex>>
         \/ /\ m.count # 0 /\ silent
            /\ failFirst' = IF failsOnce THEN failFirst \ {mode} ELSE failFirst
            /\ NoReply
            /\ UNCHANGED writeSequenceIndex
         \/ /\ m.count # 0 /\ ~silent
            /\ failFirst' = failFirst \cup {mode}
            /\ writeSequenceIndex' = 0
            /\ RequestNextItem(m.type, 0, m.count)
      /\ UNCHANGED failureMode

FinalAck == IF failureMode = "FailWriteFinalAckErrorAck" THEN "ERROR" ELSE "ACCEPTED"

HandleMissionItem(m) ==
  /\ m.id = "MISSION_ITEM_INT"
  /\ stored' = [stored EXCEPT ![m.type] = Store(@, m.seq, m.item)]
  /\ writeSequenceIndex' = writeSequenceIndex + 1
  /\ \/ /\ writeSequenceIndex' < writeSequenceCount
        /\ \/ /\ failureMode = "FailWriteFinalAckMissingRequests"
              /\ writeSequenceIndex' = 3
              /\ Reply(AckMessage(requestType, "ACCEPTED"))
           \/ /\ ~(failureMode = "FailWriteFinalAckMissingRequests"
                     /\ writeSequenceIndex' = 3)
              /\ RequestNextItem(requestType, writeSequenceIndex', writeSequenceCount)
     \/ /\ writeSequenceIndex' >= writeSequenceCount
        /\ failureMode # "FailWriteFinalAckNoResponse"
        /\ Reply(AckMessage(requestType, FinalAck))
     \/ /\ writeSequenceIndex' >= writeSequenceCount
        /\ failureMode = "FailWriteFinalAckNoResponse"
        /\ NoReply
  /\ UNCHANGED <<requestType, writeSequenceCount, failureMode, failFirst>>

\* MISSION_ACK is accepted without effect; the MISSION_ITEM of a guided
\* command is not one of the handled messages.
IgnoreMessage(m) ==
  /\ m.id \in {"MISSION_ACK", "MISSION_ITEM"}
  /\ NoReply
  /\ UNCHANGED <<stored, requestType, writeSequenceCount, writeSequenceIndex,
                 failureMode, failFirst>>

HandleMessage(m) ==
  \/ HandleMissionClearAll(m)
  \/ HandleMissionRequestList(m)
  \/ HandleMissionRequest(m)
  \/ HandleMissionCount(m)
  \/ HandleMissionItem(m)
  \/ IgnoreMessage(m)

\* The vehicle may already hold a plan and may be in any failure mode of modes.
HandlerInit(plans, modes) ==
  /\ stored \in [PlanTypes -> plans]
  /\ requestType = "mission"
  /\ writeSequenceCount = 0
  /\ writeSequenceIndex = 0
  /\ failureMode \in modes
  /\ failFirst = FirstResponseModes
  /\ replies = <<>>

=============================================================================
