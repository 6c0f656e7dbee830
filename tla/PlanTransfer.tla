---------------------------- MODULE PlanTransfer ----------------------------
(***************************************************************************)
(* A PlanManager and the vehicle of MockLink, joined by a link that keeps  *)
(* the order of messages and may lose them.  The ground station's timer is *)
(* either slower than any answer that was not lost, or may fire while      *)
(* answers are still under way (late); the application then waits for the  *)
(* link to fall quiet before it calls the next operation.                  *)
(***************************************************************************)
EXTENDS PlanManager

CONSTANTS
  MaxTransactions,     \* bound: operations the application calls
  MaxLosses,           \* bound: messages the link loses
  Modes,               \* failure modes of the vehicle
  InitialPlans         \* plans the vehicle may hold at start

ASSUME TransferAssumption ==
  /\ MaxTransactions \in Nat
  /\ MaxLosses \in Nat
  /\ \A plan \in InitialPlans :
       /\ IsFiniteSet(DOMAIN plan) /\ DOMAIN plan \subseteq Nat
       /\ plan = [s \in DOMAIN plan |-> plan[s]]
       /\ \A s \in DOMAIN plan : plan[s] \in Item

VARIABLES
  stored, requestType, writeSequenceCount, writeSequenceIndex,
  failureMode, failFirst, replies,   \* the vehicle
  toVehicle, toGcs,                  \* messages under way
  late,                              \* answers may take longer than the timer
  losses, transactions,              \* used so far
  invented                           \* an item the vehicle was asked for in this
                                     \* transaction was not there, and now is

Vehicle == INSTANCE MockLinkMissionItemHandler

vehicleVars == <<stored, requestType, writeSequenceCount, writeSequenceIndex,
                 failureMode, failFirst, replies>>
linkVars == <<toVehicle, toGcs, late, losses>>
transferVars == <<vars, vehicleVars, linkVars, transactions, invented>>

-----------------------------------------------------------------------------
(* The link.  What a step sends is queued or lost.                         *)

Carry(queue, messages) ==
  /\ \/ /\ queue' = queue \o messages
        /\ losses' = losses
     \/ /\ messages # <<>>
        /\ losses < MaxLosses
        /\ queue' = queue
        /\ losses' = losses + 1
  /\ late' = late

\* Nothing is under way that will be answered or is an answer.
Quiet ==
  /\ toGcs = <<>>
  /\ \A i \in 1..Len(toVehicle) : toVehicle[i].id = "MISSION_ACK"

\* The application calls an operation.
Call ==
  /\ transactions < MaxTransactions
  /\ ~late \/ Quiet
  /\ ApplicationCall
  /\ transactions' = transactions + 1
  /\ invented' = FALSE
  /\ Carry(toVehicle, sent')
  /\ UNCHANGED <<toGcs, vehicleVars>>

\* The ground station receives a message.
GcsReceives ==
  /\ toGcs # <<>>
  /\ MavlinkMessageReceived(Head(toGcs))
  /\ toGcs' = Tail(toGcs)
  /\ Carry(toVehicle, sent')
  /\ UNCHANGED <<transactions, invented, vehicleVars>>

\* The vehicle receives a message.
VehicleReceives ==
  /\ toVehicle # <<>>
  /\ Vehicle!HandleMessage(Head(toVehicle))
  /\ toVehicle' = Tail(toVehicle)
  /\ Carry(toGcs, replies')
  /\ invented' = \/ invented
                 \/ Head(toVehicle).id = "MISSION_REQUEST_INT" /\ stored' # stored
  /\ UNCHANGED <<transactions, vars>>

\* The ground station's timer fires.
Timeout ==
  /\ late \/ Quiet
  /\ AckTimeout
  /\ Carry(toVehicle, sent')
  /\ UNCHANGED <<toGcs, transactions, invented, vehicleVars>>

TransferInit ==
  /\ Init
  /\ Vehicle!HandlerInit(InitialPlans, Modes)
  /\ \A t \in PlanTypes \ {PlanType} : stored[t] = Vehicle!NoItems
  /\ toVehicle = <<>>
  /\ toGcs = <<>>
  /\ late \in BOOLEAN
  /\ late => failureMode = "FailNone"
  /\ losses = 0
  /\ transactions = 0
  /\ invented = FALSE

TransferNext == Call \/ GcsReceives \/ VehicleReceives \/ Timeout

\* The event loops on both sides and the timer keep running.
Fairness ==
  /\ WF_transferVars(GcsReceives)
  /\ WF_transferVars(VehicleReceives)
  /\ WF_transferVars(Timeout)

TransferSpec == TransferInit /\ [][TransferNext]_transferVars /\ Fairness

-----------------------------------------------------------------------------
(* Properties.                                                             *)

\* The vehicle holds the plan entries, all of it and nothing else.
VehicleHolds(entries) ==
  /\ DOMAIN stored[PlanType] = 0..(Len(entries) - 1)
  /\ \A k \in 1..Len(entries) :
       /\ entries[k].seq = k - 1
       /\ stored[PlanType][k - 1] = ItemOf(entries[k])

Succeeds(signal) ==
  /\ inProgress /\ transactionInProgress' = "TransactionNone"
  /\ outcome'.signal = signal /\ ~outcome'.error

\* When a write is reported to have succeeded (sendComplete(false)), the
\* vehicle holds exactly the plan that was written - unless answers are late:
\* a MISSION_ACK does not say which write it is for.  When a removal is, it
\* holds no plan.
ReportedIsDone ==
  [][/\ Succeeds("sendComplete") /\ ~late => VehicleHolds(writeMissionItems)
     /\ Succeeds("removeAllComplete") =>
          stored[PlanType] = Vehicle!NoItems]_transferVars

\* When a read is reported to have succeeded, the cached plan is the
\* vehicle's, in order and with DO_JUMP targets moved to the ground station's
\* numbering - unless the vehicle was asked for an item it did not have: the
\* operator[] it looks it up with inserts one (MockLinkMissionItemHandler.cc:212),
\* so that it then holds more than the number it has announced.
PlanRead(entries) ==
  /\ Len(entries) = Cardinality(DOMAIN stored[PlanType])
  /\ \A k \in 1..Len(entries) :
       /\ k - 1 \in DOMAIN stored[PlanType]
       /\ entries[k] = Entry(k - 1, FromVehicle(stored[PlanType][k - 1]))

ReadPlanIsTheVehicles ==
  [][Succeeds("newMissionItemsAvailable") /\ ~invented =>
       PlanRead(missionItems')]_transferVars

\* Every transaction ends.
TransactionsEnd == inProgress ~> ~inProgress

\* On a link that loses nothing a transaction of enough items fails exactly
\* in the failure modes the tests of MissionManager expect it to fail in
\* (MissionManagerTest.cc:235-247, 281-292).
FailsWrite ==
  {"FailWriteMissionCountNoResponse", "FailWriteRequest1NoResponse",
   "FailWriteRequest0IncorrectSequence", "FailWriteRequest1IncorrectSequence",
   "FailWriteRequest0ErrorAck", "FailWriteRequest1ErrorAck",
   "FailWriteFinalAckNoResponse", "FailWriteFinalAckErrorAck",
   "FailWriteFinalAckMissingRequests"}
FailsRead ==
  {"FailReadRequestListNoResponse", "FailReadRequest0NoResponse",
   "FailReadRequest1NoResponse", "FailReadRequest0IncorrectSequence",
   "FailReadRequest1IncorrectSequence", "FailReadRequest0ErrorAck",
   "FailReadRequest1ErrorAck"}

OutcomesAsTested ==
  [][inProgress /\ transactionInProgress' = "TransactionNone"
     /\ losses = 0 /\ ~late =>
       CASE transactionInProgress = "TransactionRead" ->
              Cardinality(DOMAIN stored[PlanType]) >= 2 =>
                (outcome'.error <=> failureMode \in FailsRead)
         [] transactionInProgress = "TransactionWrite" ->
              Len(writeMissionItems) >= 4 =>
                (outcome'.error <=> failureMode \in FailsWrite)
         [] OTHER -> ~outcome'.error]_transferVars

=============================================================================
