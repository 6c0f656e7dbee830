--------------------------- MODULE PlanTransaction ---------------------------
(***************************************************************************)
(* What a PlanManager promises its clients (PlanManager.h:39-54): at most  *)
(* one transaction at a time; every transaction ends by one completion of  *)
(* its own kind; and the cached plan changes only as a whole.  A read      *)
(* leaves either a complete plan, in which every index from 0 occurs once, *)
(* or an empty one; a write leaves either the plan that was passed or the  *)
(* plan that was there before.                                             *)
(***************************************************************************)
EXTENDS Integers, Sequences

CONSTANT MissionItem   \* entries of a plan, records with a field seq

VARIABLES
  transaction,   \* the transaction in progress
  plan,          \* the plan a client sees; empty while a read replaces it
  pending,       \* the plan being written
  resuming,      \* the write in progress is that of a resume mission
  outcome        \* how the last transaction ended, as signalled

vars == <<transaction, plan, pending, resuming, outcome>>

Running == [signal |-> "none", error |-> FALSE, resume |-> "none"]

\* Every index below the length occurs exactly once.
Complete(list) ==
  /\ \A i \in 1..Len(list) : list[i].seq \in 0..(Len(list) - 1)
  /\ \A i, j \in 1..Len(list) : list[i].seq = list[j].seq => i = j

Ends(signal, error) ==
  /\ transaction' = "TransactionNone"
  /\ resuming' = FALSE
  /\ outcome' = [signal |-> signal, error |-> error,
                 resume |-> IF ~resuming THEN "none"
                            ELSE IF error THEN "resumeMissionUploadFail"
                            ELSE "resumeMissionReady"]

Starts(kind) ==
  /\ transaction = "TransactionNone"
  /\ transaction' = kind
  /\ outcome' = Running

StartRead ==
  /\ Starts("TransactionRead")
  /\ plan' = <<>>
  /\ UNCHANGED <<pending, resuming>>

\* The write of a plan, of a resume mission, or of a guided item.
StartWrite ==
  /\ Starts("TransactionWrite")
  /\ pending' \in Seq(MissionItem)
  /\ resuming' \in BOOLEAN
  /\ UNCHANGED plan

StartRemoveAll ==
  /\ Starts("TransactionRemoveAll")
  /\ plan' = <<>>
  /\ UNCHANGED <<pending, resuming>>

EndRead ==
  /\ transaction = "TransactionRead"
  /\ \/ Ends("newMissionItemsAvailable", FALSE)
        /\ plan' \in Seq(MissionItem)
        /\ Complete(plan')
     \/ Ends("newMissionItemsAvailable", TRUE)
        /\ plan' = <<>>
  /\ UNCHANGED pending

EndWrite ==
  /\ transaction = "TransactionWrite"
  /\ \/ Ends("sendComplete", FALSE) /\ plan' = pending
     \/ Ends("sendComplete", TRUE) /\ UNCHANGED plan
  /\ pending' = <<>>

\* A guided item is not part of the plan and its end is not signalled.
EndGuidedWrite ==
  /\ transaction = "TransactionWrite"
  /\ pending = <<>>
  /\ \E error \in BOOLEAN : Ends("none", error)
  /\ UNCHANGED <<plan, pending>>

EndRemoveAll ==
  /\ transaction = "TransactionRemoveAll"
  /\ \E error \in BOOLEAN : Ends("removeAllComplete", error)
  /\ UNCHANGED <<plan, pending>>

Init ==
  /\ transaction = "TransactionNone"
  /\ plan = <<>>
  /\ pending = <<>>
  /\ resuming = FALSE
  /\ outcome = Running

Next ==
  \/ StartRead
  \/ StartWrite
  \/ StartRemoveAll
  \/ EndRead
  \/ EndWrite
  \/ EndGuidedWrite
  \/ EndRemoveAll

Spec == Init /\ [][Next]_vars

=============================================================================
