----------------------------- MODULE CommandQueue -----------------------------
(***************************************************************************)
(* The MAV_CMD queue of a vehicle and the message requests built on it     *)
(* (src/src/Vehicle/Vehicle.cc): commands wait in _mavCommandList for an   *)
(* ack, are sent again when none comes and given up after a few tries; a   *)
(* requested message is waited for in _requestMessageInfoMap, which its    *)
(* command and the message itself, in either order, keep up to date.       *)
(*                                                                         *)
(* The vehicle is not modelled: any ack and any message may arrive at any  *)
(* time or never, for links lose and delay them, vehicles send messages on *)
(* their own, and the acks of another station's commands are heard too.    *)
(* Time passes in ticks of _mavCommandResponseCheckTimer.  Parameters,     *)
(* shown errors and progress handlers are left out; a command without a    *)
(* handler is answered by the mavCommandResult signal.                     *)
(***************************************************************************)
EXTENDS Integers, Sequences, SequencesExt

CONSTANTS
  Components,     \* component ids of the vehicle
  CompIdAll,      \* MAV_COMP_ID_ALL
  Messages,       \* ids of the messages that are requested
  NoMessage,
  MaxRetryCount,  \* _mavCommandMaxRetryCount
  AckTimeout,     \* _mavCommandAckTimeoutMSecs, in ticks
  WaitTimeout,    \* how long an acked request waits for its message, in ticks
  MaxCalls,       \* bound: calls made
  MaxProgress,    \* bound: MAV_RESULT_IN_PROGRESS acks received
  LinkComesAndGoes

ASSUME QueueAssumption ==
  /\ CompIdAll \notin Components
  /\ NoMessage \notin Messages
  /\ MaxRetryCount \in Nat \ {0}
  /\ {AckTimeout, WaitTimeout, MaxCalls, MaxProgress} \subseteq Nat
  /\ LinkComesAndGoes \in BOOLEAN

VARIABLES
  link,      \* the vehicle has a primary link
  calls,     \* the calls made of sendMavCommand and requestMessage
  list,      \* _mavCommandList
  info,      \* _requestMessageInfoMap: the call waiting at each key, or 0
  wait,      \* messageWaitElapsedTimer of each call's info, 0 if invalid
  freed,     \* calls whose info has been deleted
  answers,   \* how often the result handler of each call has been called
  walk,      \* index the time-out check has come to, 0 if it is not running
  handling,  \* the check's last step called a result handler
  progress,  \* MAV_RESULT_IN_PROGRESS acks received
  untracked  \* a request was recorded without its command, or over another

vars == <<link, calls, list, info, wait, freed, answers, walk, handling,
          progress, untracked>>

CallIds == 1 .. MaxCalls

\* MAV_CMDs told apart: MAV_CMD_REQUEST_MESSAGE, one that is not retried, one
\* that may be duplicated and MAV_CMD_DO_AUTOTUNE_ENABLE, to a PX4 vehicle.
Commands == {"requestMessage", "plain", "stream", "autotune"}

_sendMavCommandShouldRetry(command) == command = "requestMessage"
_commandCanBeDuplicated(command)    == command = "stream"

AckResults == {"accepted", "rejected", "inProgress"}
Acks       == [comp : Components, command : Commands, result : AckResults]

Keys  == (Components \cup {CompIdAll}) \X (Messages \cup {NoMessage})
Infos == [Keys -> 0 .. MaxCalls]

IsRequest(call) == call.command = "requestMessage"
Key(call)       == <<call.comp, call.message>>

\* Indices of the entries that an ack of the command may belong to.
Pending(comp, command) ==
  {i \in DOMAIN list : /\ calls[list[i].call].comp = comp
                       /\ calls[list[i].call].command = command}

_findMavCommandListEntryIndex(comp, command) ==
  CHOOSE i \in Pending(comp, command) :
    \A j \in Pending(comp, command) : i <= j

Init ==
  /\ link = TRUE
  /\ calls = <<>>
  /\ list = <<>>
  /\ info = [key \in Keys |-> 0]
  /\ wait = [c \in CallIds |-> 0]
  /\ freed = {}
  /\ answers = [c \in CallIds |-> 0]
  /\ walk = 0
  /\ handling = FALSE
  /\ progress = 0
  /\ untracked = FALSE

-----------------------------------------------------------------------------
(* Answers.                                                                *)

Answer(c) == answers' = [answers EXCEPT ![c] = @ + 1]

_removeRequestMessageInfo(key) ==
  /\ info' = [info EXCEPT ![key] = 0]
  /\ freed' = freed \cup ({info[key]} \ {0})
  /\ wait' = [c \in CallIds |-> IF c = info[key] THEN 0 ELSE wait[c]]

\* Mutant: the wait for the message is not timed.
_requestMessageCmdResultHandler_Untimed(c, accepted) ==
  IF accepted THEN UNCHANGED <<info, wait, freed, answers>>
  ELSE _removeRequestMessageInfo(Key(calls[c])) /\ Answer(c)

\* Mutant: a failed request is forgotten in the map.
_requestMessageCmdResultHandler_Kept(c, accepted) ==
  /\ IF accepted THEN wait' = [wait EXCEPT ![c] = 1] /\ UNCHANGED answers
     ELSE Answer(c) /\ UNCHANGED wait
  /\ UNCHANGED <<info, freed>>

\* An accepted request waits for its message from now on.
_requestMessageCmdResultHandler(c, accepted) ==
  IF accepted
  THEN /\ wait' = [wait EXCEPT ![c] = 1]
       /\ UNCHANGED <<info, freed, answers>>
  ELSE /\ _removeRequestMessageInfo(Key(calls[c]))
       /\ Answer(c)

\* The command of call c is over: its result handler, or mavCommandResult.
CommandResult(c, accepted) ==
  IF IsRequest(calls[c]) THEN _requestMessageCmdResultHandler(c, accepted)
  ELSE Answer(c) /\ UNCHANGED <<info, wait, freed>>

-----------------------------------------------------------------------------
(* Calls.  A result handler may make them: the call then comes between two *)
(* steps of the handler's caller.                                          *)

NewEntry(c, command) ==
  [call |-> c, tries |-> 1, age |-> 0, heard |-> FALSE,
   maxTries |-> IF _sendMavCommandShouldRetry(command) THEN MaxRetryCount
                ELSE 1]

\* requestMessage enters its info in the map before the command is looked at.
Recorded(call, c) ==
  IF IsRequest(call) THEN [info EXCEPT ![Key(call)] = c] ELSE info

\* Mutant: duplicates are queued.
Refused_NoDuplicates(call) == call.comp = CompIdAll

\* A command to all components, or one whose ack is being waited for.
Refused(call) ==
  \/ call.comp = CompIdAll
  \/ /\ Pending(call.comp, call.command) # {}
     /\ ~_commandCanBeDuplicated(call.command)

RefuseCommand(call, c) ==
  /\ Answer(c)
  /\ IF IsRequest(call)
     THEN /\ info' = [info EXCEPT ![Key(call)] = 0]
          /\ freed' = freed \cup {c}
     ELSE UNCHANGED <<info, freed>>
  /\ handling' = (walk > 0)
  /\ UNCHANGED list

QueueCommand(call, c) ==
  /\ info' = Recorded(call, c)
  /\ IF link
     THEN list' = Append(list, NewEntry(c, call.command))
     ELSE UNCHANGED list   \* nobody is told
  /\ UNCHANGED <<freed, answers, handling>>

_sendMavCommandWorker(call) ==
  LET c == Len(calls) + 1 IN
  /\ c <= MaxCalls
  /\ walk = 0 \/ handling
  /\ calls' = Append(calls, call)
  /\ IF Refused(call) THEN RefuseCommand(call, c) ELSE QueueCommand(call, c)
  /\ untracked' = (\/ untracked
                   \/ ~link /\ ~Refused(call)
                   \/ IsRequest(call) /\ info[Key(call)] # 0)
  /\ UNCHANGED <<link, wait, walk, progress>>

sendMavCommand(comp, command) ==
  _sendMavCommandWorker(
    [comp |-> comp, command |-> command, message |-> NoMessage])

requestMessage(comp, message) ==
  _sendMavCommandWorker(
    [comp |-> comp, command |-> "requestMessage", message |-> message])

-----------------------------------------------------------------------------
(* The time-out check.                                                     *)

Later(n, timeout) == IF n > timeout THEN n ELSE n + 1

_mavCommandResponseCheckTimer ==
  /\ walk = 0
  /\ list' = [i \in DOMAIN list |->
                [list[i] EXCEPT !.age = Later(@, AckTimeout)]]
  /\ wait' = [c \in CallIds |->
                IF wait[c] = 0 THEN 0 ELSE Later(wait[c], WaitTimeout + 1)]
  /\ walk' = Len(list)
  /\ UNCHANGED <<link, calls, info, freed, answers, handling, progress,
                 untracked>>

GiveUp(i) ==
  /\ list' = RemoveAt(list, i)
  /\ CommandResult(list[i].call, FALSE)

\* The try counts even if there is no link to send over; the elapsed timer of
\* the entry runs on.
SendAgain(i) ==
  /\ list' = [list EXCEPT ![i].tries = @ + 1]
  /\ UNCHANGED <<info, wait, freed, answers>>

_sendMavCommandFromList(i) ==
  IF list[i].tries + 1 > list[i].maxTries THEN GiveUp(i) ELSE SendAgain(i)

_sendMavCommandResponseTimeoutCheck ==
  /\ walk > 0
  /\ walk' = walk - 1
  /\ IF list[walk].age > AckTimeout
     THEN _sendMavCommandFromList(walk)
     ELSE UNCHANGED <<list, info, wait, freed, answers>>
  /\ handling' = (answers' # answers /\ walk > 1)
  /\ UNCHANGED <<link, calls, progress, untracked>>

-----------------------------------------------------------------------------
(* Arrivals.                                                               *)

\* Mutant: the command stays in the list.
WithoutEntry_Kept(c, comp) == list

\* The list without the entry that stands for a request whose ack has not come.
WithoutEntry(c, comp) ==
  IF wait[c] = 0 /\ Pending(comp, "requestMessage") # {}
  THEN RemoveAt(list, _findMavCommandListEntryIndex(comp, "requestMessage"))
  ELSE list

\* A message that is waited for: the request is over, acked or not.
RequestedMessageReceived(key) ==
  LET c == info[key] IN
  /\ walk = 0
  /\ c # 0
  /\ list' = WithoutEntry(c, key[1])
  /\ _removeRequestMessageInfo(key)
  /\ Answer(c)
  /\ UNCHANGED <<link, calls, walk, handling, progress, untracked>>

\* Requests that have waited too long for their message.
Overdue == {key \in Keys : info[key] # 0 /\ wait[info[key]] > WaitTimeout + 1}

\* Any other message lets one overdue request be noticed, the first in the
\* order of the ids.  An ack does so too before it is handled: that is two
\* arrivals here, so that the result handler's calls can come between.
OtherMessageReceived ==
  /\ walk = 0
  /\ \E key \in Overdue :
       /\ _removeRequestMessageInfo(key)
       /\ Answer(info[key])
  /\ UNCHANGED <<link, calls, list, walk, handling, progress, untracked>>

\* Mutant: the vehicle's progress does not stop the retries.
CommandInProgress_Retried(i) ==
  /\ list' = [list EXCEPT ![i].age = 0, ![i].heard = TRUE]
  /\ progress' = progress + 1
  /\ UNCHANGED <<info, wait, freed, answers>>

CommandInProgress(i) ==
  /\ list' = IF calls[list[i].call].command = "autotune" THEN RemoveAt(list, i)
             ELSE [list EXCEPT ![i].maxTries = 1, ![i].age = 0, ![i].heard = TRUE]
  /\ progress' = progress + 1
  /\ UNCHANGED <<info, wait, freed, answers>>

CommandDone(i, accepted) ==
  /\ list' = RemoveAt(list, i)
  /\ CommandResult(list[i].call, accepted)
  /\ UNCHANGED progress

\* An ack that no entry of the list waits for is ignored.
_handleCommandAck(ack) ==
  LET i == _findMavCommandListEntryIndex(ack.comp, ack.command) IN
  /\ walk = 0
  /\ Pending(ack.comp, ack.command) # {}
  /\ IF ack.result = "inProgress"
     THEN progress < MaxProgress /\ CommandInProgress(i)
     ELSE CommandDone(i, ack.result = "accepted")
  /\ UNCHANGED <<link, calls, walk, handling, untracked>>

PrimaryLinkChanged ==
  /\ LinkComesAndGoes
  /\ walk = 0
  /\ link' = ~link
  /\ UNCHANGED <<calls, list, info, wait, freed, answers, walk, handling,
                 progress, untracked>>

-----------------------------------------------------------------------------
Next ==
  \/ \E comp \in Components \cup {CompIdAll} :
       \/ \E command \in Commands \ {"requestMessage"} :
            sendMavCommand(comp, command)
       \/ \E message \in Messages : requestMessage(comp, message)
  \/ _mavCommandResponseCheckTimer
  \/ _sendMavCommandResponseTimeoutCheck
  \/ \E key \in Keys : RequestedMessageReceived(key)
  \/ OtherMessageReceived
  \/ \E ack \in Acks : _handleCommandAck(ack)
  \/ PrimaryLinkChanged

\* The timer is periodic, a handler that has begun is finished, and a vehicle
\* that is connected sends messages nobody waits for, heartbeats above all.
Fairness ==
  /\ WF_vars(_mavCommandResponseCheckTimer)
  /\ WF_vars(_sendMavCommandResponseTimeoutCheck)
  /\ WF_vars(OtherMessageReceived)

Spec == Init /\ [][Next]_vars /\ Fairness

-----------------------------------------------------------------------------
(* Properties.                                                             *)

Entries == [call : CallIds, tries : 1 .. MaxRetryCount,
            age : 0 .. AckTimeout + 1, heard : BOOLEAN,
            maxTries : 1 .. MaxRetryCount]

\* The state has its type; every entry of the list and of the map is a call.
TypeOK ==
  /\ link \in BOOLEAN
  /\ calls \in Seq([comp : Components \cup {CompIdAll}, command : Commands,
                    message : Messages \cup {NoMessage}])
  /\ Len(calls) <= MaxCalls
  /\ list \in Seq(Entries)
  /\ \A i \in DOMAIN list : list[i].call \in DOMAIN calls
  /\ info \in Infos
  /\ \A key \in Keys : info[key] # 0 => info[key] \in DOMAIN calls
  /\ wait \in [CallIds -> 0 .. WaitTimeout + 2]
  /\ freed \subseteq CallIds
  /\ answers \in [CallIds -> Nat]
  /\ walk \in 0 .. Len(list)
  /\ handling \in BOOLEAN
  /\ progress \in 0 .. MaxProgress
  /\ untracked \in BOOLEAN

\* No call is answered twice, whichever of its ack, its message, its time-outs
\* and the refusal of another call come first.
AnsweredOnce == \A c \in CallIds : answers[c] <= 1

\* The state has its type, and the info that a queued command or the map
\* points to has not been deleted: the raw pointers in resultHandlerData and in
\* the map do not dangle.
InfosAreAlive ==
  /\ TypeOK
  /\ \A i \in DOMAIN list : list[i].call \notin freed
  /\ \A key \in Keys : info[key] \notin freed

\* While every request has been recorded with its command and over no other,
\* list and map agree: an info in the map waits for the ack of the one entry
\* of its call or, the ack received, for its message; and the entry of a
\* request has its info in the map.
ListAndMapAgree ==
  ~untracked =>
    /\ \A key \in Keys : info[key] # 0 =>
         (wait[info[key]] = 0) =
           (\E i \in DOMAIN list : list[i].call = info[key])
    /\ \A i \in DOMAIN list :
         LET call == calls[list[i].call] IN
         IsRequest(call) => info[Key(call)] = list[i].call

\* A command goes out again only if it is one that may be retried and no ack
\* has shown that the vehicle has it already.
HeardIsNotResent ==
  [][\A i \in DOMAIN list, j \in DOMAIN list' :
       list[i].call = list'[j].call /\ list[i].tries # list'[j].tries =>
         ~list[i].heard /\ _sendMavCommandShouldRetry(calls[list[i].call].command)]_vars

\* Every call is answered in the end, if the vehicle always has a link and no
\* message is requested again while it is waited for; autotune, which a PX4
\* vehicle never acks in the end, is the exception that the code makes.
CallsAreAnswered ==
  \A c \in CallIds :
    c \in DOMAIN calls ~>
      \/ answers[c] > 0
      \/ untracked
      \/ c \in DOMAIN calls /\ calls[c].command = "autotune"

=============================================================================
