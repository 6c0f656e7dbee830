------------------------------ MODULE FTPTransfer ------------------------------
(***************************************************************************)
(* Downloads and listings between FTPManager and the simulated vehicle's   *)
(* FTP server, over a link that loses, duplicates, delays and reorders.    *)
(* What goes wrong is counted and bounded; packets are in order otherwise. *)
(***************************************************************************)
EXTENDS FTPManager, SequencesExt, FiniteSets

CONSTANTS
  MaxOperations,  \* bound: downloads and listings asked for
  MaxFaults,      \* bound: losses, reorderings, early time-outs, failures
  ValidURIs,      \* whether the URIs given parse; a set of BOOLEANs
  CancelAnytime   \* cancelDownload is called with no download going on too

ASSUME TransferAssumption ==
  /\ {MaxOperations, MaxFaults} \subseteq Nat
  /\ ValidURIs \subseteq BOOLEAN
  /\ CancelAnytime \in BOOLEAN

VARIABLES
  client, server,
  toServer, toClient,  \* the packets on their way
  operations, faults,
  overlapping          \* history: see BurstsOverlap

vars == <<client, server, toServer, toClient, operations, faults, overlapping>>

Init ==
  /\ client = NewClient
  /\ server = NewServer
  /\ toServer = <<>>
  /\ toClient = <<>>
  /\ operations = 0
  /\ faults = 0
  /\ overlapping = FALSE

\* The client, now c, asks for a burst while an earlier one is still on its way,
\* or packets of it that are not old.
BurstsOverlap(c) ==
  /\ \E request \in Range(c.out) : request.op = "burst"
  /\ \/ \E request \in Range(toServer) : request.op = "burst"
     \/ \E r \in Range(toClient) : r.op = "burst" /\ ~Old(c, r)

\* The client has become c: what it sends is on its way.
Becomes(c) ==
  /\ client' = [c EXCEPT !.out = <<>>]
  /\ toServer' = toServer \o c.out
  /\ overlapping' = (overlapping \/ BurstsOverlap(c))

Quiet == [client EXCEPT !.signal = "none"]

Fault ==
  /\ faults < MaxFaults
  /\ faults' = faults + 1

NoFault == UNCHANGED faults

-----------------------------------------------------------------------------
Idle == client.table = "empty"

\* A call in the middle of another operation is refused.
Start(c) ==
  /\ operations < MaxOperations
  /\ operations' = operations + 1
  /\ Idle
  /\ Becomes(c)
  /\ UNCHANGED <<server, toClient>> /\ NoFault

Download ==
  \E checksize \in BOOLEAN, valid \in ValidURIs :
    Start(download(Quiet, checksize, valid))

ListDirectory == \E valid \in ValidURIs : Start(listDirectory(Quiet, valid))

Downloading == client.stage \in {"open", "burst", "fill", "reset"}

Cancel ==
  /\ inProgress(client)
  /\ CancelAnytime \/ Downloading
  /\ Becomes(cancelDownload(Quiet))
  /\ UNCHANGED <<server, toClient, operations>> /\ NoFault

ReplyReceived ==
  /\ toClient # <<>>
  /\ Becomes(_mavlinkMessageReceived(Quiet, Head(toClient)))
  /\ toClient' = Tail(toClient)
  /\ UNCHANGED <<server, operations>> /\ NoFault

\* A time-out with packets still on their way is early.
Timeout ==
  /\ client.timer
  /\ Becomes(_ackOrNakTimeout(Quiet))
  /\ IF toServer = <<>> /\ toClient = <<>> THEN NoFault ELSE Fault
  /\ UNCHANGED <<server, toClient, operations>>

Serve(replies) ==
  /\ server' = Served(server, Head(toServer), replies)
  /\ toClient' = toClient \o replies
  /\ toServer' = Tail(toServer)
  /\ UNCHANGED <<client, operations, overlapping>>

RequestServed ==
  /\ toServer # <<>>
  /\ Serve(IF Repeated(server, Head(toServer)) THEN server.lastReply
           ELSE Answers(server, Head(toServer)))
  /\ NoFault

RequestFailed ==
  /\ toServer # <<>>
  /\ ~Repeated(server, Head(toServer))
  /\ Head(toServer).op \notin {"reset", "terminate"}
  /\ Serve(Fails(Head(toServer)))
  /\ Fault

RequestLost ==
  /\ toServer # <<>>
  /\ toServer' = Tail(toServer)
  /\ UNCHANGED <<client, server, toClient, operations, overlapping>> /\ Fault

ReplyLost ==
  /\ \E i \in DOMAIN toClient : toClient' = RemoveAt(toClient, i)
  /\ UNCHANGED <<client, server, toServer, operations, overlapping>> /\ Fault

ReplyDuplicated ==
  /\ \E i \in DOMAIN toClient :
       toClient' = InsertAt(toClient, i, toClient[i])
  /\ UNCHANGED <<client, server, toServer, operations, overlapping>> /\ Fault

\* A reply is overtaken by the others on their way.
ReplyDelayed ==
  /\ \E i \in 1 .. Len(toClient) - 1 :
       toClient' = Append(RemoveAt(toClient, i), toClient[i])
  /\ UNCHANGED <<client, server, toServer, operations, overlapping>> /\ Fault

PrimaryLinkLost ==
  /\ client.link
  /\ client' = [Quiet EXCEPT !.link = FALSE]
  /\ UNCHANGED <<server, toServer, toClient, operations, overlapping>> /\ Fault

PrimaryLinkFound ==
  /\ ~client.link
  /\ client' = [Quiet EXCEPT !.link = TRUE]
  /\ UNCHANGED <<server, toServer, toClient, operations, overlapping>> /\ NoFault

Next ==
  \/ Download \/ ListDirectory \/ Cancel
  \/ ReplyReceived \/ Timeout
  \/ RequestServed \/ RequestFailed
  \/ RequestLost \/ ReplyLost \/ ReplyDuplicated \/ ReplyDelayed
  \/ PrimaryLinkLost \/ PrimaryLinkFound

\* What is sent arrives unless it is lost, and a running timer runs out.
Fairness ==
  /\ WF_vars(ReplyReceived)
  /\ WF_vars(RequestServed)
  /\ WF_vars(Timeout)

Spec == Init /\ [][Next]_vars /\ Fairness

-----------------------------------------------------------------------------
(* Properties.                                                             *)

Blocks  == 0 .. FileSize - 1
Holes   == UNION {{h.offset + i : i \in 0 .. h.count - 1} :
                    h \in Range(client.missing)}

\* The state has its type.
TypeOK ==
  /\ client.table \in {"empty", "download", "list", "terminate"}
  /\ client.stage \in {"none", "open", "burst", "fill", "reset", "terminate",
                       "list"}
  /\ client.expected \in 0 .. SeqModulus - 1
  /\ client.offset \in 0 .. FileSize
  /\ client.written \subseteq Blocks
  /\ client.bytesWritten \in Nat
  /\ client.missing \in Seq([offset : Blocks, count : 1 .. FileSize])
  /\ {client.retryCount, client.listRetries} \subseteq 0 .. MaxRetry + 1
  /\ client.listOffset \in Nat
  /\ client.out = <<>>
  /\ Range(toServer) \subseteq Requests
  /\ Range(toClient) \subseteq Replies

\* A download that compares the size of the file and ends without an error has the whole file.
SizedIsWhole == client.signal = "complete" /\ client.checksize => client.written = Blocks

\* One that does not compare it may lack blocks if a request could not be sent, for then the
\* retry has a number for which the server repeats the end of a burst; or if bursts overlap,
\* for then the end of one can have the number that the other has for a packet.
CompleteIsWhole ==
  client.signal = "complete" /\ ~client.unsent /\ ~overlapping => client.written = Blocks

\* The state has its type, and while data comes in, the holes and the blocks written make up
\* the file as far as it has come.  No block is counted twice in bytesWritten, which the size
\* of the file is compared to.
NothingIsForgotten ==
  /\ TypeOK
  /\ SizedIsWhole
  /\ client.stage \in {"burst", "fill"} =>
       /\ \E end \in 0 .. FileSize :
            /\ client.stage = "burst" => end = client.offset
            /\ Holes = (0 .. end - 1) \ client.written
            /\ client.written \subseteq 0 .. end - 1
       /\ client.bytesWritten = Cardinality(client.written)

\* A listing has every packet of the directory, once and in order; unless a
\* request could not be sent, for then the number of the reply before it is
\* still expected and a duplicate of that reply is listed again.
ListingIsWhole ==
  client.signal = "listed" /\ ~client.unsent =>
    client.listed = [i \in 1 .. DirectorySize |-> i - 1]

\* What is signalled as a success is whole, be it a file or a listing.
ResultsAreWhole == CompleteIsWhole /\ ListingIsWhole

\* Every operation ends, while sequence numbers are not counted past 0.
OperationsEnd == ~Idle ~> Idle \/ client.wrapped

=============================================================================
