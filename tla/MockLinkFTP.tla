------------------------------ MODULE MockLinkFTP ------------------------------
(***************************************************************************)
(* The MAVLink FTP server of the simulated vehicle                         *)
(* (src/src/Comms/MockLink/MockLinkFTP.cc): what it answers to a request.  *)
(*                                                                         *)
(* A file is a number of blocks, each as long as the data of one packet,   *)
(* and offsets count blocks.  There is one session and one path.           *)
(***************************************************************************)
EXTENDS Integers, Sequences

CONSTANTS
  FileSize,       \* blocks of the file
  DirectorySize,  \* packets a directory listing takes
  BurstMax,       \* burstMax: a burst has one packet less
  SeqModulus      \* sequence numbers are modulo this; 2^16 in the code

ASSUME ServerAssumption ==
  /\ {FileSize, DirectorySize} \subseteq Nat \ {0}
  /\ BurstMax \in Nat \ {0, 1}
  /\ SeqModulus \in Nat \ {0, 1}

Opcodes  == {"open", "burst", "read", "list", "terminate", "reset"}
Requests == [op : Opcodes, seq : 0 .. SeqModulus - 1, offset : Nat]

\* "eof" and "fail" are naks; `last' is hdr.burstComplete.
Replies == [kind : {"ack", "eof", "fail"}, op : Opcodes,
            seq : 0 .. SeqModulus - 1, offset : Nat, last : BOOLEAN]

_nextSeqNumber(seq) == (seq + 1) % SeqModulus

Reply(kind, op, seq, offset) ==
  [kind |-> kind, op |-> op, seq |-> seq, offset |-> offset, last |-> FALSE]

\* `open' is whether _currentFile is; reset closes and removes it.
NewServer == [open |-> FALSE, lastReply |-> <<>>]

CurrentSize(server) == IF server.open THEN FileSize ELSE 0

ReadReply(server, request, size) ==
  Reply(IF request.offset >= size THEN "eof" ELSE "ack", request.op,
        _nextSeqNumber(request.seq), request.offset)

\* Every packet of a burst has the next sequence number; the end of the file
\* is told by a nak that has one of its own.
_burstReadCommand(server, request) ==
  LET left  == CurrentSize(server) - request.offset
      count == IF left < 0 THEN 0
               ELSE IF left < BurstMax - 1 THEN left ELSE BurstMax - 1
      packets == [i \in 1 .. count |->
        [Reply("ack", "burst", (request.seq + i) % SeqModulus,
               request.offset + i - 1) EXCEPT !.last = (i = BurstMax - 1)]]
  IN IF count < left THEN packets
     ELSE Append(packets, Reply("eof", "burst",
                                (request.seq + count + 1) % SeqModulus,
                                request.offset + count))

Answers(server, request) ==
  CASE request.op = "burst" -> _burstReadCommand(server, request)
    [] request.op = "read" ->
         <<ReadReply(server, request, CurrentSize(server))>>
    [] request.op = "list" -> <<ReadReply(server, request, DirectorySize)>>
    [] OTHER -> <<Reply("ack", request.op, _nextSeqNumber(request.seq), 0)>>

\* A file that is not there, or a mode of the simulated errors.
Fails(request) ==
  <<Reply("fail", request.op, _nextSeqNumber(request.seq), request.offset)>>

\* The request that was answered last, come again, gets its last reply again.
\* The comparison is of ints: it misses the reply whose number wrapped to 0.
Repeated(server, request) ==
  server.lastReply # <<>> /\ request.seq = server.lastReply[1].seq - 1

\* The server after it has sent the replies to a request.
Served(server, request, replies) ==
  [open |-> IF Repeated(server, request) THEN server.open
            ELSE IF request.op = "open" THEN replies[1].kind = "ack"
            ELSE server.open /\ request.op # "reset",
   lastReply |-> <<replies[Len(replies)]>>]

=============================================================================
