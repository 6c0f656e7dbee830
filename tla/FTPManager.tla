------------------------------ MODULE FTPManager ------------------------------
(***************************************************************************)
(* FTPManager (src/src/Vehicle/FTPManager.cc): the client that downloads   *)
(* files and lists directories of a vehicle, one operation at a time.  The *)
(* client is a record; an operator is a function of it and returns it with *)
(* the request it sends, if any, in `out'.                                 *)
(*                                                                         *)
(* Offsets and sizes count packets of data.  Sessions, names, the errors   *)
(* of the local file and malformed replies are left out.                   *)
(***************************************************************************)
EXTENDS MockLinkFTP

CONSTANT MaxRetry  \* _maxRetry

ASSUME ClientAssumption == MaxRetry \in Nat

NewClient ==
  [table |-> "empty",     \* which state machine is in _rgStateMachine
   stage |-> "none",      \* its state at _currentStateMachineIndex, if not -1
   timer |-> FALSE,       \* _ackOrNakTimeoutTimer is running
   expected |-> 0,        \* _expectedIncomingSeqNumber
   wrapped |-> FALSE,     \* that number has been counted past 0
   fileSize |-> 0, offset |-> 0, bytesWritten |-> 0, missing |-> <<>>,
   retryCount |-> 0, checksize |-> TRUE,
   written |-> {},        \* _downloadState, with the blocks in its file
   listOffset |-> 0, listRetries |-> 0, listed |-> <<>>,
                          \* _listDirectoryState, with the packets' offsets
   link |-> TRUE,         \* the vehicle has a primary link
   unsent |-> FALSE,      \* a request has been skipped for want of one
   out |-> <<>>,
   signal |-> "none"]     \* signalled in the last step

-----------------------------------------------------------------------------
(* Requests and the ends of operations.                                    *)

Counted(c, n) ==
  [c EXCEPT !.expected = (@ + n) % SeqModulus,
            !.wrapped = @ \/ c.expected + n \notin 0 .. SeqModulus - 1]

\* The timer is started even if there is no link to send over.
_sendRequestExpectAck(c, op, offset) ==
  IF c.link
  THEN [Counted(c, 2) EXCEPT
          !.timer = TRUE,
          !.out = <<[op |-> op, seq |-> (c.expected + 1) % SeqModulus,
                     offset |-> offset]>>]
  ELSE [c EXCEPT !.timer = TRUE, !.unsent = TRUE]

\* A retry has the sequence number of the request before it.
SameSequence(c) == Counted(c, -2)

Ended(c, signal) ==
  [c EXCEPT !.timer = FALSE, !.table = "empty", !.stage = "none",
            !.signal = signal]

\* A file that is not complete is removed.
_downloadComplete(c, signal) ==
  IF signal = "complete" THEN Ended(c, signal)
  ELSE Ended([c EXCEPT !.written = {}], signal)

_listDirectoryComplete(c, signal) ==
  IF signal = "listed" THEN Ended(c, signal)
  ELSE Ended([c EXCEPT !.listed = <<>>], signal)

-----------------------------------------------------------------------------
(* The states of a download, the last one first: beginning, and working.   *)

_resetSessionsBegin(c) ==
  _sendRequestExpectAck([c EXCEPT !.stage = "reset"], "reset", 0)

Whole(c) == c.checksize => c.bytesWritten = c.fileSize

_fillMissingBlocksWorker(c, firstRequest) ==
  IF c.missing # <<>>
  THEN LET at == c.missing[1].offset IN
       _sendRequestExpectAck(
         [(IF firstRequest THEN [c EXCEPT !.retryCount = 0]
           ELSE SameSequence(c)) EXCEPT !.offset = at], "read", at)
  ELSE IF Whole(c) THEN _resetSessionsBegin(c)
  ELSE _downloadComplete(c, "failed")

_fillMissingBlocksBegin(c) ==
  _fillMissingBlocksWorker([c EXCEPT !.stage = "fill"], TRUE)

_burstReadFileWorker(c, firstRequest) ==
  _sendRequestExpectAck(
    IF firstRequest THEN [c EXCEPT !.retryCount = 0] ELSE SameSequence(c),
    "burst", c.offset)

_burstReadFileBegin(c) ==
  _burstReadFileWorker([c EXCEPT !.stage = "burst"], TRUE)

_openFileROBegin(c) ==
  _sendRequestExpectAck([c EXCEPT !.stage = "open"], "open", 0)

_terminateSessionBegin(c) ==
  _sendRequestExpectAck([c EXCEPT !.stage = "terminate"], "terminate", 0)

_listDirectoryWorker(c, firstRequest) ==
  _sendRequestExpectAck(
    IF firstRequest THEN [c EXCEPT !.listRetries = 0] ELSE SameSequence(c),
    "list", c.listOffset)

-----------------------------------------------------------------------------
(* Acks and naks.  Each handler disregards replies to other opcodes; all   *)
(* but those of bursts and listings also disregard other sequence numbers. *)

Stopped(c) == [c EXCEPT !.timer = FALSE]

Expected(c, r, op) == r.op = op /\ r.seq = c.expected

_openFileROAckOrNak(c, r) ==
  IF ~Expected(c, r, "open") THEN c
  ELSE IF r.kind = "ack"
  THEN _burstReadFileBegin(
         [Stopped(c) EXCEPT !.fileSize = FileSize, !.offset = 0,
                            !.written = {}])
  ELSE _downloadComplete(c, "failed")

\* Mutant: what a gap in the offsets leaves out is not asked for.
MissingTo_None(c, offset) == c.missing

\* The missing data, with the gap before a packet of that offset.
MissingTo(c, offset) ==
  IF offset = c.offset THEN c.missing
  ELSE Append(c.missing, [offset |-> c.offset, count |-> offset - c.offset])

\* Mutant: the packets of a burst after the first are not timed.
BurstPacket_Untimed(c, r) ==
  LET d == [c EXCEPT !.missing = MissingTo(c, r.offset),
                     !.written = @ \cup {r.offset},
                     !.bytesWritten = @ + 1, !.offset = r.offset + 1]
  IN IF r.last
     THEN _burstReadFileWorker([d EXCEPT !.expected = r.seq], TRUE)
     ELSE [d EXCEPT !.expected = (r.seq + 1) % SeqModulus]

BurstPacket(c, r) ==
  LET d == [c EXCEPT !.missing = MissingTo(c, r.offset),
                     !.written = @ \cup {r.offset},
                     !.bytesWritten = @ + 1, !.offset = r.offset + 1]
  IN IF r.last
     THEN _burstReadFileWorker([d EXCEPT !.expected = r.seq], TRUE)
     ELSE [d EXCEPT !.expected = (r.seq + 1) % SeqModulus, !.timer = TRUE]

\* Mutant: the end of the file ends the burst, packets missing or not.
BurstEnd_Any(c, r) == _fillMissingBlocksBegin(c)

BurstEnd(c, r) ==
  IF r.seq = c.expected THEN _fillMissingBlocksBegin(c)
  ELSE _burstReadFileWorker([c EXCEPT !.expected = r.seq], TRUE)

\* The timer is stopped before the sequence number is looked at.
_burstReadFileAckOrNak(c, r) ==
  IF r.op # "burst" THEN c
  ELSE IF r.kind = "ack" /\ r.seq < c.expected THEN Stopped(c)
  ELSE IF r.kind = "ack" /\ r.offset < c.offset THEN [c EXCEPT !.timer = TRUE]
  ELSE IF r.kind = "ack" THEN BurstPacket(Stopped(c), r)
  ELSE IF r.kind = "eof" THEN BurstEnd(Stopped(c), r)
  ELSE _downloadComplete(c, "failed")

\* The first of the missing blocks has come.
Filled(c) ==
  LET hole == c.missing[1] IN
  IF hole.count = 1 THEN Tail(c.missing)
  ELSE <<[offset |-> hole.offset + 1, count |-> hole.count - 1]>>
         \o Tail(c.missing)

\* A reply of another offset is asked for again, as after a time-out.
FillAgain(c) ==
  LET d == [c EXCEPT !.retryCount = @ + 1] IN
  IF d.retryCount > MaxRetry THEN _downloadComplete(d, "failed")
  ELSE _fillMissingBlocksWorker(d, FALSE)

_fillMissingBlocksAckOrNak(c, r) ==
  IF ~Expected(c, r, "read") THEN c
  ELSE IF r.kind = "ack" /\ r.offset # c.offset THEN FillAgain(Stopped(c))
  ELSE IF r.kind = "ack"
  THEN _fillMissingBlocksWorker(
         [Stopped(c) EXCEPT !.written = @ \cup {r.offset},
                            !.bytesWritten = @ + 1, !.missing = Filled(c)],
         TRUE)
  ELSE IF r.kind = "eof" /\ Whole(c) THEN _resetSessionsBegin(Stopped(c))
  ELSE _downloadComplete(c, "failed")

\* The file is complete whatever the answer to the reset.
_resetSessionsAckOrNak(c, r) ==
  IF Expected(c, r, "reset") THEN _downloadComplete(c, "complete") ELSE c

_terminateSessionAckOrNak(c, r) ==
  IF Expected(c, r, "terminate") THEN _downloadComplete(c, "aborted") ELSE c

ListEnd(c, r) ==
  IF r.seq = c.expected THEN _listDirectoryComplete(c, "listed")
  ELSE [c EXCEPT !.timer = TRUE]

ListPacket(c, r) ==
  _listDirectoryWorker(
    [c EXCEPT !.listed = Append(@, r.offset), !.listOffset = @ + 1,
              !.expected = r.seq], TRUE)

_listDirectoryAckOrNak(c, r) ==
  IF r.op # "list" THEN c
  ELSE IF r.kind = "ack" /\ r.seq < c.expected THEN Stopped(c)
  ELSE IF r.kind = "ack" THEN ListPacket(c, r)
  ELSE IF r.kind = "eof" THEN ListEnd(Stopped(c), r)
  ELSE _listDirectoryComplete(c, "listFailed")

AckOrNak(c, r) ==
  CASE c.stage = "open"      -> _openFileROAckOrNak(c, r)
    [] c.stage = "burst"     -> _burstReadFileAckOrNak(c, r)
    [] c.stage = "fill"      -> _fillMissingBlocksAckOrNak(c, r)
    [] c.stage = "reset"     -> _resetSessionsAckOrNak(c, r)
    [] c.stage = "terminate" -> _terminateSessionAckOrNak(c, r)
    [] c.stage = "list"      -> _listDirectoryAckOrNak(c, r)

\* Old and reordered packets, wrap-around counted in.
Old(c, r) == (c.expected - 1 - r.seq) % SeqModulus < (SeqModulus - 1) \div 2

_mavlinkMessageReceived(c, r) ==
  IF c.stage = "none" \/ Old(c, r) THEN c ELSE AckOrNak(c, r)

-----------------------------------------------------------------------------
(* Time-outs.                                                              *)

BurstAgain(c) ==
  LET d == [c EXCEPT !.retryCount = @ + 1] IN
  IF d.retryCount > MaxRetry THEN _downloadComplete(d, "failed")
  ELSE _burstReadFileWorker(d, FALSE)

TerminateAgain(c) ==
  LET d == [c EXCEPT !.retryCount = @ + 1] IN
  IF d.retryCount > MaxRetry THEN _downloadComplete(d, "failed")
  ELSE _terminateSessionBegin(d)

ListAgain(c) ==
  LET d == [c EXCEPT !.listRetries = @ + 1] IN
  IF d.listRetries > MaxRetry THEN _listDirectoryComplete(d, "listFailed")
  ELSE _listDirectoryWorker(d, FALSE)

\* Opening is not retried, and a reset that is not answered is done without.
_ackOrNakTimeout(c) ==
  CASE c.stage = "open"      -> _downloadComplete(c, "failed")
    [] c.stage = "burst"     -> BurstAgain(Stopped(c))
    [] c.stage = "fill"      -> FillAgain(Stopped(c))
    [] c.stage = "reset"     -> _downloadComplete(c, "complete")
    [] c.stage = "terminate" -> TerminateAgain(Stopped(c))
    [] c.stage = "list"      -> ListAgain(Stopped(c))

-----------------------------------------------------------------------------
(* The calls.  The state machine is filled in before the URI is parsed.    *)

download(c, checksize, validURI) ==
  LET d == [c EXCEPT !.table = "download", !.fileSize = 0, !.offset = 0,
                     !.bytesWritten = 0, !.missing = <<>>, !.retryCount = 0,
                     !.checksize = checksize, !.written = {}]
  IN IF validURI THEN _openFileROBegin(d) ELSE d

listDirectory(c, validURI) ==
  LET d == [c EXCEPT !.table = "list", !.listOffset = 0, !.listRetries = 0,
                     !.listed = <<>>]
  IN IF validURI THEN _listDirectoryWorker([d EXCEPT !.stage = "list"], TRUE)
     ELSE d

\* DownloadState_t::inProgress: of a download that is over too, if its file
\* has been opened.
inProgress(c) == c.fileSize > 0

cancelDownload(c) ==
  _terminateSessionBegin(
    [Stopped(c) EXCEPT !.table = "terminate", !.retryCount = 0])

=============================================================================
