--------------------------- MODULE FTPTransferProofs ---------------------------
(***************************************************************************)
(* Proofs about FTPTransfer, for files of any size, bursts of any length,   *)
(* sequence numbers of any width and any number of faults: the blocks       *)
(* written, the list of holes and the count of bytes agree while a download *)
(* runs, and one that compares sizes at its end has the whole file; while   *)
(* the numbers are in their first half, so has every download that succeeds *)
(* and no two bursts of which overlap, and every listing has every entry.   *)
(*                                                                         *)
(* That a size agrees says that every block is there only if no block was   *)
(* counted twice.  Accounted is why: the holes lie in order, apart from     *)
(* each other and before the end of what has come in, and a block before    *)
(* that end is written if and only if it is in no hole.  A burst extends    *)
(* the end and notes what it passed over; a read takes the block at the     *)
(* front of the first hole, which the offset asked for always names.  The   *)
(* rest of the invariant tells in which stage which of this holds, and that *)
(* no reply on its way carries a block past the end of the file.            *)
(*                                                                         *)
(* What is signalled is whole because of the numbers of the packets on      *)
(* their way.  Sound tells which of them the client would still heed:      *)
(* while it lists, only the entry it asks for next; while it opens, the     *)
(* answer of a server that then has nothing else to do; while it reads a    *)
(* burst, packets as far from its number as from its offset; while it fills *)
(* holes, no end of the file.  Each handler is taken from the client and    *)
(* packets it finds to those it leaves (Stepping); the server's answers     *)
(* and the link's faults do the rest.                                       *)
(***************************************************************************)
EXTENDS FTPTransfer, FiniteSetTheorems, TLAPS

\* A hole: where it starts and the blocks it lacks.
Holed == [offset : Blocks, count : 1 .. FileSize]

\* The states of the client.
Clients ==
  [table : {"empty", "download", "list", "terminate"},
   stage : {"none", "open", "burst", "fill", "reset", "terminate", "list"},
   timer : BOOLEAN, expected : 0 .. SeqModulus - 1, wrapped : BOOLEAN,
   fileSize : {0, FileSize}, offset : 0 .. FileSize, bytesWritten : Nat,
   missing : Seq(Holed), retryCount : 0 .. MaxRetry + 1, checksize : BOOLEAN,
   written : SUBSET Blocks,
   listOffset : Nat, listRetries : 0 .. MaxRetry + 1, listed : Seq(Nat),
   link : BOOLEAN, unsent : BOOLEAN, out : Seq(Requests),
   signal : {"none", "complete", "failed", "aborted", "listed", "listFailed"}]

\* Block b is in a hole.
InHole(missing, b) ==
  \E i \in DOMAIN missing :
    missing[i].offset <= b /\ b < missing[i].offset + missing[i].count

\* The holes are in order and apart, and none goes past end.
Apart(missing, end) ==
  /\ \A i \in DOMAIN missing : missing[i].offset + missing[i].count <= end
  /\ \A i, j \in DOMAIN missing :
       i < j => missing[i].offset + missing[i].count <= missing[j].offset

\* Each block before end is written or in a hole, and those written are counted once.
Accounted(c, end) ==
  /\ Apart(c.missing, end)
  /\ \A b \in Blocks : b \in c.written <=> b < end /\ ~InHole(c.missing, b)
  /\ c.bytesWritten = Cardinality(c.written)

\* What holds of the client in each stage of an operation.
Good(c) ==
  /\ c \in Clients
  /\ c.stage = "none" => ~c.timer
  /\ c.table = "empty" => c.stage = "none"
  /\ c.stage \in {"burst", "fill", "reset"} => c.fileSize = FileSize
  /\ c.stage \in {"burst", "fill", "terminate"} => c.retryCount <= MaxRetry
  /\ c.stage = "list" => c.listRetries <= MaxRetry
  /\ c.stage = "open" => c.missing = <<>> /\ c.bytesWritten = 0
  /\ c.stage = "burst" => Accounted(c, c.offset)
  /\ c.stage = "fill" =>
       /\ c.missing # <<>> /\ c.offset = c.missing[1].offset
       /\ \E end \in 0 .. FileSize : Accounted(c, end)
  /\ c.stage = "reset" /\ c.checksize => c.written = Blocks
  /\ c.signal = "complete" /\ c.checksize => c.written = Blocks

\* A reply that carries data carries a block of the file.
GoodReplies ==
  {r \in Replies : r.kind = "ack" /\ r.op \in {"burst", "read"} => r.offset < FileSize}

\* The inductive invariant.
IInv ==
  /\ Good(client) /\ client.out = <<>>
  /\ server.open \in BOOLEAN /\ server.lastReply \in Seq(GoodReplies)
  /\ toServer \in Seq(Requests)
  /\ toClient \in Seq(GoodReplies)

-----------------------------------------------------------------------------
(* The file, as blocks written and holes.                                  *)

USE ServerAssumption, ClientAssumption

\* The blocks can be counted, and as many as the file has are all of them.
LEMMA BlocksAre ==
  /\ IsFiniteSet(Blocks) /\ Cardinality(Blocks) = FileSize
  /\ \A written \in SUBSET Blocks :
       /\ IsFiniteSet(written) /\ Cardinality(written) \in Nat
       /\ Cardinality(written) = FileSize => written = Blocks
  <1>1. IsFiniteSet(Blocks) /\ Cardinality(Blocks) = FileSize
    <2>1. 0 \in Int /\ FileSize - 1 \in Int /\ 0 <= FileSize - 1
      OBVIOUS
    <2>2. QED BY <2>1, FS_Interval DEF Blocks
  <1>2. \A written \in SUBSET Blocks :
          /\ IsFiniteSet(written) /\ Cardinality(written) \in Nat
          /\ Cardinality(written) = FileSize => written = Blocks
    BY <1>1, FS_Subset, FS_CardinalityType
  <1>3. QED BY <1>1, <1>2

\* The bounds of a hole.
LEMMA HoledFields ==
  ASSUME NEW hole \in Holed
  PROVE  /\ hole.offset \in Int /\ 0 <= hole.offset /\ hole.offset < FileSize
         /\ hole.count \in Int /\ 1 <= hole.count /\ hole.count <= FileSize
  BY DEF Holed, Blocks

\* A block that was not written adds one to the count.
LEMMA BlockWritten ==
  ASSUME NEW written \in SUBSET Blocks, NEW b \in Blocks, b \notin written
  PROVE  Cardinality(written \cup {b}) = Cardinality(written) + 1
  BY BlocksAre, FS_AddElement

\* Noting what a burst passed over appends one hole, which ends where the burst goes on.
LEMMA GapNoted ==
  ASSUME NEW missing \in Seq(Holed), NEW from \in Blocks, NEW to \in Blocks, from < to,
         Apart(missing, from)
  PROVE  LET more == Append(missing, [offset |-> from, count |-> to - from]) IN
           /\ more \in Seq(Holed)
           /\ Apart(more, to)
           /\ \A b \in Blocks : InHole(more, b) <=> InHole(missing, b) \/ (from <= b /\ b < to)
  <1> DEFINE hole == [offset |-> from, count |-> to - from]
             more == Append(missing, hole)
  <1>1. hole \in Holed
    BY DEF Holed, Blocks
  <1>2. more \in Seq(Holed) /\ Len(more) = Len(missing) + 1
        /\ DOMAIN more = 1 .. Len(missing) + 1 /\ DOMAIN missing = 1 .. Len(missing)
        /\ more[Len(missing) + 1] = hole
        /\ \A i \in DOMAIN missing : more[i] = missing[i] /\ missing[i] \in Holed
    BY <1>1
  <1>3. hole.offset = from /\ hole.count = to - from
    OBVIOUS
  <1> HIDE DEF more, hole
  <1>4. Apart(more, to)
    <2>1. Len(missing) \in Nat /\ from \in Int /\ to \in Int /\ from < to
      BY DEF Blocks
    <2>2. \A i \in DOMAIN missing :
            /\ more[i] = missing[i] /\ more[i].offset \in Int /\ more[i].count \in Int
            /\ more[i].offset + more[i].count <= from
      BY <1>2, HoledFields DEF Apart
    <2>3. \A i \in DOMAIN more : i \in DOMAIN missing \/ i = Len(missing) + 1
      BY <1>2, <2>1
    <2>4. ASSUME NEW i \in DOMAIN more PROVE more[i].offset + more[i].count <= to
      BY <1>2, <1>3, <2>1, <2>2, <2>3
    <2>5. ASSUME NEW i \in DOMAIN more, NEW j \in DOMAIN more, i < j
          PROVE  more[i].offset + more[i].count <= more[j].offset
      <3>1. i \in DOMAIN missing
        BY <1>2, <2>1, <2>3, <2>5
      <3>2. CASE j \in DOMAIN missing
        BY <2>2, <2>5, <3>1, <3>2 DEF Apart
      <3>3. CASE j = Len(missing) + 1
        BY <1>2, <1>3, <2>2, <3>1, <3>3
      <3>4. QED BY <2>3, <3>2, <3>3
    <2>6. QED BY <2>4, <2>5 DEF Apart
  <1>5. ASSUME NEW b \in Blocks
        PROVE  InHole(more, b) <=> InHole(missing, b) \/ (from <= b /\ b < to)
    <2>1. ASSUME InHole(more, b) PROVE InHole(missing, b) \/ (from <= b /\ b < to)
      BY <1>2, <1>3, <2>1 DEF InHole, Blocks
    <2>2. ASSUME InHole(missing, b) PROVE InHole(more, b)
      BY <1>2, <2>2 DEF InHole
    <2>3. ASSUME from <= b, b < to PROVE InHole(more, b)
      <3>1. Len(missing) + 1 \in DOMAIN more
        BY <1>2
      <3>2. QED BY <1>2, <1>3, <2>3, <3>1 DEF InHole, Blocks
    <2>4. QED BY <2>1, <2>2, <2>3
  <1>6. QED BY <1>2, <1>4, <1>5 DEF more, hole

\* Filling takes the first block of the first hole out of the holes, and no other.
LEMMA HoleFilled ==
  ASSUME NEW c, c.missing \in Seq(Holed), c.missing # <<>>, NEW end \in 0 .. FileSize,
         Apart(c.missing, end)
  PROVE  /\ Filled(c) \in Seq(Holed)
         /\ Apart(Filled(c), end)
         /\ c.missing[1] \in Holed /\ c.missing[1].offset < end
         /\ InHole(c.missing, c.missing[1].offset)
         /\ \A b \in Blocks :
              InHole(Filled(c), b) <=> InHole(c.missing, b) /\ b # c.missing[1].offset
  <1> DEFINE missing == c.missing
             hole == missing[1]
             rest == Tail(missing)
             less == [offset |-> hole.offset + 1, count |-> hole.count - 1]
             more == <<less>> \o rest
  <1>1. /\ Len(missing) \in Nat \ {0} /\ DOMAIN missing = 1 .. Len(missing)
        /\ \A i \in DOMAIN missing : missing[i] \in Holed
        /\ rest \in Seq(Holed) /\ Len(rest) = Len(missing) - 1
        /\ DOMAIN rest = 1 .. Len(missing) - 1
        /\ \A i \in DOMAIN rest : rest[i] = missing[i + 1]
    OBVIOUS
  <1>2. hole \in Holed /\ 1 \in DOMAIN missing
    BY <1>1
  <1>3. hole.offset < end /\ InHole(missing, hole.offset)
    <2>1. hole.offset \in Int /\ hole.count \in Int /\ 1 <= hole.count
      BY <1>2, HoledFields
    <2>2. hole.offset + hole.count <= end
      BY <1>2 DEF Apart
    <2>3. hole.offset <= hole.offset /\ hole.offset < hole.offset + hole.count
      BY <2>1
    <2>4. InHole(missing, hole.offset)
      BY <1>2, <2>3 DEF InHole
    <2>5. QED BY <2>1, <2>2, <2>4
  <1>4. CASE hole.count = 1
    <2>1. Filled(c) = rest
      BY <1>4 DEF Filled
    <2> HIDE DEF missing, rest
    <2>2. Apart(missing, end)
      BY DEF missing
    <2>3. Apart(rest, end)
      <3>1. \A i \in DOMAIN rest : i + 1 \in DOMAIN missing /\ rest[i] = missing[i + 1]
        BY <1>1
      <3>2. \A i, j \in DOMAIN rest : i < j => i + 1 < j + 1
        BY <1>1
      <3>3. QED BY <2>2, <3>1, <3>2 DEF Apart
    <2>4. ASSUME NEW b \in Blocks
          PROVE  InHole(rest, b) <=> InHole(missing, b) /\ b # hole.offset
      <3>1. ASSUME InHole(rest, b) PROVE InHole(missing, b) /\ b # hole.offset
        <4>1. PICK i \in DOMAIN rest : rest[i].offset <= b /\ b < rest[i].offset + rest[i].count
          BY <3>1 DEF InHole
        <4>2. i + 1 \in DOMAIN missing /\ rest[i] = missing[i + 1] /\ 1 < i + 1
          BY <1>1, <4>1
        <4>3. missing[1].offset + missing[1].count <= missing[i + 1].offset
          BY <1>2, <2>2, <4>2 DEF Apart
        <4>4. missing[i + 1] \in Holed
          BY <1>1, <4>2
        <4>5. QED BY <1>2, <4>1, <4>2, <4>3, <4>4 DEF InHole, Holed, Blocks
      <3>2. ASSUME InHole(missing, b), b # hole.offset PROVE InHole(rest, b)
        <4>1. PICK i \in DOMAIN missing :
                missing[i].offset <= b /\ b < missing[i].offset + missing[i].count
          BY <3>2 DEF InHole
        <4>2. i # 1
          BY <1>2, <1>4, <3>2, <4>1 DEF Holed, Blocks
        <4>3. i - 1 \in DOMAIN rest /\ rest[i - 1] = missing[i]
          BY <1>1, <4>2
        <4>4. QED BY <4>1, <4>3 DEF InHole
      <3>3. QED BY <3>1, <3>2
    <2>5. QED BY <1>1, <1>2, <1>3, <2>1, <2>3, <2>4 DEF missing
  <1>5. CASE hole.count # 1
    <2>1. Filled(c) = more
      BY <1>5 DEF Filled
    <2>2. less \in Holed
      <3>1. Apart(missing, end)
        OBVIOUS
      <3>2. hole.offset + hole.count <= end
        BY <1>2, <3>1 DEF Apart
      <3>3. QED BY <1>2, <1>5, <3>2 DEF Holed, Blocks
    <2>3. less.offset = hole.offset + 1 /\ less.count = hole.count - 1
      OBVIOUS
    <2> HIDE DEF less
    <2>4. /\ more \in Seq(Holed) /\ Len(more) = Len(missing) /\ DOMAIN more = DOMAIN missing
          /\ more[1] = less
          /\ \A i \in DOMAIN missing : i # 1 => more[i] = missing[i]
      BY <1>1, <2>2
    <2>5. Apart(missing, end)
      OBVIOUS
    <2> HIDE DEF missing, more
    <2>6. Apart(more, end)
      <3>1. \A i \in DOMAIN missing :
              more[i].offset + more[i].count = missing[i].offset + missing[i].count
        <4>1. less.offset + less.count = hole.offset + hole.count
          BY <1>2, <2>3, HoledFields
        <4>2. QED BY <2>4, <4>1 DEF missing
      <3>2. \A i \in DOMAIN missing : i # 1 => more[i].offset = missing[i].offset
        BY <2>4
      <3>3. \A i, j \in DOMAIN missing : i < j => j # 1
        BY <1>1
      <3>4. QED BY <2>4, <2>5, <3>1, <3>2, <3>3 DEF Apart
    <2>7. ASSUME NEW b \in Blocks
          PROVE  InHole(more, b) <=> InHole(missing, b) /\ b # hole.offset
      <3>1. ASSUME InHole(more, b) PROVE InHole(missing, b) /\ b # hole.offset
        <4>1. PICK i \in DOMAIN missing : more[i].offset <= b /\ b < more[i].offset + more[i].count
          BY <2>4, <3>1 DEF InHole
        <4>2. CASE i = 1
          <5>1. hole.offset + 1 <= b /\ b < (hole.offset + 1) + (hole.count - 1)
            BY <2>3, <2>4, <4>1, <4>2
          <5>2. hole.offset <= b /\ b < hole.offset + hole.count /\ b # hole.offset
            BY <1>2, <5>1, HoledFields DEF Blocks
          <5>3. QED BY <1>2, <5>2 DEF InHole, missing
        <4>3. CASE i # 1
          <5>1. missing[1].offset + missing[1].count <= missing[i].offset
            BY <1>1, <1>2, <2>5, <4>3 DEF Apart
          <5>2. missing[i] \in Holed /\ more[i] = missing[i]
            BY <1>1, <2>4, <4>3
          <5>3. QED BY <1>2, <4>1, <5>1, <5>2 DEF InHole, Holed, Blocks
        <4>4. QED BY <4>2, <4>3
      <3>2. ASSUME InHole(missing, b), b # hole.offset PROVE InHole(more, b)
        <4>1. PICK i \in DOMAIN missing :
                missing[i].offset <= b /\ b < missing[i].offset + missing[i].count
          BY <3>2 DEF InHole
        <4>2. CASE i = 1
          <5>1. hole.offset <= b /\ b < hole.offset + hole.count
            BY <4>1, <4>2 DEF missing
          <5>2. more[1].offset <= b /\ b < more[1].offset + more[1].count
            BY <1>2, <2>3, <2>4, <3>2, <5>1, HoledFields DEF Blocks
          <5>3. 1 \in DOMAIN more
            BY <1>2, <2>4
          <5>4. QED BY <5>2, <5>3 DEF InHole
        <4>3. CASE i # 1
          BY <2>4, <4>1, <4>3 DEF InHole
        <4>4. QED BY <4>2, <4>3
      <3>3. QED BY <3>1, <3>2
    <2>8. QED BY <1>2, <1>3, <2>1, <2>4, <2>6, <2>7 DEF missing
  <1>6. QED BY <1>4, <1>5

-----------------------------------------------------------------------------
(* What the client sends.                                                  *)

\* The types of the fields of a client.
LEMMA ClientFields ==
  ASSUME NEW c \in Clients
  PROVE  /\ c.expected \in 0 .. SeqModulus - 1 /\ c.wrapped \in BOOLEAN
         /\ c.timer \in BOOLEAN /\ c.link \in BOOLEAN /\ c.unsent \in BOOLEAN
         /\ c.offset \in 0 .. FileSize /\ c.bytesWritten \in Nat
         /\ c.missing \in Seq(Holed) /\ c.written \in SUBSET Blocks
         /\ c.fileSize \in {0, FileSize}
         /\ c.retryCount \in 0 .. MaxRetry + 1 /\ c.listRetries \in 0 .. MaxRetry + 1
         /\ c.listOffset \in Nat /\ c.listed \in Seq(Nat) /\ c.out \in Seq(Requests)
         /\ c.checksize \in BOOLEAN
  BY DEF Clients

\* But for the number, the timer and the packet, d is c.
SameOperation(c, d) ==
  /\ d.table = c.table /\ d.stage = c.stage /\ d.fileSize = c.fileSize
  /\ d.offset = c.offset /\ d.bytesWritten = c.bytesWritten
  /\ d.missing = c.missing /\ d.retryCount = c.retryCount
  /\ d.checksize = c.checksize /\ d.written = c.written
  /\ d.listOffset = c.listOffset /\ d.listRetries = c.listRetries
  /\ d.listed = c.listed /\ d.link = c.link /\ d.signal = c.signal

\* What the proofs need of the constants.
LEMMA ConstantsAre ==
  /\ MaxRetry \in Nat /\ 0 <= MaxRetry /\ 0 \in 0 .. MaxRetry + 1
  /\ FileSize \in Nat \ {0} /\ 0 \in 0 .. FileSize
  OBVIOUS

\* The retries can be set to zero.
LEMMA RetriesReset ==
  ASSUME NEW c \in Clients
  PROVE  [c EXCEPT !.retryCount = 0] \in Clients
  <1> DEFINE zero == 0
  <1>1. zero \in 0 .. MaxRetry + 1
    OBVIOUS
  <1> HIDE DEF zero
  <1>2. [c EXCEPT !.retryCount = zero] \in Clients
    BY <1>1 DEF Clients
  <1>3. QED BY <1>2 DEF zero

\* A sequence number stays one when it wraps.
LEMMA NumberWraps == \A n \in Int : n % SeqModulus \in 0 .. SeqModulus - 1
  OBVIOUS

\* Counting the number on changes the number alone.
LEMMA CountedIs ==
  ASSUME NEW c \in Clients, NEW n \in Int
  PROVE  Counted(c, n) \in Clients /\ SameOperation(c, Counted(c, n))
  <1>1. (c.expected + n) % SeqModulus \in 0 .. SeqModulus - 1
    <2>1. c.expected + n \in Int
      BY ClientFields
    <2>2. QED BY <2>1, NumberWraps
  <1> DEFINE e == (c.expected + n) % SeqModulus
             w == c.wrapped \/ c.expected + n \notin 0 .. SeqModulus - 1
  <1>3. Counted(c, n) = [c EXCEPT !.expected = e, !.wrapped = w]
    BY DEF Counted, Clients
  <1> HIDE DEF e, w
  <1>4. e \in 0 .. SeqModulus - 1 /\ w \in BOOLEAN
    BY <1>1 DEF e, w
  <1>5. Counted(c, n) \in Clients
    BY <1>3, <1>4 DEF Clients
  <1>6. QED BY <1>3, <1>5 DEF Clients, SameOperation

\* Sending a request, or failing to without a link, changes the number, timer and packet alone.
LEMMA SendIs ==
  ASSUME NEW c \in Clients, NEW op \in Opcodes, NEW offset \in Nat
  PROVE  /\ _sendRequestExpectAck(c, op, offset) \in Clients
         /\ SameOperation(c, _sendRequestExpectAck(c, op, offset))
  <1> DEFINE request == [op |-> op, seq |-> (c.expected + 1) % SeqModulus, offset |-> offset]
             n == Counted(c, 2)
             sent == <<request>>
  <1>1. sent \in Seq(Requests)
    <2>1. c.expected + 1 \in Int
      BY ClientFields
    <2>2. (c.expected + 1) % SeqModulus \in 0 .. SeqModulus - 1
      BY <2>1, NumberWraps
    <2>3. request \in Requests
      BY <2>2 DEF Requests
    <2>4. QED BY <2>3
  <1>2. n \in Clients /\ SameOperation(c, n)
    BY CountedIs
  <1>3. CASE c.link
    <2>1. _sendRequestExpectAck(c, op, offset) = [n EXCEPT !.timer = TRUE, !.out = sent]
      BY <1>3 DEF _sendRequestExpectAck
    <2> DEFINE d == [n EXCEPT !.timer = TRUE, !.out = sent]
    <2> HIDE DEF n, sent
    <2>2. d \in Clients
      BY <1>1, <1>2 DEF Clients
    <2>3. SameOperation(n, d)
      BY <1>2 DEF Clients, SameOperation
    <2>4. SameOperation(c, d)
      BY <1>2, <2>3 DEF SameOperation
    <2>5. QED BY <2>1, <2>2, <2>4
  <1>4. CASE ~c.link
    <2>1. _sendRequestExpectAck(c, op, offset) = [c EXCEPT !.timer = TRUE, !.unsent = TRUE]
      BY <1>4 DEF _sendRequestExpectAck
    <2>2. QED BY <2>1 DEF Clients, SameOperation
  <1>5. QED BY <1>3, <1>4

\* A change of these keeps what holds of a client with an operation going on.
LEMMA SameIsGood ==
  ASSUME NEW c, Good(c), c.stage # "none", NEW d \in Clients, SameOperation(c, d)
  PROVE  Good(d)
  BY DEF Good, SameOperation, Accounted

\* So does sending.
LEMMA SentIsGood ==
  ASSUME NEW c, Good(c), c.stage # "none", NEW op \in Opcodes, NEW offset \in Nat
  PROVE  Good(_sendRequestExpectAck(c, op, offset))
  BY SendIs, SameIsGood DEF Good

\* So does counting back for a retry.
LEMMA SameSequenceIsGood ==
  ASSUME NEW c, Good(c), c.stage # "none"
  PROVE  Good(SameSequence(c)) /\ SameOperation(c, SameSequence(c))
  BY CountedIs, SameIsGood DEF Good, SameSequence

-----------------------------------------------------------------------------
(* The ends of operations.                                                 *)

\* What an operation can end with.
Signals == {"none", "complete", "failed", "aborted", "listed", "listFailed"}

\* An operation that ends leaves a good client, if success is signalled of whole files only.
LEMMA EndedIs ==
  ASSUME NEW c \in Clients, NEW signal \in Signals,
         signal = "complete" /\ c.checksize => c.written = Blocks
  PROVE  Good(Ended(c, signal))
  <1>1. Ended(c, signal) \in Clients
    BY DEF Ended, Clients, Signals
  <1>2. QED BY <1>1 DEF Ended, Good, Clients

\* So does a download.
LEMMA DownloadEnds ==
  ASSUME NEW c \in Clients, NEW signal \in Signals,
         signal = "complete" /\ c.checksize => c.written = Blocks
  PROVE  Good(_downloadComplete(c, signal))
  <1>1. [c EXCEPT !.written = {}] \in Clients
    BY DEF Clients
  <1>2. QED BY <1>1, EndedIs DEF _downloadComplete

\* So does a listing.
LEMMA ListingEnds ==
  ASSUME NEW c \in Clients, NEW signal \in {"listed", "listFailed"}
  PROVE  Good(_listDirectoryComplete(c, signal))
  <1>1. <<>> \in Seq(Nat)
    OBVIOUS
  <1>2. [c EXCEPT !.listed = <<>>] \in Clients
    BY <1>1 DEF Clients
  <1>3. signal \in Signals /\ signal # "complete"
    BY DEF Signals
  <1>4. QED BY <1>2, <1>3, EndedIs DEF _listDirectoryComplete

-----------------------------------------------------------------------------
(* The states of a download.                                               *)

\* The requests the client sends.
LEMMA OpcodesAre == {"open", "burst", "read", "list", "terminate", "reset"} \subseteq Opcodes
  BY DEF Opcodes

\* Resetting the sessions at the end of a download, which has to be whole if sizes matter.
LEMMA ResetIsGood ==
  ASSUME NEW c \in Clients, c.table # "empty", c.fileSize = FileSize,
         c.checksize => c.written = Blocks
  PROVE  Good(_resetSessionsBegin(c))
  <1> DEFINE d == [c EXCEPT !.stage = "reset"]
  <1>1. d \in Clients /\ d.table # "empty" /\ d.stage = "reset" /\ d.fileSize = c.fileSize
        /\ d.checksize = c.checksize /\ d.written = c.written
    BY DEF Clients
  <1> HIDE DEF d
  <1>2. Good(d)
    BY <1>1 DEF Good
  <1>3. QED BY <1>1, <1>2, SentIsGood, OpcodesAre DEF _resetSessionsBegin, d

\* A download whose size agrees has every block.
LEMMA WholeIsWhole ==
  ASSUME NEW c \in Clients, c.fileSize = FileSize,
         c.bytesWritten = Cardinality(c.written), Whole(c), c.checksize
  PROVE  c.written = Blocks
  BY BlocksAre, ClientFields DEF Whole

\* Asking for the first hole; without holes the download is over, or its size is wrong.
LEMMA FillWorkerIsGood ==
  ASSUME NEW c \in Clients, NEW first \in BOOLEAN,
         c.table # "empty", c.stage = "fill", c.signal = "none", c.fileSize = FileSize,
         first \/ c.retryCount <= MaxRetry,
         NEW end \in 0 .. FileSize, Accounted(c, end)
  PROVE  Good(_fillMissingBlocksWorker(c, first))
  <1>1. CASE c.missing # <<>>
    <2> DEFINE at == c.missing[1].offset
               n == IF first THEN [c EXCEPT !.retryCount = 0] ELSE SameSequence(c)
               d == [n EXCEPT !.offset = at]
    <2>1. at \in 0 .. FileSize
      BY <1>1, HoleFilled, HoledFields, ClientFields DEF Accounted
    <2>2. /\ n \in Clients /\ n.table # "empty" /\ n.stage = "fill"
          /\ n.signal = "none" /\ n.fileSize = FileSize
          /\ n.retryCount <= MaxRetry /\ n.missing = c.missing /\ n.written = c.written
          /\ n.bytesWritten = c.bytesWritten
      <3>1. CASE first
        <4>1. n = [c EXCEPT !.retryCount = 0]
          BY <3>1
        <4> HIDE DEF n
        <4>2. n \in Clients
          BY <4>1, RetriesReset
        <4>3. n.retryCount = 0
          BY <4>1 DEF Clients
        <4>4. /\ n.table = c.table /\ n.stage = c.stage
              /\ n.signal = c.signal /\ n.fileSize = c.fileSize
              /\ n.missing = c.missing /\ n.written = c.written
              /\ n.bytesWritten = c.bytesWritten
          BY <4>1 DEF Clients
        <4>5. QED BY <4>2, <4>3, <4>4, ConstantsAre
      <3>2. CASE ~first
        <4>1. n = SameSequence(c)
          BY <3>2
        <4>2. SameSequence(c) \in Clients /\ SameOperation(c, SameSequence(c))
          BY CountedIs DEF SameSequence
        <4> HIDE DEF n
        <4>3. QED BY <3>2, <4>1, <4>2 DEF SameOperation
      <3>3. QED BY <3>1, <3>2
    <2>3. _fillMissingBlocksWorker(c, first) = _sendRequestExpectAck(d, "read", at)
      BY <1>1 DEF _fillMissingBlocksWorker
    <2> HIDE DEF at, n
    <2>4. /\ d \in Clients /\ d.table # "empty" /\ d.stage = "fill"
          /\ d.signal = "none" /\ d.fileSize = FileSize
          /\ d.retryCount <= MaxRetry /\ d.missing = c.missing /\ d.written = c.written
          /\ d.bytesWritten = c.bytesWritten /\ d.offset = at
      BY <2>1, <2>2 DEF Clients
    <2> HIDE DEF d
    <2>5. Accounted(d, end)
      BY <2>4 DEF Accounted
    <2>6. Good(d)
      BY <1>1, <2>4, <2>5 DEF Good, at
    <2>7. at \in Nat
      BY <2>1
    <2>8. QED BY <2>3, <2>4, <2>6, <2>7, SentIsGood, OpcodesAre
  <1>2. CASE c.missing = <<>> /\ Whole(c)
    <2>1. c.checksize => c.written = Blocks
      BY <1>2, WholeIsWhole DEF Accounted
    <2>2. QED BY <1>2, <2>1, ResetIsGood DEF _fillMissingBlocksWorker
  <1>3. CASE c.missing = <<>> /\ ~Whole(c)
    BY <1>3, DownloadEnds DEF _fillMissingBlocksWorker, Signals
  <1>4. QED BY <1>1, <1>2, <1>3

\* Going from bursts to filling holes.
LEMMA FillBeginIsGood ==
  ASSUME NEW c \in Clients, c.table # "empty", c.signal = "none", c.fileSize = FileSize,
         Accounted(c, c.offset)
  PROVE  Good(_fillMissingBlocksBegin(c))
  <1> DEFINE d == [c EXCEPT !.stage = "fill"]
             first == TRUE
             end == c.offset
  <1>1. /\ d \in Clients /\ d.table # "empty" /\ d.stage = "fill"
        /\ d.signal = "none" /\ d.fileSize = FileSize
        /\ Accounted(d, end)
    BY DEF Clients, Accounted
  <1>2. first \in BOOLEAN /\ first /\ end \in 0 .. FileSize
    BY ClientFields
  <1> HIDE DEF d, first, end
  <1>3. Good(_fillMissingBlocksWorker(d, first))
    BY <1>1, <1>2, FillWorkerIsGood
  <1>4. QED BY <1>3 DEF _fillMissingBlocksBegin, d, first

\* Asking for a burst from the offset the download has come to.
LEMMA BurstWorkerIsGood ==
  ASSUME NEW c \in Clients, NEW first \in BOOLEAN,
         c.table # "empty", c.stage = "burst", c.signal = "none", c.fileSize = FileSize,
         first \/ c.retryCount <= MaxRetry, Accounted(c, c.offset)
  PROVE  Good(_burstReadFileWorker(c, first))
  <1> DEFINE n == IF first THEN [c EXCEPT !.retryCount = 0] ELSE SameSequence(c)
  <1>1. /\ n \in Clients /\ n.table # "empty" /\ n.stage = "burst"
        /\ n.signal = "none" /\ n.fileSize = FileSize
        /\ n.retryCount <= MaxRetry /\ n.missing = c.missing /\ n.written = c.written
        /\ n.bytesWritten = c.bytesWritten /\ n.offset = c.offset
    <2>1. CASE first
      <3>1. n = [c EXCEPT !.retryCount = 0]
        BY <2>1
      <3> HIDE DEF n
      <3>2. n \in Clients
        BY <3>1, RetriesReset
      <3>3. n.retryCount = 0
        BY <3>1 DEF Clients
      <3>4. n.table = c.table /\ n.stage = c.stage /\ n.signal = c.signal /\ n.fileSize = c.fileSize
            /\ n.missing = c.missing /\ n.written = c.written
            /\ n.bytesWritten = c.bytesWritten /\ n.offset = c.offset
        BY <3>1 DEF Clients
      <3>5. QED BY <3>2, <3>3, <3>4, ConstantsAre
    <2>2. CASE ~first
      <3>1. n = SameSequence(c)
        BY <2>2
      <3>2. SameSequence(c) \in Clients /\ SameOperation(c, SameSequence(c))
        BY CountedIs DEF SameSequence
      <3> HIDE DEF n
      <3>3. QED BY <2>2, <3>1, <3>2 DEF SameOperation
    <2>3. QED BY <2>1, <2>2
  <1>2. _burstReadFileWorker(c, first) = _sendRequestExpectAck(n, "burst", c.offset)
    BY DEF _burstReadFileWorker
  <1> HIDE DEF n
  <1>3. Good(n)
    BY <1>1 DEF Good, Accounted
  <1>4. c.offset \in Nat
    BY ClientFields
  <1>5. QED BY <1>1, <1>2, <1>3, <1>4, SentIsGood, OpcodesAre

-----------------------------------------------------------------------------
(* The replies.                                                            *)

\* A client that heeds a reply.
Heeds(c, stage) == Good(c) /\ c.signal = "none" /\ c.stage = stage

\* Stopping the timer changes nothing else.
LEMMA StoppedIs ==
  ASSUME NEW c, Good(c), c.signal = "none"
  PROVE  /\ Good(Stopped(c)) /\ SameOperation(c, Stopped(c)) /\ Stopped(c).signal = "none"
         /\ Stopped(c).expected = c.expected
  <1>1. Stopped(c) \in Clients /\ SameOperation(c, Stopped(c)) /\ ~Stopped(c).timer
        /\ Stopped(c).expected = c.expected
    BY DEF Good, Clients, Stopped, SameOperation
  <1>2. QED BY <1>1 DEF Good, SameOperation, Accounted

\* The answer to the request to open the file starts a download with no block and no hole.
LEMMA OpenIsGood ==
  ASSUME NEW c, Heeds(c, "open"), NEW r \in GoodReplies
  PROVE  Good(_openFileROAckOrNak(c, r))
  <1> DEFINE d == [Stopped(c) EXCEPT !.fileSize = FileSize, !.offset = 0, !.written = {}]
             e == [d EXCEPT !.stage = "burst"]
             first == TRUE
  <1>1. c \in Clients
    BY DEF Heeds, Good
  <1>2. CASE ~Expected(c, r, "open")
    BY <1>2 DEF _openFileROAckOrNak, Heeds
  <1>3. CASE Expected(c, r, "open") /\ r.kind = "ack"
    <2>1. Stopped(c) \in Clients /\ SameOperation(c, Stopped(c))
      BY StoppedIs DEF Heeds, Good
    <2>2. /\ e \in Clients /\ e.table # "empty" /\ e.stage = "burst"
          /\ e.signal = "none" /\ e.fileSize = FileSize
          /\ e.missing = <<>> /\ e.bytesWritten = 0 /\ e.written = {} /\ e.offset = 0
      <3>1. d \in Clients /\ d.fileSize = FileSize /\ d.offset = 0 /\ d.written = {}
            /\ d.signal = "none" /\ d.missing = <<>> /\ d.bytesWritten = 0
            /\ d.table # "empty"
        <4> DEFINE s == Stopped(c)
        <4>1. s.signal = "none" /\ s.missing = <<>> /\ s.bytesWritten = 0
              /\ s.table # "empty"
          BY <2>1 DEF Heeds, Good, SameOperation
        <4> HIDE DEF s
        <4>2. s \in Clients
          BY <2>1 DEF s
        <4>3. d = [s EXCEPT !.fileSize = FileSize, !.offset = 0, !.written = {}]
          BY DEF s
        <4> HIDE DEF d
        <4>4. d \in Clients
          <5> DEFINE zero == 0
          <5>1. zero \in 0 .. FileSize
            OBVIOUS
          <5> HIDE DEF zero
          <5>2. [s EXCEPT !.fileSize = FileSize, !.offset = zero, !.written = {}] \in Clients
            BY <4>2, <5>1 DEF Clients
          <5>3. QED BY <4>3, <5>2 DEF zero
        <4>5. QED BY <4>1, <4>2, <4>3, <4>4 DEF Clients
      <3> HIDE DEF d
      <3>2. QED BY <3>1 DEF Clients
    <2>3. _openFileROAckOrNak(c, r) = _burstReadFileWorker(e, first)
      BY <1>3 DEF _openFileROAckOrNak, _burstReadFileBegin
    <2>4. first \in BOOLEAN /\ first
      OBVIOUS
    <2> HIDE DEF d, e, first
    <2>5. Accounted(e, e.offset)
      BY <2>2, FS_EmptySet DEF Accounted, Apart, InHole, Blocks
    <2>6. QED BY <2>2, <2>3, <2>4, <2>5, BurstWorkerIsGood
  <1>4. CASE Expected(c, r, "open") /\ r.kind # "ack"
    BY <1>1, <1>4, DownloadEnds DEF _openFileROAckOrNak, Signals
  <1>5. QED BY <1>2, <1>3, <1>4

\* A packet of a burst: its block is written, and what it passed over becomes a hole.
LEMMA BurstPacketIsGood ==
  ASSUME NEW c, Heeds(c, "burst"), NEW r \in GoodReplies, r.op = "burst", r.kind = "ack",
         r.offset >= c.offset
  PROVE  Good(BurstPacket(c, r))
  <1> DEFINE d == [c EXCEPT !.missing = MissingTo(c, r.offset),
                            !.written = @ \cup {r.offset},
                            !.bytesWritten = @ + 1, !.offset = r.offset + 1]
             last == [d EXCEPT !.expected = r.seq]
             next == [d EXCEPT !.expected = (r.seq + 1) % SeqModulus, !.timer = TRUE]
             first == TRUE
             more == MissingTo(c, r.offset)
  <1>1. /\ c \in Clients /\ c.table # "empty" /\ c.stage = "burst"
        /\ c.signal = "none" /\ c.fileSize = FileSize
        /\ Accounted(c, c.offset) /\ c.retryCount <= MaxRetry
    BY DEF Heeds, Good
  <1>2. r.offset \in Blocks /\ r.offset + 1 \in 0 .. FileSize
    BY DEF GoodReplies, Replies, Blocks
  <1>3. r.seq \in 0 .. SeqModulus - 1 /\ (r.seq + 1) % SeqModulus \in 0 .. SeqModulus - 1
    BY NumberWraps DEF GoodReplies, Replies
  <1>4. /\ more \in Seq(Holed) /\ Apart(more, r.offset)
        /\ \A b \in Blocks :
             InHole(more, b) <=> InHole(c.missing, b) \/ (c.offset <= b /\ b < r.offset)
    <2>1. CASE r.offset = c.offset
      BY <1>1, <2>1, ClientFields DEF MissingTo, Accounted, Blocks
    <2>2. CASE r.offset # c.offset
      <3>1. more = Append(c.missing, [offset |-> c.offset, count |-> r.offset - c.offset])
        BY <2>2 DEF MissingTo
      <3>2. c.offset < r.offset /\ c.offset \in Blocks
        BY <1>1, <1>2, <2>2, ClientFields DEF Blocks
      <3>3. c.missing \in Seq(Holed) /\ Apart(c.missing, c.offset)
        BY <1>1, ClientFields DEF Accounted
      <3> HIDE DEF more
      <3>4. QED BY <1>2, <3>1, <3>2, <3>3, GapNoted
    <2>3. QED BY <2>1, <2>2
  <1>5. /\ c.written \cup {r.offset} \in SUBSET Blocks
        /\ c.bytesWritten + 1 \in Nat
        /\ c.bytesWritten + 1 = Cardinality(c.written \cup {r.offset})
    <2>1. c.written \in SUBSET Blocks /\ c.bytesWritten = Cardinality(c.written)
          /\ r.offset \notin c.written
      BY <1>1, <1>2, ClientFields DEF Accounted, Blocks
    <2>2. c.bytesWritten \in Nat
      BY <1>1, ClientFields
    <2>3. QED BY <1>2, <2>1, <2>2, BlockWritten
  <1> HIDE DEF more
  <1>6. /\ d \in Clients /\ d.table # "empty" /\ d.stage = "burst"
        /\ d.signal = "none" /\ d.fileSize = FileSize
        /\ d.retryCount <= MaxRetry /\ d.missing = more
        /\ d.written = c.written \cup {r.offset} /\ d.bytesWritten = c.bytesWritten + 1
        /\ d.offset = r.offset + 1
    BY <1>1, <1>2, <1>4, <1>5 DEF Clients, more
  <1> HIDE DEF d
  <1>7. Accounted(d, d.offset)
    <2>1. Apart(more, d.offset)
      <3>1. \A i \in DOMAIN more : more[i] \in Holed
        BY <1>4
      <3>2. \A i \in DOMAIN more : more[i].offset + more[i].count <= r.offset
        BY <1>4 DEF Apart
      <3>3. \A i \in DOMAIN more : more[i].offset + more[i].count <= r.offset + 1
        BY <1>2, <3>1, <3>2, HoledFields DEF Blocks
      <3>4. QED BY <1>4, <1>6, <3>3 DEF Apart
    <2>2. ASSUME NEW b \in Blocks
          PROVE  b \in d.written <=> b < d.offset /\ ~InHole(more, b)
      <3>1. b \in c.written <=> b < c.offset /\ ~InHole(c.missing, b)
        BY <1>1 DEF Accounted
      <3>2. InHole(more, b) <=> InHole(c.missing, b) \/ (c.offset <= b /\ b < r.offset)
        BY <1>4
      <3>3. InHole(c.missing, b) => b < c.offset
        <4>1. ASSUME NEW i \in DOMAIN c.missing,
                     c.missing[i].offset <= b, b < c.missing[i].offset + c.missing[i].count
              PROVE  b < c.offset
          <5>1. c.missing[i] \in Holed /\ c.missing[i].offset + c.missing[i].count <= c.offset
            BY <1>1, ClientFields DEF Accounted, Apart
          <5>2. QED BY <1>1, <4>1, <5>1, HoledFields, ClientFields DEF Blocks
        <4>2. QED BY <4>1 DEF InHole
      <3>4. b \in Int /\ c.offset \in Int /\ r.offset \in Int
        BY <1>1, <1>2, ClientFields DEF Blocks
      <3>5. QED BY <1>6, <3>1, <3>2, <3>3, <3>4
    <2>3. QED BY <1>5, <1>6, <2>1, <2>2 DEF Accounted
  <1>8. CASE r.last
    <2>1. BurstPacket(c, r) = _burstReadFileWorker(last, first)
      BY <1>8 DEF BurstPacket, d
    <2>2. /\ last \in Clients /\ last.table # "empty"
          /\ last.stage = "burst" /\ last.signal = "none"
          /\ last.fileSize = FileSize /\ Accounted(last, last.offset)
      BY <1>3, <1>6, <1>7 DEF Clients, Accounted
    <2>3. first \in BOOLEAN /\ first
      OBVIOUS
    <2> HIDE DEF last, first
    <2>4. QED BY <2>1, <2>2, <2>3, BurstWorkerIsGood
  <1>9. CASE ~r.last
    <2>1. BurstPacket(c, r) = next
      BY <1>9 DEF BurstPacket, d
    <2>2. /\ next \in Clients /\ next.table # "empty"
          /\ next.stage = "burst" /\ next.signal = "none"
          /\ next.fileSize = FileSize /\ Accounted(next, next.offset)
          /\ next.retryCount <= MaxRetry
      BY <1>3, <1>6, <1>7 DEF Clients, Accounted
    <2> HIDE DEF next
    <2>3. QED BY <2>1, <2>2 DEF Good
  <1>10. QED BY <1>8, <1>9

\* The end of a burst, or an error.
LEMMA BurstEndIsGood ==
  ASSUME NEW c, Heeds(c, "burst"), NEW r \in GoodReplies
  PROVE  Good(BurstEnd(c, r))
  <1> DEFINE d == [c EXCEPT !.expected = r.seq]
             first == TRUE
  <1>1. /\ c \in Clients /\ c.table # "empty" /\ c.stage = "burst"
        /\ c.signal = "none" /\ c.fileSize = FileSize
        /\ Accounted(c, c.offset)
    BY DEF Heeds, Good
  <1>2. r.seq \in 0 .. SeqModulus - 1
    BY DEF GoodReplies, Replies
  <1>3. CASE r.seq = c.expected
    BY <1>1, <1>3, FillBeginIsGood DEF BurstEnd
  <1>4. CASE r.seq # c.expected
    <2>1. BurstEnd(c, r) = _burstReadFileWorker(d, first)
      BY <1>4 DEF BurstEnd
    <2>2. /\ d \in Clients /\ d.table # "empty" /\ d.stage = "burst" /\ d.signal = "none"
          /\ d.fileSize = FileSize /\ Accounted(d, d.offset)
      BY <1>1, <1>2 DEF Clients, Accounted
    <2>3. first \in BOOLEAN /\ first
      OBVIOUS
    <2> HIDE DEF d, first
    <2>4. QED BY <2>1, <2>2, <2>3, BurstWorkerIsGood
  <1>5. QED BY <1>3, <1>4

\* Any answer while bursts are read.
LEMMA BurstIsGood ==
  ASSUME NEW c, Heeds(c, "burst"), NEW r \in GoodReplies
  PROVE  Good(_burstReadFileAckOrNak(c, r))
  <1>1. Heeds(Stopped(c), "burst") /\ Stopped(c).offset = c.offset /\ c \in Clients
    BY StoppedIs DEF Heeds, SameOperation, Good
  <1>2. CASE r.op # "burst"
    BY <1>2 DEF _burstReadFileAckOrNak, Heeds
  <1>3. CASE r.op = "burst" /\ r.kind = "ack" /\ r.seq < c.expected
    BY <1>1, <1>3 DEF _burstReadFileAckOrNak, Heeds
  <1>4. CASE r.op = "burst" /\ r.kind = "ack" /\ ~(r.seq < c.expected) /\ r.offset < c.offset
    <2>1. _burstReadFileAckOrNak(c, r) = [c EXCEPT !.timer = TRUE]
      BY <1>4 DEF _burstReadFileAckOrNak
    <2>2. [c EXCEPT !.timer = TRUE] \in Clients /\ SameOperation(c, [c EXCEPT !.timer = TRUE])
      BY <1>1 DEF Clients, SameOperation
    <2>3. QED BY <2>1, <2>2, SameIsGood DEF Heeds
  <1>5. CASE r.op = "burst" /\ r.kind = "ack" /\ ~(r.seq < c.expected) /\ ~(r.offset < c.offset)
    <2>1. _burstReadFileAckOrNak(c, r) = BurstPacket(Stopped(c), r)
      BY <1>5 DEF _burstReadFileAckOrNak
    <2>2. r.offset >= Stopped(c).offset
      BY <1>1, <1>5, ClientFields DEF GoodReplies, Replies
    <2>3. QED BY <1>1, <1>5, <2>1, <2>2, BurstPacketIsGood
  <1>6. CASE r.op = "burst" /\ r.kind = "eof"
    <2>1. _burstReadFileAckOrNak(c, r) = BurstEnd(Stopped(c), r)
      BY <1>6 DEF _burstReadFileAckOrNak
    <2>2. QED BY <1>1, <2>1, BurstEndIsGood
  <1>7. CASE r.op = "burst" /\ r.kind \notin {"ack", "eof"}
    <2>1. _burstReadFileAckOrNak(c, r) = _downloadComplete(c, "failed")
      BY <1>7 DEF _burstReadFileAckOrNak
    <2>2. QED BY <1>1, <2>1, DownloadEnds DEF Signals
  <1>8. QED BY <1>2, <1>3, <1>4, <1>5, <1>6, <1>7

\* A read that was not answered is repeated, up to the limit.
LEMMA FillAgainIsGood ==
  ASSUME NEW c, Heeds(c, "fill")
  PROVE  Good(FillAgain(c))
  <1> DEFINE d == [c EXCEPT !.retryCount = @ + 1]
             first == FALSE
  <1>1. c \in Clients /\ c.retryCount <= MaxRetry /\ c.retryCount \in Nat
        /\ c.fileSize = FileSize /\ c.table # "empty"
    BY ClientFields DEF Heeds, Good
  <1>2. PICK end \in 0 .. FileSize : Accounted(c, end)
    BY DEF Heeds, Good
  <1>3. c.retryCount + 1 \in 0 .. MaxRetry + 1
    BY <1>1, ConstantsAre
  <1>4. /\ d \in Clients /\ d.table # "empty" /\ d.stage = "fill"
        /\ d.signal = "none" /\ d.fileSize = FileSize
        /\ Accounted(d, end)
    BY <1>1, <1>2, <1>3 DEF Clients, Accounted, Heeds
  <1>5. FillAgain(c) = IF d.retryCount > MaxRetry THEN _downloadComplete(d, "failed")
                       ELSE _fillMissingBlocksWorker(d, first)
    BY DEF FillAgain
  <1>6. first \in BOOLEAN
    OBVIOUS
  <1> HIDE DEF d, first
  <1>7. CASE d.retryCount > MaxRetry
    BY <1>4, <1>5, <1>7, DownloadEnds DEF Signals
  <1>8. CASE ~(d.retryCount > MaxRetry)
    <2>1. d.retryCount <= MaxRetry
      BY <1>4, <1>8, ClientFields, ConstantsAre
    <2>2. QED BY <1>4, <1>5, <1>6, <1>8, <2>1, FillWorkerIsGood
  <1>9. QED BY <1>7, <1>8

\* The block at the front of the first hole has come.
LEMMA FilledIsGood ==
  ASSUME NEW c, Heeds(c, "fill")
  PROVE  Good(_fillMissingBlocksWorker(
                [c EXCEPT !.written = @ \cup {c.offset},
                          !.bytesWritten = @ + 1, !.missing = Filled(c)], TRUE))
  <1> DEFINE rest == Filled(c)
             d == [c EXCEPT !.written = @ \cup {c.offset},
                            !.bytesWritten = @ + 1, !.missing = rest]
             first == TRUE
  <1>1. c \in Clients /\ c.fileSize = FileSize /\ c.missing \in Seq(Holed) /\ c.missing # <<>>
        /\ c.offset = c.missing[1].offset /\ c.table # "empty"
    BY ClientFields DEF Heeds, Good
  <1>2. PICK end \in 0 .. FileSize : Accounted(c, end)
    BY DEF Heeds, Good
  <1>3. Apart(c.missing, end)
    BY <1>2 DEF Accounted
  <1>4. /\ rest \in Seq(Holed) /\ Apart(rest, end)
        /\ c.missing[1] \in Holed /\ c.offset < end /\ InHole(c.missing, c.offset)
        /\ \A b \in Blocks : InHole(rest, b) <=> InHole(c.missing, b) /\ b # c.offset
    BY <1>1, <1>3, HoleFilled
  <1>5. c.offset \in Blocks
    BY <1>1, <1>4 DEF Holed
  <1>6. c.written \in SUBSET Blocks /\ c.offset \notin c.written
        /\ c.bytesWritten = Cardinality(c.written) /\ c.bytesWritten \in Nat
    BY <1>1, <1>2, <1>4, <1>5, ClientFields DEF Accounted
  <1>7. c.written \cup {c.offset} \in SUBSET Blocks /\ c.bytesWritten + 1 \in Nat
        /\ c.bytesWritten + 1 = Cardinality(c.written \cup {c.offset})
    BY <1>5, <1>6, BlockWritten
  <1> HIDE DEF rest
  <1>8. /\ d \in Clients /\ d.table # "empty" /\ d.stage = "fill"
        /\ d.signal = "none" /\ d.fileSize = FileSize
        /\ d.missing = rest /\ d.written = c.written \cup {c.offset}
        /\ d.bytesWritten = c.bytesWritten + 1
    BY <1>1, <1>4, <1>7 DEF Clients, Heeds
  <1>9. first \in BOOLEAN /\ first
    OBVIOUS
  <1> HIDE DEF d, first
  <1>10. Accounted(d, end)
    <2>1. ASSUME NEW b \in Blocks PROVE b \in d.written <=> b < end /\ ~InHole(rest, b)
      <3>1. b \in c.written <=> b < end /\ ~InHole(c.missing, b)
        BY <1>2 DEF Accounted
      <3>2. QED BY <1>4, <1>8, <3>1
    <2>2. QED BY <1>4, <1>7, <1>8, <2>1 DEF Accounted
  <1>11. Good(_fillMissingBlocksWorker(d, first))
    BY <1>8, <1>9, <1>10, FillWorkerIsGood
  <1>12. QED BY <1>11 DEF d, first, rest

\* Any answer while holes are filled.
LEMMA FillIsGood ==
  ASSUME NEW c, Heeds(c, "fill"), NEW r \in GoodReplies
  PROVE  Good(_fillMissingBlocksAckOrNak(c, r))
  <1> DEFINE s == Stopped(c)
  <1>1. Heeds(s, "fill") /\ s.offset = c.offset /\ s.missing = c.missing /\ c \in Clients
        /\ Whole(s) = Whole(c)
    BY StoppedIs DEF Heeds, SameOperation, Good, Whole
  <1> HIDE DEF s
  <1>2. CASE ~Expected(c, r, "read")
    BY <1>2 DEF _fillMissingBlocksAckOrNak, Heeds
  <1>3. CASE Expected(c, r, "read") /\ r.kind = "ack" /\ r.offset # c.offset
    BY <1>1, <1>3, FillAgainIsGood DEF _fillMissingBlocksAckOrNak, s
  <1>4. CASE Expected(c, r, "read") /\ r.kind = "ack" /\ r.offset = c.offset
    <2>1. Filled(c) = Filled(s)
      BY <1>1 DEF Filled
    <2>2. _fillMissingBlocksAckOrNak(c, r) =
            _fillMissingBlocksWorker(
              [s EXCEPT !.written = @ \cup {s.offset},
                        !.bytesWritten = @ + 1, !.missing = Filled(s)], TRUE)
      BY <1>1, <1>4, <2>1 DEF _fillMissingBlocksAckOrNak, s
    <2>3. QED BY <1>1, <2>2, FilledIsGood
  <1>5. CASE Expected(c, r, "read") /\ r.kind = "eof" /\ Whole(c)
    <2>1. _fillMissingBlocksAckOrNak(c, r) = _resetSessionsBegin(s)
      BY <1>5 DEF _fillMissingBlocksAckOrNak, s
    <2>2. s \in Clients /\ s.fileSize = FileSize /\ s.bytesWritten = Cardinality(s.written)
          /\ Whole(s) /\ s.table # "empty"
      BY <1>1, <1>5 DEF Heeds, Good, Accounted
    <2>3. s.checksize => s.written = Blocks
      BY <2>2, WholeIsWhole
    <2>4. QED BY <2>1, <2>2, <2>3, ResetIsGood
  <1>6. CASE Expected(c, r, "read") /\ r.kind # "ack" /\ ~(r.kind = "eof" /\ Whole(c))
    <2>1. _fillMissingBlocksAckOrNak(c, r) = _downloadComplete(c, "failed")
      BY <1>6 DEF _fillMissingBlocksAckOrNak
    <2>2. QED BY <1>1, <2>1, DownloadEnds DEF Signals
  <1>7. QED BY <1>2, <1>3, <1>4, <1>5, <1>6

\* The answer to the reset ends the download with success.
LEMMA ResetEnds ==
  ASSUME NEW c, Heeds(c, "reset")
  PROVE  Good(_downloadComplete(c, "complete"))
  BY DownloadEnds DEF Heeds, Good, Signals

\* The answer to the termination ends it as aborted.
LEMMA TerminateEnds ==
  ASSUME NEW c, Heeds(c, "terminate")
  PROVE  Good(_downloadComplete(c, "aborted"))
  BY DownloadEnds DEF Heeds, Good, Signals

\* Asking for the next entries of a directory.
LEMMA ListWorkerIsGood ==
  ASSUME NEW c, NEW first \in BOOLEAN, c \in Clients, c.table # "empty", c.stage = "list",
         c.signal = "none",
         first \/ c.listRetries <= MaxRetry
  PROVE  Good(_listDirectoryWorker(c, first))
  <1> DEFINE zero == 0
             fresh == [c EXCEPT !.listRetries = zero]
             n == IF first THEN fresh ELSE SameSequence(c)
  <1>1. zero \in 0 .. MaxRetry + 1 /\ zero <= MaxRetry
    BY ConstantsAre
  <1>2. _listDirectoryWorker(c, first) = _sendRequestExpectAck(n, "list", c.listOffset)
    BY DEF _listDirectoryWorker
  <1> HIDE DEF zero
  <1>3. fresh \in Clients /\ fresh.table # "empty" /\ fresh.stage = "list" /\ fresh.signal = "none"
        /\ fresh.listRetries = zero
    BY <1>1 DEF Clients
  <1>4. SameSequence(c) \in Clients /\ SameOperation(c, SameSequence(c))
    BY CountedIs DEF SameSequence
  <1>5. n \in Clients /\ n.table # "empty" /\ n.stage = "list"
        /\ n.signal = "none" /\ n.listRetries <= MaxRetry
    BY <1>1, <1>3, <1>4 DEF SameOperation
  <1> HIDE DEF n
  <1>6. Good(n)
    BY <1>5 DEF Good
  <1>7. c.listOffset \in Nat
    BY ClientFields
  <1>8. QED BY <1>2, <1>5, <1>6, <1>7, SentIsGood, OpcodesAre

\* Any answer to a listing.
LEMMA ListIsGood ==
  ASSUME NEW c, Heeds(c, "list"), NEW r \in GoodReplies
  PROVE  Good(_listDirectoryAckOrNak(c, r))
  <1> DEFINE s == Stopped(c)
  <1>1. Heeds(s, "list") /\ c \in Clients /\ c.table # "empty"
    BY StoppedIs DEF Heeds, SameOperation, Good
  <1> HIDE DEF s
  <1>2. CASE r.op # "list"
    BY <1>2 DEF _listDirectoryAckOrNak, Heeds
  <1>3. CASE r.op = "list" /\ r.kind = "ack" /\ r.seq < c.expected
    BY <1>1, <1>3 DEF _listDirectoryAckOrNak, Heeds, s
  <1>4. CASE r.op = "list" /\ r.kind = "ack" /\ ~(r.seq < c.expected)
    <2> DEFINE d == [c EXCEPT !.listed = Append(@, r.offset), !.listOffset = @ + 1,
                              !.expected = r.seq]
               first == TRUE
    <2>1. _listDirectoryAckOrNak(c, r) = _listDirectoryWorker(d, first)
      BY <1>4 DEF _listDirectoryAckOrNak, ListPacket
    <2>2. r.seq \in 0 .. SeqModulus - 1 /\ Append(c.listed, r.offset) \in Seq(Nat)
          /\ c.listOffset + 1 \in Nat
      BY <1>1, ClientFields DEF GoodReplies, Replies
    <2>3. d \in Clients /\ d.table # "empty" /\ d.stage = "list" /\ d.signal = "none"
      BY <1>1, <2>2 DEF Clients, Heeds
    <2>4. first \in BOOLEAN /\ first
      OBVIOUS
    <2> HIDE DEF d, first
    <2>5. QED BY <2>1, <2>3, <2>4, ListWorkerIsGood
  <1>5. CASE r.op = "list" /\ r.kind = "eof"
    <2>1. _listDirectoryAckOrNak(c, r) = ListEnd(s, r)
      BY <1>5 DEF _listDirectoryAckOrNak, s
    <2>2. s \in Clients
      BY <1>1 DEF Heeds, Good
    <2>3. [s EXCEPT !.timer = TRUE] \in Clients
          /\ SameOperation(s, [s EXCEPT !.timer = TRUE])
      BY <2>2 DEF Clients, SameOperation
    <2>4. Good([s EXCEPT !.timer = TRUE])
      BY <1>1, <2>3, SameIsGood DEF Heeds
    <2>5. Good(_listDirectoryComplete(s, "listed"))
      BY <2>2, ListingEnds
    <2>6. QED BY <2>1, <2>4, <2>5 DEF ListEnd
  <1>6. CASE r.op = "list" /\ r.kind \notin {"ack", "eof"}
    <2>1. _listDirectoryAckOrNak(c, r) = _listDirectoryComplete(c, "listFailed")
      BY <1>6 DEF _listDirectoryAckOrNak
    <2>2. QED BY <1>1, <2>1, ListingEnds
  <1>7. QED BY <1>2, <1>3, <1>4, <1>5, <1>6

\* Any message, whatever the operation.
LEMMA ReplyIsGood ==
  ASSUME NEW c, Good(c), c.signal = "none", NEW r \in GoodReplies
  PROVE  Good(_mavlinkMessageReceived(c, r))
  <1>1. CASE c.stage = "none" \/ Old(c, r)
    BY <1>1 DEF _mavlinkMessageReceived
  <1>2. CASE c.stage # "none" /\ ~Old(c, r)
    <2>1. _mavlinkMessageReceived(c, r) = AckOrNak(c, r)
      BY <1>2 DEF _mavlinkMessageReceived
    <2>2. Heeds(c, c.stage)
      BY DEF Heeds
    <2>3. c.stage \in {"open", "burst", "fill", "reset", "terminate", "list"}
      BY <1>2 DEF Good, Clients
    <2>4. CASE c.stage = "open"
      BY <2>1, <2>2, <2>4, OpenIsGood DEF AckOrNak
    <2>5. CASE c.stage = "burst"
      BY <2>1, <2>2, <2>5, BurstIsGood DEF AckOrNak
    <2>6. CASE c.stage = "fill"
      BY <2>1, <2>2, <2>6, FillIsGood DEF AckOrNak
    <2>7. CASE c.stage = "reset"
      BY <2>1, <2>2, <2>7, ResetEnds DEF AckOrNak, _resetSessionsAckOrNak
    <2>8. CASE c.stage = "terminate"
      BY <2>1, <2>2, <2>8, TerminateEnds DEF AckOrNak, _terminateSessionAckOrNak
    <2>9. CASE c.stage = "list"
      BY <2>1, <2>2, <2>9, ListIsGood DEF AckOrNak
    <2>10. QED BY <2>3, <2>4, <2>5, <2>6, <2>7, <2>8, <2>9
  <1>3. QED BY <1>1, <1>2

-----------------------------------------------------------------------------
(* The time-outs and the calls.                                            *)

\* A burst that was not answered is asked for again, up to the limit.
LEMMA BurstAgainIsGood ==
  ASSUME NEW c, Heeds(c, "burst")
  PROVE  Good(BurstAgain(c))
  <1> DEFINE d == [c EXCEPT !.retryCount = @ + 1]
             first == FALSE
  <1>1. c \in Clients /\ c.retryCount <= MaxRetry /\ c.retryCount \in Nat
        /\ c.fileSize = FileSize /\ c.table # "empty" /\ Accounted(c, c.offset)
    BY ClientFields DEF Heeds, Good
  <1>2. c.retryCount + 1 \in 0 .. MaxRetry + 1
    BY <1>1, ConstantsAre
  <1>3. /\ d \in Clients /\ d.table # "empty" /\ d.stage = "burst"
        /\ d.signal = "none" /\ d.fileSize = FileSize
        /\ Accounted(d, d.offset)
    BY <1>1, <1>2 DEF Clients, Accounted, Heeds
  <1>4. BurstAgain(c) = IF d.retryCount > MaxRetry THEN _downloadComplete(d, "failed")
                        ELSE _burstReadFileWorker(d, first)
    BY DEF BurstAgain
  <1>5. first \in BOOLEAN
    OBVIOUS
  <1> HIDE DEF d, first
  <1>6. CASE d.retryCount > MaxRetry
    BY <1>3, <1>4, <1>6, DownloadEnds DEF Signals
  <1>7. CASE ~(d.retryCount > MaxRetry)
    <2>1. d.retryCount <= MaxRetry
      BY <1>3, <1>7, ClientFields, ConstantsAre
    <2>2. QED BY <1>3, <1>4, <1>5, <1>7, <2>1, BurstWorkerIsGood
  <1>8. QED BY <1>6, <1>7

\* Terminating a session.
LEMMA TerminateBeginIsGood ==
  ASSUME NEW c \in Clients, c.table # "empty", c.signal = "none", c.retryCount <= MaxRetry
  PROVE  Good(_terminateSessionBegin(c))
  <1> DEFINE d == [c EXCEPT !.stage = "terminate"]
  <1>1. d \in Clients /\ d.table # "empty" /\ d.stage = "terminate"
        /\ d.signal = "none" /\ d.retryCount <= MaxRetry
    BY DEF Clients
  <1> HIDE DEF d
  <1>2. Good(d)
    BY <1>1 DEF Good
  <1>3. QED BY <1>1, <1>2, SentIsGood, OpcodesAre DEF _terminateSessionBegin, d

\* A termination that was not answered is repeated, up to the limit.
LEMMA TerminateAgainIsGood ==
  ASSUME NEW c, Heeds(c, "terminate")
  PROVE  Good(TerminateAgain(c))
  <1> DEFINE d == [c EXCEPT !.retryCount = @ + 1]
  <1>1. c \in Clients /\ c.retryCount <= MaxRetry /\ c.retryCount \in Nat
        /\ c.table # "empty"
    BY ClientFields DEF Heeds, Good
  <1>2. c.retryCount + 1 \in 0 .. MaxRetry + 1
    BY <1>1, ConstantsAre
  <1>3. d \in Clients /\ d.table # "empty" /\ d.signal = "none"
    BY <1>1, <1>2 DEF Clients, Heeds
  <1>4. TerminateAgain(c) = IF d.retryCount > MaxRetry THEN _downloadComplete(d, "failed")
                            ELSE _terminateSessionBegin(d)
    BY DEF TerminateAgain
  <1> HIDE DEF d
  <1>5. CASE d.retryCount > MaxRetry
    BY <1>3, <1>4, <1>5, DownloadEnds DEF Signals
  <1>6. CASE ~(d.retryCount > MaxRetry)
    <2>1. d.retryCount <= MaxRetry
      BY <1>3, <1>6, ClientFields, ConstantsAre
    <2>2. QED BY <1>3, <1>4, <1>6, <2>1, TerminateBeginIsGood
  <1>7. QED BY <1>5, <1>6

\* So is a listing.
LEMMA ListAgainIsGood ==
  ASSUME NEW c, Heeds(c, "list")
  PROVE  Good(ListAgain(c))
  <1> DEFINE d == [c EXCEPT !.listRetries = @ + 1]
             first == FALSE
  <1>1. c \in Clients /\ c.listRetries <= MaxRetry /\ c.listRetries \in Nat
        /\ c.table # "empty"
    BY ClientFields DEF Heeds, Good
  <1>2. c.listRetries + 1 \in 0 .. MaxRetry + 1
    BY <1>1, ConstantsAre
  <1>3. d \in Clients /\ d.table # "empty" /\ d.stage = "list" /\ d.signal = "none"
    BY <1>1, <1>2 DEF Clients, Heeds
  <1>4. ListAgain(c) = IF d.listRetries > MaxRetry THEN _listDirectoryComplete(d, "listFailed")
                       ELSE _listDirectoryWorker(d, first)
    BY DEF ListAgain
  <1>5. first \in BOOLEAN
    OBVIOUS
  <1> HIDE DEF d, first
  <1>6. CASE d.listRetries > MaxRetry
    BY <1>3, <1>4, <1>6, ListingEnds
  <1>7. CASE ~(d.listRetries > MaxRetry)
    <2>1. d.listRetries <= MaxRetry
      BY <1>3, <1>7, ClientFields, ConstantsAre
    <2>2. QED BY <1>3, <1>4, <1>5, <1>7, <2>1, ListWorkerIsGood
  <1>8. QED BY <1>6, <1>7

\* Any time-out, whatever the operation.
LEMMA TimeoutIsGood ==
  ASSUME NEW c, Good(c), c.signal = "none", c.timer
  PROVE  Good(_ackOrNakTimeout(c))
  <1>1. Heeds(c, c.stage) /\ Heeds(Stopped(c), c.stage) /\ c \in Clients
    BY StoppedIs DEF Heeds, SameOperation, Good
  <1>2. c.stage \in {"open", "burst", "fill", "reset", "terminate", "list"}
    BY DEF Good, Clients
  <1>3. CASE c.stage = "open"
    BY <1>1, <1>3, DownloadEnds DEF _ackOrNakTimeout, Signals
  <1>4. CASE c.stage = "burst"
    BY <1>1, <1>4, BurstAgainIsGood DEF _ackOrNakTimeout
  <1>5. CASE c.stage = "fill"
    BY <1>1, <1>5, FillAgainIsGood DEF _ackOrNakTimeout
  <1>6. CASE c.stage = "reset"
    BY <1>1, <1>6, ResetEnds DEF _ackOrNakTimeout
  <1>7. CASE c.stage = "terminate"
    BY <1>1, <1>7, TerminateAgainIsGood DEF _ackOrNakTimeout
  <1>8. CASE c.stage = "list"
    BY <1>1, <1>8, ListAgainIsGood DEF _ackOrNakTimeout
  <1>9. QED BY <1>2, <1>3, <1>4, <1>5, <1>6, <1>7, <1>8

\* A download is asked for.
LEMMA DownloadIsGood ==
  ASSUME NEW c, Good(c), c.table = "empty", c.signal = "none",
         NEW checksize \in BOOLEAN, NEW valid \in BOOLEAN
  PROVE  Good(download(c, checksize, valid))
  <1> DEFINE zero == 0
             none == <<>>
             d == [c EXCEPT !.table = "download", !.fileSize = zero, !.offset = zero,
                            !.bytesWritten = zero, !.missing = none, !.retryCount = zero,
                            !.checksize = checksize, !.written = {}]
             e == [d EXCEPT !.stage = "open"]
  <1>1. c \in Clients /\ c.stage = "none" /\ ~c.timer
    BY DEF Good
  <1>2. zero \in 0 .. FileSize /\ zero \in 0 .. MaxRetry + 1 /\ zero \in Nat
        /\ zero \in {0, FileSize} /\ none \in Seq(Holed) /\ zero = 0 /\ none = <<>>
    BY ConstantsAre
  <1>3. download(c, checksize, valid) =
          IF valid THEN _sendRequestExpectAck(e, "open", 0) ELSE d
    BY DEF download, _openFileROBegin
  <1> HIDE DEF zero, none
  <1>4. /\ d \in Clients /\ d.stage = "none" /\ ~d.timer /\ d.signal = "none"
        /\ d.missing = none /\ d.bytesWritten = zero /\ d.table = "download"
    BY <1>1, <1>2 DEF Clients
  <1> HIDE DEF d
  <1>5. Good(d)
    BY <1>4 DEF Good
  <1>6. /\ e \in Clients /\ e.stage = "open" /\ e.signal = "none"
        /\ e.missing = <<>> /\ e.bytesWritten = 0 /\ e.table = "download"
    BY <1>2, <1>4 DEF Clients
  <1> HIDE DEF e
  <1>7. Good(e)
    BY <1>6 DEF Good
  <1>8. Good(_sendRequestExpectAck(e, "open", 0))
    BY <1>6, <1>7, SentIsGood, OpcodesAre
  <1>9. QED BY <1>3, <1>5, <1>8

\* A listing is asked for.
LEMMA ListDirectoryIsGood ==
  ASSUME NEW c, Good(c), c.table = "empty", c.signal = "none", NEW valid \in BOOLEAN
  PROVE  Good(listDirectory(c, valid))
  <1> DEFINE zero == 0
             none == <<>>
             d == [c EXCEPT !.table = "list", !.listOffset = zero, !.listRetries = zero,
                            !.listed = none]
             e == [d EXCEPT !.stage = "list"]
             first == TRUE
  <1>1. c \in Clients /\ c.stage = "none" /\ ~c.timer
    BY DEF Good
  <1>2. zero \in 0 .. MaxRetry + 1 /\ zero \in Nat /\ none \in Seq(Nat)
    BY ConstantsAre
  <1>3. listDirectory(c, valid) = IF valid THEN _listDirectoryWorker(e, first) ELSE d
    BY DEF listDirectory
  <1>4. first \in BOOLEAN /\ first
    OBVIOUS
  <1> HIDE DEF zero, none, first
  <1>5. /\ d \in Clients /\ d.stage = "none" /\ ~d.timer /\ d.signal = "none"
        /\ d.table = "list"
    BY <1>1, <1>2 DEF Clients
  <1> HIDE DEF d
  <1>6. Good(d)
    BY <1>5 DEF Good
  <1>7. e \in Clients /\ e.stage = "list" /\ e.signal = "none" /\ e.table # "empty"
    BY <1>5 DEF Clients
  <1> HIDE DEF e
  <1>8. Good(_listDirectoryWorker(e, first))
    BY <1>4, <1>7, ListWorkerIsGood
  <1>9. QED BY <1>3, <1>6, <1>8

\* A download is cancelled, whatever its stage.
LEMMA CancelIsGood ==
  ASSUME NEW c, Good(c), c.signal = "none"
  PROVE  Good(cancelDownload(c))
  <1> DEFINE zero == 0
             s == Stopped(c)
             d == [s EXCEPT !.table = "terminate", !.retryCount = zero]
  <1>1. s \in Clients /\ s.signal = "none"
    BY StoppedIs DEF Good
  <1>2. zero \in 0 .. MaxRetry + 1 /\ zero <= MaxRetry
    BY ConstantsAre
  <1>3. cancelDownload(c) = _terminateSessionBegin(d)
    BY DEF cancelDownload
  <1> HIDE DEF zero, s
  <1>4. d \in Clients /\ d.table # "empty" /\ d.signal = "none" /\ d.retryCount <= MaxRetry
    BY <1>1, <1>2 DEF Clients
  <1> HIDE DEF d
  <1>5. QED BY <1>3, <1>4, TerminateBeginIsGood

-----------------------------------------------------------------------------
(* The server.                                                             *)

\* The fields of a reply.
LEMMA ReplyFields ==
  ASSUME NEW kind \in {"ack", "eof", "fail"}, NEW op \in Opcodes, NEW seq \in 0 .. SeqModulus - 1,
         NEW offset \in Nat, kind = "ack" /\ op \in {"burst", "read"} => offset < FileSize,
         NEW last \in BOOLEAN
  PROVE  [kind |-> kind, op |-> op, seq |-> seq, offset |-> offset, last |-> last] \in GoodReplies
  BY DEF GoodReplies, Replies

\* The number of a reply.
LEMMA NextNumber ==
  ASSUME NEW request \in Requests
  PROVE  /\ request.seq \in Int /\ request.offset \in Nat /\ request.op \in Opcodes
         /\ _nextSeqNumber(request.seq) \in 0 .. SeqModulus - 1
  <1>1. request.seq \in Int /\ request.seq + 1 \in Int
        /\ request.offset \in Nat /\ request.op \in Opcodes
    BY DEF Requests
  <1>2. QED BY <1>1, NumberWraps DEF _nextSeqNumber

\* One reply is a sequence of them.
LEMMA OneIsGood ==
  ASSUME NEW r \in GoodReplies
  PROVE  <<r>> \in Seq(GoodReplies) /\ <<r>> # <<>>
  OBVIOUS

\* The reply to a read carries a block of the file, or says that there is none.
LEMMA ReadReplyIsGood ==
  ASSUME NEW request \in Requests, NEW size \in Nat,
         request.op = "read" => size <= FileSize, request.op # "burst"
  PROVE  ReadReply(server, request, size) \in GoodReplies
  <1> DEFINE kind == IF request.offset >= size THEN "eof" ELSE "ack"
             last == FALSE
             seq == _nextSeqNumber(request.seq)
  <1>1. /\ ReadReply(server, request, size) =
             [kind |-> kind, op |-> request.op, seq |-> seq, offset |-> request.offset,
              last |-> last]
    BY DEF ReadReply, Reply
  <1>2. kind \in {"ack", "eof", "fail"} /\ last \in BOOLEAN
    OBVIOUS
  <1>3. kind = "ack" /\ request.op \in {"burst", "read"} => request.offset < FileSize
    BY NextNumber, ConstantsAre
  <1> HIDE DEF kind, last
  <1>4. QED BY <1>1, <1>2, <1>3, NextNumber, ReplyFields

\* So do the packets of a burst, of which there is at least the end.
LEMMA BurstReplyIsGood ==
  ASSUME NEW request \in Requests, request.op = "burst"
  PROVE  /\ _burstReadCommand(server, request) \in Seq(GoodReplies)
         /\ _burstReadCommand(server, request) # <<>>
  <1> DEFINE left  == CurrentSize(server) - request.offset
             count == IF left < 0 THEN 0
                      ELSE IF left < BurstMax - 1 THEN left ELSE BurstMax - 1
             packet(i) == [Reply("ack", "burst", (request.seq + i) % SeqModulus,
                                 request.offset + i - 1) EXCEPT !.last = (i = BurstMax - 1)]
             packets == [i \in 1 .. count |-> packet(i)]
             end == Reply("eof", "burst", (request.seq + count + 1) % SeqModulus,
                          request.offset + count)
  <1>1. /\ request.seq \in Int /\ request.offset \in Nat /\ BurstMax \in Int /\ 2 <= BurstMax
        /\ CurrentSize(server) \in {0, FileSize}
    BY NextNumber DEF CurrentSize
  <1>2. left \in Int /\ left <= FileSize - request.offset
    BY <1>1, ConstantsAre
  <1> HIDE DEF left
  <1>3. count \in Nat /\ (count < left => count = BurstMax - 1) /\ (count = 0 \/ count <= left)
    BY <1>1, <1>2
  <1> HIDE DEF count
  <1>4. ASSUME NEW i \in 1 .. count PROVE packet(i) \in GoodReplies
    <2>1. (request.seq + i) % SeqModulus \in 0 .. SeqModulus - 1
      <3>1. request.seq + i \in Int
        BY <1>1
      <3>2. QED BY <3>1, NumberWraps
    <2>2. request.offset + i - 1 \in Nat /\ request.offset + i - 1 < FileSize
      BY <1>1, <1>2, <1>3, ConstantsAre
    <2> DEFINE seq == (request.seq + i) % SeqModulus
               offset == request.offset + i - 1
               last == i = BurstMax - 1
    <2>3. packet(i) = [kind |-> "ack", op |-> "burst", seq |-> seq, offset |-> offset,
                       last |-> last]
      BY DEF Reply
    <2>4. last \in BOOLEAN
      OBVIOUS
    <2> HIDE DEF seq, offset, last, packet
    <2>5. QED BY <2>1, <2>2, <2>3, <2>4, ReplyFields, OpcodesAre DEF seq, offset
  <1>5. end \in GoodReplies
    <2>1. request.seq + count + 1 \in Int /\ request.offset + count \in Nat
      BY <1>1, <1>3
    <2>2. (request.seq + count + 1) % SeqModulus \in 0 .. SeqModulus - 1
      BY <2>1, NumberWraps
    <2> DEFINE seq == (request.seq + count + 1) % SeqModulus
               offset == request.offset + count
               last == FALSE
    <2>3. end = [kind |-> "eof", op |-> "burst", seq |-> seq, offset |-> offset, last |-> last]
      BY DEF Reply
    <2>4. last \in BOOLEAN
      OBVIOUS
    <2> HIDE DEF seq, offset, last, end
    <2>5. QED BY <2>1, <2>2, <2>3, <2>4, ReplyFields, OpcodesAre DEF seq, offset
  <1>6. _burstReadCommand(server, request) = IF count < left THEN packets ELSE Append(packets, end)
    BY DEF _burstReadCommand, count, left
  <1> HIDE DEF packet, end
  <1>7. packets \in Seq(GoodReplies) /\ Len(packets) = count
    BY <1>3, <1>4
  <1> HIDE DEF packets
  <1>8. CASE count < left
    <2>1. packets # <<>>
      BY <1>1, <1>3, <1>7, <1>8
    <2>2. QED BY <1>6, <1>7, <1>8, <2>1
  <1>9. CASE ~(count < left)
    <2>1. Append(packets, end) \in Seq(GoodReplies)
          /\ Len(Append(packets, end)) = Len(packets) + 1
      BY <1>5, <1>7
    <2>2. Append(packets, end) # <<>>
      <3> DEFINE longer == Append(packets, end)
      <3>1. longer \in Seq(GoodReplies) /\ Len(longer) = Len(packets) + 1 /\ Len(packets) \in Nat
        BY <1>7, <2>1
      <3> HIDE DEF longer
      <3>2. longer # <<>>
        BY <3>1
      <3>3. QED BY <3>2 DEF longer
    <2>3. QED BY <1>6, <1>9, <2>1, <2>2
  <1>10. QED BY <1>8, <1>9

\* So do the answers of the server.
LEMMA AnswersAreGood ==
  ASSUME NEW request \in Requests
  PROVE  Answers(server, request) \in Seq(GoodReplies) /\ Answers(server, request) # <<>>
  <1>1. CASE request.op = "burst"
    BY <1>1, BurstReplyIsGood DEF Answers
  <1>2. CASE request.op = "read"
    <2>1. CurrentSize(server) \in Nat /\ CurrentSize(server) <= FileSize
      BY ConstantsAre DEF CurrentSize
    <2>2. ReadReply(server, request, CurrentSize(server)) \in GoodReplies
      BY <1>2, <2>1, ReadReplyIsGood
    <2>3. QED BY <1>2, <2>2, OneIsGood DEF Answers
  <1>3. CASE request.op = "list"
    <2>1. DirectorySize \in Nat
      OBVIOUS
    <2>2. ReadReply(server, request, DirectorySize) \in GoodReplies
      BY <1>3, <2>1, ReadReplyIsGood
    <2>3. QED BY <1>3, <2>2, OneIsGood DEF Answers
  <1>4. CASE request.op \notin {"burst", "read", "list"}
    <2> DEFINE r == Reply("ack", request.op, _nextSeqNumber(request.seq), 0)
               kind == "ack"
               zero == 0
               last == FALSE
    <2>1. r = [kind |-> kind, op |-> request.op, seq |-> _nextSeqNumber(request.seq),
               offset |-> zero, last |-> last]
      BY DEF Reply
    <2>2. kind \in {"ack", "eof", "fail"} /\ zero \in Nat /\ last \in BOOLEAN
      OBVIOUS
    <2>3. Answers(server, request) = <<r>>
      BY <1>4 DEF Answers
    <2> HIDE DEF r, kind, zero, last
    <2>4. r \in GoodReplies
      BY <1>4, <2>1, <2>2, NextNumber, ReplyFields
    <2>5. QED BY <2>3, <2>4, OneIsGood
  <1>5. QED BY <1>1, <1>2, <1>3, <1>4

\* An error carries no block.
LEMMA FailsAreGood ==
  ASSUME NEW request \in Requests
  PROVE  Fails(request) \in Seq(GoodReplies) /\ Fails(request) # <<>>
  <1> DEFINE r == Reply("fail", request.op, _nextSeqNumber(request.seq), request.offset)
             kind == "fail"
             last == FALSE
  <1>1. r = [kind |-> kind, op |-> request.op, seq |-> _nextSeqNumber(request.seq),
             offset |-> request.offset, last |-> last]
    BY DEF Reply
  <1>2. kind \in {"ack", "eof", "fail"} /\ kind # "ack" /\ last \in BOOLEAN
    OBVIOUS
  <1>3. Fails(request) = <<r>>
    BY DEF Fails
  <1> HIDE DEF r, kind, last
  <1>4. r \in GoodReplies
    BY <1>1, <1>2, NextNumber, ReplyFields
  <1>5. QED BY <1>3, <1>4, OneIsGood

-----------------------------------------------------------------------------
(* The steps.                                                              *)

\* No operation is going on.
LEMMA Initially == Init => IInv
  <1> SUFFICES ASSUME Init PROVE IInv
    OBVIOUS
  <1> DEFINE zero == 0
             none == <<>>
             c == [table |-> "empty", stage |-> "none", timer |-> FALSE, expected |-> zero,
                   wrapped |-> FALSE, fileSize |-> zero, offset |-> zero, bytesWritten |-> zero,
                   missing |-> none, retryCount |-> zero, checksize |-> TRUE, written |-> {},
                   listOffset |-> zero, listRetries |-> zero, listed |-> none,
                   link |-> TRUE, unsent |-> FALSE, out |-> none, signal |-> "none"]
  <1>1. client = c
    BY DEF Init, NewClient
  <1>2. /\ zero \in 0 .. SeqModulus - 1 /\ zero \in {0, FileSize} /\ zero \in 0 .. FileSize
        /\ zero \in Nat /\ zero \in 0 .. MaxRetry + 1
        /\ none \in Seq(Holed) /\ none \in Seq(Nat) /\ none \in Seq(Requests)
        /\ none \in Seq(GoodReplies) /\ none = <<>>
    BY ConstantsAre
  <1>3. toServer = none /\ toClient = none /\ server.lastReply = none /\ server.open = FALSE
    BY DEF Init, NewServer
  <1> HIDE DEF zero, none
  <1>4. c \in Clients
    BY <1>2 DEF Clients
  <1>5. c.stage = "none" /\ ~c.timer /\ c.signal = "none" /\ c.out = none
    OBVIOUS
  <1> HIDE DEF c
  <1>6. Good(c)
    BY <1>4, <1>5 DEF Good
  <1>7. QED BY <1>1, <1>2, <1>3, <1>5, <1>6 DEF IInv

\* The packet of the last step has been taken from the client.
LEMMA QuietIsGood ==
  ASSUME NEW c, Good(c)
  PROVE  /\ Good([c EXCEPT !.signal = "none"]) /\ [c EXCEPT !.signal = "none"].signal = "none"
         /\ \A link \in BOOLEAN : Good([c EXCEPT !.signal = "none", !.link = link])
  <1>1. ASSUME NEW link \in BOOLEAN
        PROVE  Good([c EXCEPT !.signal = "none", !.link = link])
    <2> DEFINE d == [c EXCEPT !.signal = "none", !.link = link]
    <2>1. d \in Clients /\ SameOperation([d EXCEPT !.signal = c.signal, !.link = c.link], c)
      BY DEF Good, Clients, SameOperation
    <2>2. /\ d.table = c.table /\ d.stage = c.stage /\ d.fileSize = c.fileSize
          /\ d.offset = c.offset /\ d.bytesWritten = c.bytesWritten
          /\ d.missing = c.missing /\ d.retryCount = c.retryCount
          /\ d.checksize = c.checksize /\ d.written = c.written
          /\ d.listRetries = c.listRetries /\ d.timer = c.timer /\ d.signal = "none"
      BY DEF Good, Clients
    <2> HIDE DEF d
    <2>3. Good(d)
      BY <2>1, <2>2 DEF Good, Accounted
    <2>4. QED BY <2>3 DEF d
  <1>2. /\ c.link \in BOOLEAN
        /\ [c EXCEPT !.signal = "none"] = [c EXCEPT !.signal = "none", !.link = c.link]
        /\ [c EXCEPT !.signal = "none"].signal = "none"
    BY DEF Good, Clients
  <1>3. QED BY <1>1, <1>2

\* A step of the client: what it sends is on its way.
LEMMA BecomesGood ==
  ASSUME IInv, NEW c, Good(c), Becomes(c), toClient' \in Seq(GoodReplies), server' = server
  PROVE  IInv'
  <1> DEFINE none == <<>>
             d == [c EXCEPT !.out = none]
  <1>1. none \in Seq(Requests) /\ none = <<>>
    OBVIOUS
  <1>2. client' = d
    BY DEF Becomes
  <1> HIDE DEF none
  <1>3. d \in Clients /\ SameOperation(c, d) /\ d.timer = c.timer /\ d.out = none
    BY <1>1 DEF Good, Clients, SameOperation
  <1> HIDE DEF d
  <1>4. Good(d)
    BY <1>3 DEF Good, SameOperation, Accounted
  <1>5. c.out \in Seq(Requests)
    BY DEF Good, Clients
  <1>6. toServer' \in Seq(Requests)
    BY <1>5 DEF Becomes, IInv
  <1>7. QED BY <1>1, <1>2, <1>3, <1>4, <1>6 DEF IInv

\* A step of the server.
LEMMA ServeKeeps ==
  ASSUME IInv, toServer # <<>>, NEW replies \in Seq(GoodReplies), replies # <<>>, Serve(replies)
  PROVE  IInv'
  <1>1. Head(toServer) \in Requests /\ toServer' \in Seq(Requests)
    BY DEF Serve, IInv
  <1>2. replies[Len(replies)] \in GoodReplies /\ toClient' \in Seq(GoodReplies)
    BY DEF Serve, IInv
  <1>3. server'.lastReply = <<replies[Len(replies)]>> /\ server'.open \in BOOLEAN
    BY DEF Serve, Served, IInv
  <1>4. server'.lastReply \in Seq(GoodReplies)
    BY <1>2, <1>3
  <1>5. client' = client
    BY DEF Serve
  <1>6. QED BY <1>1, <1>2, <1>3, <1>4, <1>5 DEF IInv, Good, Accounted, Apart, InHole

\* To lose, duplicate or delay a packet makes no other.
LEMMA PacketsKept ==
  ASSUME NEW S, NEW packets \in Seq(S), NEW i \in DOMAIN packets
  PROVE  RemoveAt(packets, i) \in Seq(S) /\ InsertAt(packets, i, packets[i]) \in Seq(S)
         /\ packets[i] \in S
  <1>1. i \in 1 .. Len(packets) /\ Len(packets) \in Nat /\ packets[i] \in S
    OBVIOUS
  <1>2. SubSeq(packets, 1, i - 1) \in Seq(S) /\ SubSeq(packets, i + 1, Len(packets)) \in Seq(S)
        /\ SubSeq(packets, i, Len(packets)) \in Seq(S)
    BY <1>1
  <1>3. <<packets[i]>> \in Seq(S)
    BY <1>1
  <1>4. QED BY <1>1, <1>2, <1>3 DEF RemoveAt, InsertAt

\* A step of the link.
LEMMA ChannelStep ==
  ASSUME IInv, UNCHANGED <<client, server>>, toServer' \in Seq(Requests),
         toClient' \in Seq(GoodReplies)
  PROVE  IInv'
  BY DEF IInv, Good, Accounted, Apart, InHole

\* Every step keeps the invariant.
LEMMA NextKeeps == IInv /\ [Next]_vars => IInv'
  <1> SUFFICES ASSUME IInv, [Next]_vars PROVE IInv'
    OBVIOUS
  <1>1. Good(client) /\ toServer \in Seq(Requests) /\ toClient \in Seq(GoodReplies)
    BY DEF IInv
  <1>2. Good(Quiet) /\ Quiet.signal = "none"
        /\ \A link \in BOOLEAN : Good([Quiet EXCEPT !.link = link])
    <2>1. \A link \in BOOLEAN :
            [Quiet EXCEPT !.link = link] = [client EXCEPT !.signal = "none", !.link = link]
      BY DEF Quiet
    <2>2. QED BY <1>1, <2>1, QuietIsGood DEF Quiet
  <1>3. Quiet.table = client.table /\ Quiet.timer = client.timer
    BY <1>1 DEF Quiet, Good, Clients
  <1>4. CASE Download
    <2>1. PICK checksize \in BOOLEAN, valid \in ValidURIs :
            Start(download(Quiet, checksize, valid))
      BY <1>4 DEF Download
    <2>2. valid \in BOOLEAN /\ Quiet.table = "empty"
      BY <1>3, <2>1, TransferAssumption DEF Start, Idle
    <2>3. Good(download(Quiet, checksize, valid))
      BY <1>2, <2>2, DownloadIsGood
    <2>4. QED BY <1>1, <2>1, <2>3, BecomesGood DEF Start
  <1>5. CASE ListDirectory
    <2>1. PICK valid \in ValidURIs : Start(listDirectory(Quiet, valid))
      BY <1>5 DEF ListDirectory
    <2>2. valid \in BOOLEAN /\ Quiet.table = "empty"
      BY <1>3, <2>1, TransferAssumption DEF Start, Idle
    <2>3. Good(listDirectory(Quiet, valid))
      BY <1>2, <2>2, ListDirectoryIsGood
    <2>4. QED BY <1>1, <2>1, <2>3, BecomesGood DEF Start
  <1>6. CASE Cancel
    <2>1. Good(cancelDownload(Quiet))
      BY <1>2, CancelIsGood
    <2>2. QED BY <1>1, <1>6, <2>1, BecomesGood DEF Cancel
  <1>7. CASE ReplyReceived
    <2>1. Head(toClient) \in GoodReplies /\ toClient' \in Seq(GoodReplies)
      BY <1>1, <1>7 DEF ReplyReceived
    <2>2. Good(_mavlinkMessageReceived(Quiet, Head(toClient)))
      BY <1>2, <2>1, ReplyIsGood
    <2>3. QED BY <1>7, <2>1, <2>2, BecomesGood DEF ReplyReceived
  <1>8. CASE Timeout
    <2>1. Good(_ackOrNakTimeout(Quiet))
      BY <1>2, <1>3, <1>8, TimeoutIsGood DEF Timeout
    <2>2. QED BY <1>1, <1>8, <2>1, BecomesGood DEF Timeout
  <1>9. CASE RequestServed \/ RequestFailed
    <2>1. toServer # <<>> /\ Head(toServer) \in Requests
      BY <1>1, <1>9 DEF RequestServed, RequestFailed
    <2>2. server.lastReply \in Seq(GoodReplies)
      BY DEF IInv
    <2>3. CASE RequestServed
      <3> DEFINE replies == IF Repeated(server, Head(toServer)) THEN server.lastReply
                            ELSE Answers(server, Head(toServer))
      <3>1. replies \in Seq(GoodReplies) /\ replies # <<>>
        BY <2>1, <2>2, AnswersAreGood DEF Repeated
      <3>2. Serve(replies)
        BY <2>3 DEF RequestServed
      <3> HIDE DEF replies
      <3>3. QED BY <2>1, <3>1, <3>2, ServeKeeps
    <2>4. CASE RequestFailed
      <3>1. Fails(Head(toServer)) \in Seq(GoodReplies) /\ Fails(Head(toServer)) # <<>>
        BY <2>1, FailsAreGood
      <3>2. QED BY <2>1, <2>4, <3>1, ServeKeeps DEF RequestFailed
    <2>5. QED BY <1>9, <2>3, <2>4
  <1>10. CASE RequestLost
    <2>1. toServer' \in Seq(Requests)
      BY <1>1, <1>10 DEF RequestLost
    <2>2. QED BY <1>1, <1>10, <2>1, ChannelStep DEF RequestLost
  <1>11. CASE ReplyLost \/ ReplyDuplicated \/ ReplyDelayed
    <2>1. PICK i \in DOMAIN toClient :
            \/ toClient' = RemoveAt(toClient, i)
            \/ toClient' = InsertAt(toClient, i, toClient[i])
            \/ toClient' = Append(RemoveAt(toClient, i), toClient[i])
      <3>1. 1 .. Len(toClient) - 1 \subseteq DOMAIN toClient
        BY <1>1
      <3>2. QED BY <1>11, <3>1 DEF ReplyLost, ReplyDuplicated, ReplyDelayed
    <2>2. RemoveAt(toClient, i) \in Seq(GoodReplies)
          /\ InsertAt(toClient, i, toClient[i]) \in Seq(GoodReplies)
          /\ toClient[i] \in GoodReplies
      BY <1>1, PacketsKept
    <2>3. toClient' \in Seq(GoodReplies)
      BY <2>1, <2>2
    <2>4. QED BY <1>1, <1>11, <2>3, ChannelStep DEF ReplyLost, ReplyDuplicated, ReplyDelayed
  <1>12. CASE PrimaryLinkLost \/ PrimaryLinkFound
    <2>1. PICK link \in BOOLEAN : client' = [Quiet EXCEPT !.link = link]
      BY <1>12 DEF PrimaryLinkLost, PrimaryLinkFound
    <2>2. Good(client')
      BY <1>2, <2>1
    <2>3. client'.out = <<>>
      BY <1>1, <2>1 DEF IInv, Quiet, Good, Clients
    <2>4. UNCHANGED <<server, toServer, toClient>>
      BY <1>12 DEF PrimaryLinkLost, PrimaryLinkFound
    <2>5. QED BY <2>2, <2>3, <2>4 DEF IInv
  <1>13. CASE UNCHANGED vars
    BY <1>13 DEF vars, IInv, Good, Accounted, Apart, InHole
  <1>14. QED BY <1>4, <1>5, <1>6, <1>7, <1>8, <1>9, <1>10, <1>11, <1>12, <1>13 DEF Next

\* The invariant holds of every behaviour: of FTPManager with any replies that the server can
\* send, in any order, any number of times, and with time-outs at any moment.
THEOREM Invariance == Spec => []IInv
  <1>1. QED BY Initially, NextKeeps, PTL DEF Spec

\* The holes as a set of blocks.
LEMMA HolesAre ==
  ASSUME Good(client), NEW b
  PROVE  b \in Holes <=> b \in Int /\ InHole(client.missing, b)
  <1>1. client.missing \in Seq(Holed)
    BY ClientFields DEF Good
  <1>2. \A i \in DOMAIN client.missing : client.missing[i] \in Holed
    BY <1>1
  <1>3. ASSUME b \in Holes PROVE b \in Int /\ InHole(client.missing, b)
    <2>1. PICK i \in DOMAIN client.missing :
            \E n \in 0 .. client.missing[i].count - 1 : b = client.missing[i].offset + n
      BY <1>3 DEF Holes, Range
    <2>2. PICK n \in 0 .. client.missing[i].count - 1 : b = client.missing[i].offset + n
      BY <2>1
    <2>3. b \in Int /\ client.missing[i].offset <= b
          /\ b < client.missing[i].offset + client.missing[i].count
      BY <1>2, <2>2, HoledFields
    <2>4. QED BY <2>3 DEF InHole
  <1>4. ASSUME b \in Int, InHole(client.missing, b) PROVE b \in Holes
    <2>1. PICK i \in DOMAIN client.missing :
            client.missing[i].offset <= b
              /\ b < client.missing[i].offset + client.missing[i].count
      BY <1>4 DEF InHole
    <2> DEFINE h == client.missing[i]
               n == b - h.offset
    <2>2. h \in Range(client.missing)
      BY DEF Range
    <2>3. n \in 0 .. h.count - 1 /\ b = h.offset + n
      BY <1>2, <1>4, <2>1, HoledFields
    <2> HIDE DEF h, n
    <2>4. b \in {h.offset + k : k \in 0 .. h.count - 1}
      BY <2>3
    <2>5. QED BY <2>2, <2>4 DEF Holes
  <1>5. QED BY <1>3, <1>4

\* They are the blocks before the end that are not written.
LEMMA HolesOfAccount ==
  ASSUME Good(client), NEW end \in 0 .. FileSize, Accounted(client, end)
  PROVE  /\ Holes = (0 .. end - 1) \ client.written
         /\ client.written \subseteq 0 .. end - 1
         /\ client.bytesWritten = Cardinality(client.written)
  <1>1. client.missing \in Seq(Holed) /\ client.written \in SUBSET Blocks
    BY ClientFields DEF Good
  <1>2. ASSUME NEW b \in Int, InHole(client.missing, b) PROVE b \in Blocks /\ b < end
    <2>1. PICK i \in DOMAIN client.missing :
            client.missing[i].offset <= b
              /\ b < client.missing[i].offset + client.missing[i].count
      BY <1>2 DEF InHole
    <2>2. client.missing[i] \in Holed
          /\ client.missing[i].offset + client.missing[i].count <= end
      BY <1>1 DEF Accounted, Apart
    <2>3. QED BY <1>2, <2>1, <2>2, HoledFields, ConstantsAre DEF Blocks
  <1>3. \A b : b \in Holes <=> b \in Int /\ InHole(client.missing, b)
    BY HolesAre
  <1>4. \A b \in Blocks : b \in client.written <=> b < end /\ ~InHole(client.missing, b)
    BY DEF Accounted
  <1>5. client.written \subseteq 0 .. end - 1
    BY <1>1, <1>4 DEF Blocks
  <1>6. \A b : b \in 0 .. end - 1 <=> b \in Blocks /\ b < end
    BY ConstantsAre DEF Blocks
  <1>7. Holes = (0 .. end - 1) \ client.written
    <2>1. ASSUME NEW b \in Holes PROVE b \in (0 .. end - 1) \ client.written
      BY <1>2, <1>3, <1>4, <1>6, <2>1
    <2>2. ASSUME NEW b \in (0 .. end - 1) \ client.written PROVE b \in Holes
      <3>1. b \in Int
        OBVIOUS
      <3>2. QED BY <1>3, <1>4, <1>6, <2>2, <3>1
    <2>3. QED BY <2>1, <2>2
  <1>8. QED BY <1>5, <1>7 DEF Accounted

\* While data comes in, a block that has been passed over is a hole that will be asked for, no
\* block is counted twice, and a download that compares its size and is signalled as complete
\* (_fillMissingBlocksWorker) has the whole file, overlapping bursts or not.
THEOREM NothingIsForgottenHolds == Spec => []NothingIsForgotten
  <1>1. IInv => NothingIsForgotten
    <2> SUFFICES ASSUME IInv PROVE NothingIsForgotten
      OBVIOUS
    <2>1. client \in Clients /\ Good(client)
      BY DEF IInv, Good
    <2>2. TypeOK
      <3>1. /\ client.table \in {"empty", "download", "list", "terminate"}
            /\ client.stage \in {"none", "open", "burst", "fill", "reset", "terminate", "list"}
        BY <2>1 DEF Clients
      <3>2. client.missing \in Seq([offset : Blocks, count : 1 .. FileSize])
        BY <2>1, ClientFields DEF Holed
      <3>3. Range(toServer) \subseteq Requests
        BY DEF IInv, Range
      <3>4. Range(toClient) \subseteq Replies
        BY DEF IInv, Range, GoodReplies
      <3>5. QED BY <2>1, <3>1, <3>2, <3>3, <3>4, ClientFields DEF TypeOK, IInv
    <2>3. SizedIsWhole
      BY <2>1 DEF SizedIsWhole, Good
    <2>4. CASE client.stage = "burst"
      <3>1. Accounted(client, client.offset) /\ client.offset \in 0 .. FileSize
        BY <2>1, <2>4, ClientFields DEF Good
      <3>2. QED BY <2>1, <2>2, <2>3, <3>1, HolesOfAccount DEF NothingIsForgotten
    <2>5. CASE client.stage = "fill"
      <3>1. PICK end \in 0 .. FileSize : Accounted(client, end)
        BY <2>1, <2>5 DEF Good
      <3>2. client.stage # "burst"
        BY <2>5
      <3>3. QED BY <2>1, <2>2, <2>3, <3>1, <3>2, HolesOfAccount DEF NothingIsForgotten
    <2>6. CASE client.stage \notin {"burst", "fill"}
      BY <2>2, <2>3, <2>6 DEF NothingIsForgotten
    <2>7. QED BY <2>4, <2>5, <2>6
  <1>2. QED BY <1>1, Invariance, PTL

-----------------------------------------------------------------------------
(* Which packets can be on their way.                                      *)

\* The client's number is in the first half of the numbers and was never counted past 0.
FirstHalf(c) == ~c.wrapped /\ c.expected < (SeqModulus - 1) \div 2

\* No burst takes more than half of the numbers.
BurstFits == BurstMax <= SeqModulus \div 2

\* The packets on their way, with the reply the server would repeat, whether its file is open,
\* and whether no two bursts have overlapped.
Channels ==
  [requests : Seq(Requests), arriving : SUBSET GoodReplies, last : SUBSET GoodReplies,
   open : BOOLEAN, apart : BOOLEAN]

\* Those of the system.
Channel == [requests |-> toServer, arriving |-> Range(toClient),
            last |-> Range(server.lastReply), open |-> server.open,
            apart |-> ~overlapping]

\* The replies the client may yet receive.
Pending(k) == k.arriving \cup k.last

\* Requests have been counted, and no reply but those of a burst is ahead of the client.
Numbered(c, k) ==
  /\ \A i \in DOMAIN k.requests : k.requests[i].seq < c.expected
  /\ \A r \in Pending(k) :
       r.seq < c.expected + BurstMax /\ (r.op # "burst" => r.seq <= c.expected)

\* The entries of the directory up to one.
Entries(n) == [i \in 1 .. n |-> i - 1]

\* What can answer the last request of a listing has the entry it asked for.
Listing(c, k) ==
  /\ \A r \in Pending(k) : r.op = "list" =>
       /\ r.kind = "ack" => r.offset < DirectorySize
       /\ r.kind = "eof" => r.offset >= DirectorySize
  /\ c.stage = "list" =>
       /\ c.listed = Entries(c.listOffset) /\ c.listOffset <= DirectorySize
       /\ \A i \in DOMAIN k.requests :
            k.requests[i].op = "list" /\ k.requests[i].seq = c.expected - 1 =>
              k.requests[i].offset = c.listOffset
       /\ \A r \in Pending(k) :
            r.op = "list" /\ r.seq = c.expected => r.offset = c.listOffset
  /\ c.signal = "listed" => c.listed = Entries(DirectorySize)

\* When the file's opening is answered, the server has nothing else to do and has it open.
Opening(c, k) ==
  c.stage = "open" =>
    /\ \A i \in DOMAIN k.requests :
         k.requests[i].seq = c.expected - 1 => i = Len(k.requests)
    /\ \A r \in Pending(k) : r.op = "open" /\ r.seq = c.expected =>
         k.requests = <<>> /\ k.last = {r} /\ (r.kind = "ack" => k.open)

\* One burst is on its way, or its request; the numbers of its packets are as far apart from
\* their offsets as the client's, and only the end of the file can follow its last one.
Bursting(c, k) ==
  c.stage = "burst" =>
    /\ k.open /\ Len(k.requests) <= 1
    /\ \A i \in DOMAIN k.requests :
         k.requests[i] = [op |-> "burst", seq |-> c.expected - 1, offset |-> c.offset]
    /\ k.requests # <<>> => \A r \in k.arriving : r.op = "burst" => r.seq < c.expected
    /\ \A r \in Pending(k) : r.op = "burst" /\ r.seq >= c.expected =>
         /\ r.seq - r.offset = c.expected - c.offset
         /\ r.kind = "eof" => r.offset = FileSize
    /\ \A r \in k.arriving, l \in k.last :
         /\ r.op = "burst" /\ l.op = "burst" /\ r.seq >= c.expected
         /\ r.last \/ r.kind = "eof"
         => l.seq <= r.seq + 1

\* Holes are filled once the end of the file has come, and reading does not find it again.
Filling(c, k) ==
  c.stage = "fill" =>
    /\ k.open
    /\ \A b \in Blocks : b \in c.written <=> ~InHole(c.missing, b)
    /\ \A i \in DOMAIN k.requests :
         k.requests[i].op = "read" /\ k.requests[i].offset < FileSize
    /\ \A r \in Pending(k) : r.op = "read" /\ r.seq = c.expected => r.kind # "eof"

\* A download resets the session and is complete when it has every block.
Done(c) == c.stage = "reset" \/ c.signal = "complete" => c.written = Blocks

\* The server repeats one reply.
OneReply(k) == \A r, s \in k.last : r = s

\* The client and the packets agree.
Sound(c, k) ==
  /\ OneReply(k)
  /\ Numbered(c, k) /\ Listing(c, k) /\ Opening(c, k)
  /\ k.apart => Bursting(c, k) /\ Filling(c, k) /\ Done(c)

\* The client has become d: k has become l, from which packets may have been taken.
Follows(k, d, l) ==
  /\ l.requests = k.requests \o d.out
  /\ l.arriving \subseteq k.arriving /\ l.last = k.last /\ l.open = k.open
  /\ l.apart => /\ k.apart
                /\ (\E q \in Range(d.out) : q.op = "burst") =>
                     /\ \A i \in DOMAIN k.requests : k.requests[i].op # "burst"
                     /\ \A r \in k.arriving : r.op = "burst" => Old(d, r)

-----------------------------------------------------------------------------
(* Numbers that do not wrap.                                               *)

\* What is in range stays the same.
LEMMA InRange ==
  ASSUME NEW m \in Int, 0 < m, NEW n \in Int, 0 <= n, n < m
  PROVE  n % m = n
  OBVIOUS

\* What is below it is counted back from the top.
LEMMA BelowRange ==
  ASSUME NEW m \in Int, 0 < m, NEW n \in Int, -m <= n, n < 0
  PROVE  n % m = n + m
  OBVIOUS

\* The two halves.
LEMMA Halves ==
  /\ SeqModulus \in Int /\ 0 < SeqModulus
  /\ (SeqModulus - 1) \div 2 \in Nat /\ SeqModulus \div 2 \in Nat
  /\ (SeqModulus - 1) \div 2 + SeqModulus \div 2 <= SeqModulus - 1
  /\ (SeqModulus - 1) \div 2 <= SeqModulus \div 2
  /\ BurstMax \in Int
  <1>1. ASSUME NEW m \in Int, 1 < m
        PROVE  /\ (m - 1) \div 2 \in Nat /\ m \div 2 \in Nat
               /\ (m - 1) \div 2 + m \div 2 <= m - 1
               /\ (m - 1) \div 2 <= m \div 2
    <2>1. ASSUME NEW n \in Int PROVE n \div 2 \in Int
      OBVIOUS
    <2>2. 0 <= (m - 1) \div 2 /\ 0 <= m \div 2
      BY <1>1
    <2>3. (m - 1) \div 2 + m \div 2 <= m - 1
      BY <1>1
    <2>4. (m - 1) \div 2 <= m \div 2
      BY <1>1
    <2>5. m - 1 \in Int
      OBVIOUS
    <2>6. QED BY <2>1, <2>2, <2>3, <2>4, <2>5
  <1>2. SeqModulus \in Int /\ 1 < SeqModulus /\ 0 < SeqModulus /\ BurstMax \in Int
    <2>1. SeqModulus \in Nat /\ SeqModulus # 0 /\ SeqModulus # 1
      OBVIOUS
    <2>2. BurstMax \in Int
      OBVIOUS
    <2>3. QED BY <2>1, <2>2
  <1>3. QED BY <1>1, <1>2

\* The packets the client takes for old are those behind it.
LEMMA OldIsBehind ==
  ASSUME BurstFits, NEW c, c.expected \in Nat, c.expected < (SeqModulus - 1) \div 2,
         NEW r, r.seq \in 0 .. SeqModulus - 1, r.seq < c.expected + BurstMax
  PROVE  Old(c, r) <=> r.seq < c.expected
  <1> DEFINE n == c.expected - 1 - r.seq
             half == (SeqModulus - 1) \div 2
             other == SeqModulus \div 2
             m == SeqModulus
  <1>1. /\ half \in Nat /\ other \in Nat /\ half + other <= m - 1 /\ half <= other
        /\ m \in Int /\ 0 < m /\ BurstMax \in Int /\ BurstMax <= other
    BY Halves DEF BurstFits
  <1>2. Old(c, r) <=> n % m < half
    BY DEF Old
  <1>3. c.expected \in Int /\ r.seq \in Int /\ 0 <= r.seq /\ r.seq <= m - 1
        /\ 0 <= c.expected /\ c.expected < half
    OBVIOUS
  <1> HIDE DEF half, other, m
  <1>4. CASE r.seq < c.expected
    <2>1. n \in Int /\ 0 <= n /\ n < half /\ n < m
      BY <1>1, <1>3, <1>4
    <2> HIDE DEF n
    <2>2. n % m = n
      BY <1>1, <2>1, InRange
    <2>3. QED BY <1>2, <1>4, <2>1, <2>2
  <1>5. CASE ~(r.seq < c.expected)
    <2>1. n \in Int /\ -BurstMax <= n /\ n < 0 /\ -m <= n
      BY <1>1, <1>3, <1>5
    <2> HIDE DEF n
    <2>2. n % m = n + m
      BY <1>1, <2>1, BelowRange
    <2>3. ~(n + m < half)
      BY <1>1, <2>1
    <2>4. QED BY <1>2, <1>5, <2>2, <2>3
  <1>6. QED BY <1>4, <1>5

\* But for the number, the offset, the timer, the retries and the packet, d is c.
SameData(c, d) ==
  /\ d.stage = c.stage /\ d.missing = c.missing
  /\ d.written = c.written /\ d.checksize = c.checksize
  /\ d.listOffset = c.listOffset /\ d.listed = c.listed /\ d.signal = c.signal

\* A request has been sent.
Asks(c, d, op, offset) ==
  /\ ~c.unsent /\ ~c.wrapped
  /\ d.out = <<[op |-> op, seq |-> d.expected - 1, offset |-> offset]>>

\* Counting on to a number that is in range.
LEMMA CountedOn ==
  ASSUME NEW c \in Clients, NEW n \in Int, ~Counted(c, n).wrapped
  PROVE  /\ Counted(c, n).expected = c.expected + n /\ ~c.wrapped
         /\ Counted(c, n).unsent = c.unsent /\ Counted(c, n).out = c.out
  <1> DEFINE e == (c.expected + n) % SeqModulus
             w == c.wrapped \/ c.expected + n \notin 0 .. SeqModulus - 1
  <1>1. Counted(c, n) = [c EXCEPT !.expected = e, !.wrapped = w]
    BY DEF Counted, Clients
  <1> HIDE DEF e, w
  <1>2. /\ Counted(c, n).expected = e /\ Counted(c, n).wrapped = w
        /\ Counted(c, n).unsent = c.unsent /\ Counted(c, n).out = c.out
    BY <1>1 DEF Clients
  <1>3. ~w
    BY <1>2
  <1>4. c.expected + n \in 0 .. SeqModulus - 1 /\ ~c.wrapped
    BY <1>3 DEF w
  <1>5. c.expected + n \in Int /\ 0 <= c.expected + n /\ c.expected + n < SeqModulus
    BY <1>4, Halves
  <1>6. e = c.expected + n
    BY <1>5, InRange, Halves DEF e
  <1>7. QED BY <1>2, <1>4, <1>6

\* A request that is sent has the number before the one that is then expected.
LEMMA RequestIsSent ==
  ASSUME NEW c \in Clients, NEW op \in Opcodes, NEW offset \in Nat,
         ~_sendRequestExpectAck(c, op, offset).unsent,
         ~_sendRequestExpectAck(c, op, offset).wrapped
  PROVE  LET d == _sendRequestExpectAck(c, op, offset)
         IN  /\ d \in Clients /\ SameData(c, d) /\ Asks(c, d, op, offset)
             /\ d.expected = c.expected + 2 /\ d.offset = c.offset
  <1> DEFINE request == [op |-> op, seq |-> (c.expected + 1) % SeqModulus, offset |-> offset]
             n == Counted(c, 2)
             d == [n EXCEPT !.timer = TRUE, !.out = <<request>>]
  <1>1. c.link
    <2>1. [c EXCEPT !.timer = TRUE, !.unsent = TRUE].unsent = TRUE
      BY DEF Clients
    <2>2. ~c.link => _sendRequestExpectAck(c, op, offset)
                       = [c EXCEPT !.timer = TRUE, !.unsent = TRUE]
      BY DEF _sendRequestExpectAck
    <2>3. QED BY <2>1, <2>2
  <1>2. _sendRequestExpectAck(c, op, offset) = d
    BY <1>1 DEF _sendRequestExpectAck
  <1>3. n \in Clients
    BY CountedIs
  <1> HIDE DEF n, request
  <1>4. n.wrapped = d.wrapped /\ n.unsent = d.unsent /\ n.expected = d.expected
        /\ d.out = <<request>>
    BY <1>3 DEF Clients
  <1> HIDE DEF d
  <1>5. d \in Clients /\ SameData(c, d) /\ d.offset = c.offset
    BY <1>2, SendIs DEF SameOperation, SameData
  <1>6. n.expected = c.expected + 2 /\ ~c.wrapped /\ n.unsent = c.unsent
    BY <1>2, <1>4, CountedOn DEF n
  <1>7. request.seq = d.expected - 1
    <2>1. c.expected + 2 \in 0 .. SeqModulus - 1 /\ c.expected \in 0 .. SeqModulus - 1
      BY <1>3, <1>6, ClientFields
    <2>2. c.expected + 1 \in Int /\ 0 <= c.expected + 1 /\ c.expected + 1 < SeqModulus
      BY <2>1, Halves
    <2>3. (c.expected + 1) % SeqModulus = c.expected + 1
      BY <2>2, InRange, Halves
    <2>4. request.seq = (c.expected + 1) % SeqModulus
      BY DEF request
    <2>5. QED BY <1>4, <1>6, <2>1, <2>3, <2>4
  <1>8. d.out = <<[op |-> op, seq |-> d.expected - 1, offset |-> offset]>>
    BY <1>4, <1>7 DEF request
  <1>9. QED BY <1>2, <1>4, <1>5, <1>6, <1>8 DEF Asks

\* Counting back for a retry.
LEMMA CountedBack ==
  ASSUME NEW c \in Clients, ~SameSequence(c).wrapped
  PROVE  SameSequence(c).expected = c.expected - 2 /\ ~c.wrapped
  <1>1. -2 \in Int
    OBVIOUS
  <1>2. SameSequence(c).expected = c.expected + (-2) /\ ~c.wrapped
    BY <1>1, CountedOn DEF SameSequence
  <1>3. c.expected + (-2) = c.expected - 2
    BY ClientFields
  <1>4. QED BY <1>2, <1>3

\* What a retry leaves alone.
LEMMA RetryIs ==
  ASSUME NEW c \in Clients
  PROVE  /\ SameSequence(c) \in Clients /\ SameData(c, SameSequence(c))
         /\ SameSequence(c).offset = c.offset /\ SameSequence(c).unsent = c.unsent
         /\ SameSequence(c).out = c.out
  <1>1. -2 \in Int
    OBVIOUS
  <1>2. SameSequence(c) \in Clients /\ SameOperation(c, SameSequence(c))
    BY <1>1, CountedIs DEF SameSequence
  <1> DEFINE e == (c.expected + -2) % SeqModulus
             w == c.wrapped \/ c.expected + -2 \notin 0 .. SeqModulus - 1
  <1>3. SameSequence(c) = [c EXCEPT !.expected = e, !.wrapped = w]
    BY DEF Counted, Clients, SameSequence
  <1> HIDE DEF e, w
  <1>4. SameSequence(c).unsent = c.unsent /\ SameSequence(c).out = c.out
    BY <1>3 DEF Clients
  <1>5. QED BY <1>2, <1>4 DEF SameData, SameOperation

\* A first request, or a retry of the last one, whose number it then has.
LEMMA RequestOrRetry ==
  ASSUME NEW c \in Clients, NEW first \in BOOLEAN, NEW op \in Opcodes, NEW offset \in Nat,
         NEW n, n = IF first THEN c ELSE SameSequence(c),
         NEW m \in Clients, SameData(c, m), m.expected = n.expected, m.unsent = n.unsent,
         m.wrapped = n.wrapped,
         ~_sendRequestExpectAck(m, op, offset).unsent,
         ~_sendRequestExpectAck(m, op, offset).wrapped
  PROVE  LET d == _sendRequestExpectAck(m, op, offset)
         IN  /\ d \in Clients /\ SameData(c, d) /\ d.offset = m.offset
             /\ Asks(c, d, op, offset)
             /\ d.expected = c.expected + (IF first THEN 2 ELSE 0)
  <1> DEFINE d == _sendRequestExpectAck(m, op, offset)
  <1>1. /\ d \in Clients /\ SameData(m, d) /\ Asks(m, d, op, offset)
        /\ d.expected = m.expected + 2 /\ d.offset = m.offset
    BY RequestIsSent
  <1> HIDE DEF d
  <1>2. SameData(c, d)
    BY <1>1 DEF SameData
  <1>3. ~m.unsent /\ ~m.wrapped
        /\ d.out = <<[op |-> op, seq |-> d.expected - 1, offset |-> offset]>>
    BY <1>1 DEF Asks
  <1>4. CASE first
    <2>1. n = c
      BY <1>4
    <2>2. QED BY <1>1, <1>2, <1>3, <1>4, <2>1 DEF Asks, d
  <1>5. CASE ~first
    <2>1. n = SameSequence(c)
      BY <1>5
    <2>2. ~c.unsent /\ ~c.wrapped /\ m.expected = c.expected - 2
      BY <1>3, <2>1, CountedBack, RetryIs
    <2>3. c.expected - 2 + 2 = c.expected + 0
      BY ClientFields
    <2>4. d.expected = c.expected + (IF first THEN 2 ELSE 0)
      BY <1>1, <1>5, <2>2, <2>3
    <2>5. QED BY <1>1, <1>2, <1>3, <2>2, <2>4 DEF Asks, d
  <1>6. QED BY <1>4, <1>5

\* The requests for a burst and for a listing.
LEMMA BurstIsAsked ==
  ASSUME NEW c \in Clients, NEW first \in BOOLEAN, NEW d, d = _burstReadFileWorker(c, first),
         ~d.unsent, ~d.wrapped
  PROVE  /\ d \in Clients /\ SameData(c, d) /\ d.offset = c.offset
         /\ Asks(c, d, "burst", c.offset)
         /\ d.expected = c.expected + (IF first THEN 2 ELSE 0)
  <1> DEFINE m == IF first THEN [c EXCEPT !.retryCount = 0] ELSE SameSequence(c)
             n == IF first THEN c ELSE SameSequence(c)
  <1>1. d = _sendRequestExpectAck(m, "burst", c.offset)
    BY DEF _burstReadFileWorker
  <1>2. /\ m \in Clients /\ SameData(c, m) /\ m.expected = n.expected /\ m.unsent = n.unsent
        /\ m.wrapped = n.wrapped /\ m.offset = c.offset
    <2>1. CASE first
      <3> DEFINE f == [c EXCEPT !.retryCount = 0]
      <3>1. f \in Clients
        BY RetriesReset
      <3>2. m = f /\ n = c
        BY <2>1
      <3>3. /\ SameData(c, f) /\ f.expected = c.expected /\ f.unsent = c.unsent
            /\ f.wrapped = c.wrapped /\ f.offset = c.offset
        BY DEF Clients, SameData
      <3> HIDE DEF f, m, n
      <3>4. QED BY <3>1, <3>2, <3>3
    <2>2. CASE ~first
      <3>1. m = SameSequence(c) /\ n = SameSequence(c)
        BY <2>2
      <3> HIDE DEF m, n
      <3>2. QED BY <3>1, RetryIs
    <2>3. QED BY <2>1, <2>2
  <1>3. n = IF first THEN c ELSE SameSequence(c)
    OBVIOUS
  <1>4. c.offset \in Nat
    BY ClientFields
  <1> HIDE DEF m, n
  <1>5. QED BY <1>1, <1>2, <1>3, <1>4, RequestOrRetry, OpcodesAre

\* A listing's next entry is asked for.
LEMMA ListIsAsked ==
  ASSUME NEW c \in Clients, NEW first \in BOOLEAN, NEW d, d = _listDirectoryWorker(c, first),
         ~d.unsent, ~d.wrapped
  PROVE  /\ d \in Clients /\ SameData(c, d)
         /\ Asks(c, d, "list", c.listOffset)
         /\ d.expected = c.expected + (IF first THEN 2 ELSE 0)
  <1> DEFINE m == IF first THEN [c EXCEPT !.listRetries = 0] ELSE SameSequence(c)
             n == IF first THEN c ELSE SameSequence(c)
  <1>1. d = _sendRequestExpectAck(m, "list", c.listOffset)
    BY DEF _listDirectoryWorker
  <1>2. /\ m \in Clients /\ SameData(c, m) /\ m.expected = n.expected /\ m.unsent = n.unsent
        /\ m.wrapped = n.wrapped
    <2>1. CASE first
      <3> DEFINE zero == 0
                 f == [c EXCEPT !.listRetries = zero]
      <3>1. zero \in 0 .. MaxRetry + 1
        BY ConstantsAre
      <3>2. m = f /\ n = c
        BY <2>1
      <3> HIDE DEF zero
      <3>3. /\ f \in Clients /\ SameData(c, f) /\ f.expected = c.expected
            /\ f.unsent = c.unsent /\ f.wrapped = c.wrapped
        BY <3>1 DEF Clients, SameData
      <3> HIDE DEF f, m, n
      <3>4. QED BY <3>2, <3>3
    <2>2. CASE ~first
      <3>1. m = SameSequence(c) /\ n = SameSequence(c)
        BY <2>2
      <3> HIDE DEF m, n
      <3>2. QED BY <3>1, RetryIs
    <2>3. QED BY <2>1, <2>2
  <1>3. n = IF first THEN c ELSE SameSequence(c)
    OBVIOUS
  <1>4. c.listOffset \in Nat
    BY ClientFields
  <1> HIDE DEF m, n
  <1>5. QED BY <1>1, <1>2, <1>3, <1>4, RequestOrRetry, OpcodesAre

\* The request for a hole's first block; without holes the end of the download.
LEMMA FillIsAsked ==
  ASSUME NEW c \in Clients, NEW first \in BOOLEAN, c.missing # <<>>,
         NEW d, d = _fillMissingBlocksWorker(c, first),
         ~d.unsent, ~d.wrapped
  PROVE  /\ d \in Clients /\ SameData(c, d) /\ d.offset = c.missing[1].offset
         /\ Asks(c, d, "read", d.offset) /\ d.offset \in Blocks
         /\ d.expected = c.expected + (IF first THEN 2 ELSE 0)
  <1> DEFINE at == c.missing[1].offset
             f == [c EXCEPT !.retryCount = 0]
             g == IF first THEN f ELSE SameSequence(c)
             m == [g EXCEPT !.offset = at]
             n == IF first THEN c ELSE SameSequence(c)
  <1>1. d = _sendRequestExpectAck(m, "read", at)
    BY DEF _fillMissingBlocksWorker
  <1>2. at \in 0 .. FileSize /\ at \in Blocks
    <2>1. c.missing \in Seq(Holed) /\ c.missing[1] \in Holed
      BY ClientFields
    <2>2. at \in Int /\ 0 <= at /\ at < FileSize
      BY <2>1, HoledFields
    <2>3. QED BY <2>2, ConstantsAre DEF Blocks
  <1>3. /\ g \in Clients /\ SameData(c, g) /\ g.expected = n.expected /\ g.unsent = n.unsent
        /\ g.wrapped = n.wrapped
    <2>1. CASE first
      <3>1. f \in Clients
        BY RetriesReset
      <3>2. g = f /\ n = c
        BY <2>1
      <3>3. /\ SameData(c, f) /\ f.expected = c.expected /\ f.unsent = c.unsent
            /\ f.wrapped = c.wrapped
        BY DEF Clients, SameData
      <3> HIDE DEF f, g, n
      <3>4. QED BY <3>1, <3>2, <3>3
    <2>2. CASE ~first
      <3>1. g = SameSequence(c) /\ n = SameSequence(c)
        BY <2>2
      <3> HIDE DEF g, n
      <3>2. QED BY <3>1, RetryIs
    <2>3. QED BY <2>1, <2>2
  <1>4. n = IF first THEN c ELSE SameSequence(c)
    OBVIOUS
  <1> HIDE DEF f, g, n, at
  <1>5. /\ m \in Clients /\ SameData(c, m) /\ m.expected = n.expected /\ m.unsent = n.unsent
        /\ m.wrapped = n.wrapped /\ m.offset = at
    <2>1. m \in Clients /\ m.offset = at /\ m.expected = g.expected /\ m.unsent = g.unsent
          /\ m.wrapped = g.wrapped /\ SameData(g, m)
      BY <1>2, <1>3 DEF Clients, SameData
    <2>2. QED BY <1>3, <2>1 DEF SameData
  <1>6. at \in Nat
    BY <1>2
  <1> HIDE DEF m
  <1>7. d \in Clients /\ SameData(c, d) /\ d.offset = m.offset
        /\ Asks(c, d, "read", at) /\ d.expected = c.expected + (IF first THEN 2 ELSE 0)
    BY <1>1, <1>4, <1>5, <1>6, RequestOrRetry, OpcodesAre
  <1>8. QED BY <1>2, <1>5, <1>7 DEF at

\* Resetting or terminating the sessions, and opening a file.
LEMMA ResetIsAsked ==
  ASSUME NEW c \in Clients, NEW stage \in {"open", "reset", "terminate"},
         NEW op \in Opcodes,
         NEW d, d = _sendRequestExpectAck([c EXCEPT !.stage = stage], op, 0),
         ~d.unsent, ~d.wrapped
  PROVE  /\ d \in Clients /\ d.stage = stage /\ Asks(c, d, op, 0)
         /\ d.written = c.written /\ d.signal = c.signal
         /\ d.expected = c.expected + 2
  <1> DEFINE m == [c EXCEPT !.stage = stage]
  <1>1. /\ m \in Clients /\ m.stage = stage /\ m.written = c.written
        /\ m.signal = c.signal /\ m.expected = c.expected /\ m.unsent = c.unsent
        /\ m.wrapped = c.wrapped
    BY DEF Clients
  <1>2. 0 \in Nat
    OBVIOUS
  <1>3. d = _sendRequestExpectAck(m, op, 0)
    OBVIOUS
  <1> HIDE DEF m
  <1>4. /\ d \in Clients /\ SameData(m, d) /\ Asks(m, d, op, 0) /\ d.expected = m.expected + 2
    BY <1>1, <1>2, <1>3, RequestIsSent
  <1>5. QED BY <1>1, <1>4 DEF SameData, Asks

-----------------------------------------------------------------------------
(* The client's steps, by what it then is.                                 *)

\* The packets' fields.
LEMMA PacketsAre ==
  ASSUME NEW k \in Channels
  PROVE  /\ k.requests \in Seq(Requests)
         /\ \A i \in DOMAIN k.requests :
              /\ k.requests[i] \in Requests /\ k.requests[i].seq \in Int
              /\ k.requests[i].offset \in Nat
         /\ \A r \in Pending(k) :
              /\ r \in GoodReplies /\ r.seq \in 0 .. SeqModulus - 1 /\ r.seq \in Int
              /\ r.offset \in Nat
         /\ k.arriving \subseteq Pending(k) /\ k.last \subseteq Pending(k)
  <1>1. /\ k.requests \in Seq(Requests)
        /\ k.arriving \subseteq GoodReplies /\ k.last \subseteq GoodReplies
    BY DEF Channels
  <1>2. \A q \in Requests : q.seq \in Int /\ q.offset \in Nat
    BY DEF Requests
  <1>3. \A r \in GoodReplies : r.seq \in 0 .. SeqModulus - 1 /\ r.seq \in Int /\ r.offset \in Nat
    BY DEF GoodReplies, Replies
  <1>4. \A i \in DOMAIN k.requests : k.requests[i] \in Requests
    BY <1>1
  <1>5. QED BY <1>1, <1>2, <1>3, <1>4 DEF Pending

\* The client has sent nothing.
LEMMA NothingSent ==
  ASSUME NEW k \in Channels, NEW d, d.out = <<>>, NEW l, Follows(k, d, l)
  PROVE  l.requests = k.requests /\ Pending(l) \subseteq Pending(k)
  BY PacketsAre DEF Follows, Pending

\* It has sent one request.
LEMMA OneSent ==
  ASSUME NEW k \in Channels, NEW c \in Clients, NEW op \in Opcodes, NEW offset \in Nat,
         NEW d \in Clients, Asks(c, d, op, offset), NEW l, Follows(k, d, l)
  PROVE  LET q == [op |-> op, seq |-> d.expected - 1, offset |-> offset]
         IN  /\ l.requests = Append(k.requests, q) /\ Range(d.out) = {q}
             /\ Len(l.requests) = Len(k.requests) + 1
             /\ \A i \in DOMAIN l.requests :
                  \/ i \in DOMAIN k.requests /\ l.requests[i] = k.requests[i]
                  \/ i = Len(l.requests) /\ l.requests[i] = q
             /\ Pending(l) \subseteq Pending(k)
  <1> DEFINE q == [op |-> op, seq |-> d.expected - 1, offset |-> offset]
  <1>1. d.out = <<q>> /\ d.out \in Seq(Requests)
    BY ClientFields DEF Asks
  <1>2. q \in Requests
    BY <1>1
  <1> HIDE DEF q
  <1>3. l.requests = k.requests \o <<q>> /\ k.requests \in Seq(Requests)
    BY <1>1, PacketsAre DEF Follows
  <1>4. k.requests \o <<q>> = Append(k.requests, q)
    BY <1>2, <1>3
  <1>5. Range(<<q>>) = {q}
    BY DEF Range
  <1>6. Pending(l) \subseteq Pending(k)
    BY DEF Follows, Pending
  <1>7. /\ Len(l.requests) = Len(k.requests) + 1
        /\ \A i \in DOMAIN l.requests :
             \/ i \in DOMAIN k.requests /\ l.requests[i] = k.requests[i]
             \/ i = Len(l.requests) /\ l.requests[i] = q
    BY <1>2, <1>3, <1>4
  <1>8. QED BY <1>1, <1>3, <1>4, <1>5, <1>6, <1>7 DEF q

\* What holds of the numbers, the replies to listings and the server in any step of the client.
LEMMA NumbersKept ==
  ASSUME NEW k \in Channels, NEW c \in Clients, Sound(c, k), NEW d \in Clients, NEW l,
         Follows(k, d, l), c.expected <= d.expected,
         d.out = <<>> \/ \E op \in Opcodes, offset \in Nat : Asks(c, d, op, offset)
  PROVE  /\ OneReply(l) /\ Numbered(d, l)
         /\ \A r \in Pending(l) : r.op = "list" =>
              /\ r.kind = "ack" => r.offset < DirectorySize
              /\ r.kind = "eof" => r.offset >= DirectorySize
  <1>1. Pending(l) \subseteq Pending(k) /\ l.last = k.last
    BY NothingSent, OneSent DEF Follows
  <1>2. c.expected \in Int /\ d.expected \in Int
    BY ClientFields
  <1>3. \A i \in DOMAIN l.requests : l.requests[i].seq < d.expected
    <2>1. CASE d.out = <<>>
      BY <1>2, <2>1, NothingSent, PacketsAre DEF Sound, Numbered
    <2>2. CASE \E op \in Opcodes, offset \in Nat : Asks(c, d, op, offset)
      <3>1. PICK op \in Opcodes, offset \in Nat : Asks(c, d, op, offset)
        BY <2>2
      <3> DEFINE q == [op |-> op, seq |-> d.expected - 1, offset |-> offset]
      <3>2. q.seq < d.expected
        BY <1>2
      <3>3. \A i \in DOMAIN l.requests :
              \/ i \in DOMAIN k.requests /\ l.requests[i] = k.requests[i]
              \/ l.requests[i] = q
        BY <3>1, OneSent
      <3>4. \A i \in DOMAIN k.requests : k.requests[i].seq < d.expected
        BY <1>2, PacketsAre DEF Sound, Numbered
      <3> HIDE DEF q
      <3>5. QED BY <3>2, <3>3, <3>4
    <2>3. QED BY <2>1, <2>2
  <1>4. \A r \in Pending(l) :
          r.seq < d.expected + BurstMax /\ (r.op # "burst" => r.seq <= d.expected)
    <2>1. BurstMax \in Int
      BY Halves
    <2>2. QED BY <1>1, <1>2, <2>1, PacketsAre DEF Sound, Numbered
  <1>5. QED BY <1>1, <1>3, <1>4 DEF Sound, Numbered, Listing, OneReply

\* The client waits for nothing, or has become one that resets or terminates.
LEMMA NothingAwaited ==
  ASSUME NEW k \in Channels, NEW c \in Clients, Sound(c, k), NEW d \in Clients, NEW l,
         Follows(k, d, l), c.expected <= d.expected,
         d.out = <<>> \/ \E op \in Opcodes, offset \in Nat : Asks(c, d, op, offset),
         d.stage \in {"none", "reset", "terminate"},
         d.signal = "listed" => d.listed = Entries(DirectorySize),
         l.apart => Done(d)
  PROVE  Sound(d, l)
  BY NumbersKept DEF Sound, Listing, Opening, Bursting, Filling

\* It waits for what it has been waiting for.
LEMMA SameAwaited ==
  ASSUME NEW k \in Channels, NEW c \in Clients, Sound(c, k), NEW d \in Clients, NEW l,
         Follows(k, d, l), SameData(c, d), d.expected = c.expected, d.offset = c.offset,
         d.out = <<>>
  PROVE  Sound(d, l)
  <1>1. l.requests = k.requests /\ Pending(l) \subseteq Pending(k) /\ l.last = k.last
        /\ l.open = k.open /\ l.arriving \subseteq k.arriving /\ (l.apart => k.apart)
    BY NothingSent DEF Follows
  <1>2. c.expected <= d.expected
    BY ClientFields
  <1>3. OneReply(l) /\ Numbered(d, l) /\ Listing(d, l)
    BY <1>1, <1>2, NumbersKept DEF Sound, Listing, SameData
  <1>4. Opening(d, l)
    BY <1>1 DEF Sound, Opening, SameData
  <1>5. k.apart => Bursting(d, l)
    BY <1>1 DEF Sound, Bursting, SameData
  <1>6. k.apart => Filling(d, l) /\ Done(d)
    BY <1>1 DEF Sound, Filling, Done, SameData
  <1>7. QED BY <1>1, <1>3, <1>4, <1>5, <1>6 DEF Sound

\* The client, c, becomes d, and the packets, k, become l; nothing is left unsent.
Stepping(c, k, d, l) ==
  /\ Good(c) /\ c.signal = "none" /\ c.out = <<>> /\ FirstHalf(c)
  /\ k \in Channels /\ (~c.unsent => Sound(c, k))
  /\ d \in Clients /\ FirstHalf(d) /\ ~d.unsent /\ Follows(k, d, l)

\* The reply is one the client heeds: none but a burst's is ahead of it.
LEMMA Heeded ==
  ASSUME BurstFits, NEW k \in Channels, NEW c \in Clients, FirstHalf(c), Sound(c, k),
         NEW r \in k.arriving, ~Old(c, r)
  PROVE  /\ r \in Pending(k) /\ r \in GoodReplies /\ r.seq \in Int /\ r.offset \in Nat
         /\ c.expected \in Int /\ c.expected <= r.seq
         /\ r.op # "burst" => r.seq = c.expected
         /\ r.seq + 1 < SeqModulus /\ (r.seq + 1) % SeqModulus = r.seq + 1
  <1>1. /\ r \in Pending(k) /\ r \in GoodReplies /\ r.seq \in Int /\ r.offset \in Nat
        /\ r.seq \in 0 .. SeqModulus - 1 /\ 0 <= r.seq
    BY PacketsAre
  <1>2. r.seq < c.expected + BurstMax /\ (r.op # "burst" => r.seq <= c.expected)
    BY <1>1 DEF Sound, Numbered
  <1>3. /\ c.expected \in Nat /\ c.expected < (SeqModulus - 1) \div 2
        /\ BurstMax \in Int
    BY ClientFields, Halves DEF FirstHalf
  <1>4. ~(r.seq < c.expected)
    BY <1>1, <1>2, <1>3, OldIsBehind
  <1> DEFINE half == (SeqModulus - 1) \div 2
             other == SeqModulus \div 2
             m == SeqModulus
  <1>5. half \in Nat /\ other \in Nat /\ half + other <= m - 1 /\ m \in Int /\ 0 < m
        /\ BurstMax <= other /\ c.expected < half
    BY <1>3, Halves DEF BurstFits
  <1> HIDE DEF half, other, m
  <1>6. r.seq + 1 < m /\ 0 <= r.seq + 1 /\ r.seq + 1 \in Int
    BY <1>1, <1>2, <1>3, <1>5
  <1>7. (r.seq + 1) % m = r.seq + 1
    BY <1>5, <1>6, InRange
  <1>8. QED BY <1>1, <1>2, <1>3, <1>4, <1>6, <1>7 DEF m

\* An operation that is over.
LEMMA EndingIs ==
  ASSUME NEW c \in Clients, NEW signal, NEW d, d = Ended(c, signal)
  PROVE  /\ d.stage = "none" /\ d.expected = c.expected /\ d.unsent = c.unsent /\ d.out = c.out
         /\ d.signal = signal /\ d.written = c.written /\ d.listed = c.listed
  BY DEF Ended, Clients

\* A download that is over.
LEMMA DownloadOver ==
  ASSUME NEW c \in Clients, NEW signal, NEW d, d = _downloadComplete(c, signal)
  PROVE  /\ d.stage = "none" /\ d.expected = c.expected /\ d.unsent = c.unsent /\ d.out = c.out
         /\ d.signal = signal /\ (signal = "complete" => d.written = c.written)
  <1>1. CASE signal = "complete"
    BY <1>1, EndingIs DEF _downloadComplete
  <1>2. CASE signal # "complete"
    <2> DEFINE none == {}
               e == [c EXCEPT !.written = none]
    <2>1. d = Ended(e, signal)
      BY <1>2 DEF _downloadComplete
    <2>2. none \in SUBSET Blocks
      OBVIOUS
    <2> HIDE DEF none
    <2>3. e \in Clients /\ e.expected = c.expected /\ e.unsent = c.unsent /\ e.out = c.out
      BY <2>2 DEF Clients
    <2> HIDE DEF e
    <2>4. QED BY <1>2, <2>1, <2>3, EndingIs
  <1>3. QED BY <1>1, <1>2

\* A download that fails or is aborted, and one whose sessions have been reset.
LEMMA OverIsSound ==
  ASSUME NEW c, NEW k, NEW d, NEW l, Stepping(c, k, d, l),
         NEW signal \in {"failed", "aborted", "complete"},
         NEW e \in Clients, e.expected = c.expected, e.unsent = c.unsent, e.out = c.out,
         d = _downloadComplete(e, signal),
         signal = "complete" => c.stage = "reset" /\ e.written = c.written
  PROVE  Sound(d, l)
  <1>1. /\ d.stage = "none" /\ d.expected = c.expected /\ d.unsent = c.unsent /\ d.out = <<>>
        /\ d.signal = signal /\ (signal = "complete" => d.written = e.written)
    BY DownloadOver DEF Stepping
  <1>2. c \in Clients /\ k \in Channels /\ Sound(c, k) /\ Follows(k, d, l) /\ d \in Clients
    BY <1>1 DEF Stepping, Good
  <1>3. c.expected <= d.expected
    BY <1>1, <1>2, ClientFields
  <1>4. d.signal # "listed"
    BY <1>1
  <1>5. l.apart => Done(d)
    <2>1. l.apart /\ signal = "complete" => c.written = Blocks
      BY <1>2 DEF Follows, Sound, Done
    <2>2. QED BY <1>1, <2>1 DEF Done
  <1>6. QED BY <1>1, <1>2, <1>3, <1>4, <1>5, NothingAwaited

\* A step that leaves all but the timer alone.
LEMMA IdleIsSound ==
  ASSUME NEW c, NEW k, NEW d, NEW l, Stepping(c, k, d, l),
         d = c \/ d = Stopped(c) \/ d = [c EXCEPT !.timer = TRUE]
  PROVE  Sound(d, l)
  <1>1. c \in Clients /\ c.out = <<>> /\ k \in Channels /\ Follows(k, d, l) /\ d \in Clients
    BY DEF Stepping, Good
  <1>2. /\ SameData(c, d) /\ d.expected = c.expected /\ d.offset = c.offset /\ d.out = c.out
        /\ d.unsent = c.unsent
    <2>1. CASE d = c
      BY <2>1 DEF SameData
    <2>2. CASE d = Stopped(c)
      BY <1>1, <2>2 DEF Stopped, SameData, Clients
    <2>3. CASE d = [c EXCEPT !.timer = TRUE]
      BY <1>1, <2>3 DEF SameData, Clients
    <2>4. QED BY <2>1, <2>2, <2>3
  <1>3. Sound(c, k)
    BY <1>2 DEF Stepping
  <1>4. QED BY <1>1, <1>2, <1>3, SameAwaited

\* The sessions are to be reset or terminated.
LEMMA EndBeginsSound ==
  ASSUME NEW c, NEW k, NEW d, NEW l, Stepping(c, k, d, l),
         NEW e \in Clients, e.expected = c.expected, e.unsent = c.unsent, e.signal = "none",
         \/ d = _resetSessionsBegin(e) /\ (Sound(c, k) /\ k.apart => e.written = Blocks)
         \/ d = _terminateSessionBegin(e)
  PROVE  Sound(d, l)
  <1> USE OpcodesAre
  <1>1. \E stage \in {"reset", "terminate"}, op \in Opcodes :
          /\ d = _sendRequestExpectAck([e EXCEPT !.stage = stage], op, 0)
          /\ stage = "reset" /\ Sound(c, k) /\ k.apart => e.written = Blocks
    <2>1. CASE d = _resetSessionsBegin(e) /\ (Sound(c, k) /\ k.apart => e.written = Blocks)
      <3>1. d = _sendRequestExpectAck([e EXCEPT !.stage = "reset"], "reset", 0)
        BY <2>1 DEF _resetSessionsBegin
      <3>2. QED BY <2>1, <3>1
    <2>2. CASE d = _terminateSessionBegin(e)
      <3>1. d = _sendRequestExpectAck([e EXCEPT !.stage = "terminate"], "terminate", 0)
        BY <2>2 DEF _terminateSessionBegin
      <3>2. QED BY <3>1
    <2>3. QED BY <2>1, <2>2
  <1>2. PICK stage \in {"reset", "terminate"}, op \in Opcodes :
          /\ d = _sendRequestExpectAck([e EXCEPT !.stage = stage], op, 0)
          /\ stage = "reset" /\ Sound(c, k) /\ k.apart => e.written = Blocks
    BY <1>1
  <1>3. ~d.unsent /\ ~d.wrapped /\ stage \in {"open", "reset", "terminate"}
    BY DEF Stepping, FirstHalf
  <1>4. /\ d \in Clients /\ d.stage = stage /\ Asks(e, d, op, 0)
        /\ d.written = e.written /\ d.signal = e.signal /\ d.expected = e.expected + 2
    BY <1>2, <1>3, ResetIsAsked
  <1>5. ~c.unsent /\ ~e.wrapped
    BY <1>4 DEF Asks
  <1>6. c \in Clients /\ k \in Channels /\ Sound(c, k) /\ Follows(k, d, l)
    BY <1>5 DEF Stepping, Good
  <1>7. c.expected <= d.expected
    BY <1>4, <1>6, ClientFields
  <1>8. 0 \in Nat /\ d.signal = "none"
    BY <1>4
  <1>9. l.apart => Done(d)
    BY <1>2, <1>4, <1>6, <1>8 DEF Follows, Done
  <1>10. \E o \in Opcodes, offset \in Nat : Asks(c, d, o, offset)
    BY <1>4, <1>5, <1>8 DEF Asks, Stepping, FirstHalf
  <1>11. QED BY <1>4, <1>6, <1>7, <1>8, <1>9, <1>10, NothingAwaited

\* A reply to a listing that is not old, an entry of which is noted.
LEMMA ListPacketIsSound ==
  ASSUME BurstFits, NEW c, NEW k, NEW d, NEW l, Stepping(c, k, d, l), c.stage = "list",
         NEW r \in k.arriving, ~Old(c, r), r.op = "list", r.kind = "ack",
         d = ListPacket(c, r)
  PROVE  Sound(d, l)
  <1> DEFINE e == [c EXCEPT !.listed = Append(@, r.offset), !.listOffset = @ + 1,
                            !.expected = r.seq]
  <1>1. d = _listDirectoryWorker(e, TRUE)
    BY DEF ListPacket
  <1>2. c \in Clients /\ k \in Channels /\ c.listed \in Seq(Nat) /\ c.listOffset \in Nat
        /\ ~d.unsent /\ ~d.wrapped /\ Follows(k, d, l)
    BY ClientFields DEF Stepping, Good, FirstHalf
  <1>3. r.offset \in Nat /\ r.seq \in 0 .. SeqModulus - 1
    BY <1>2, PacketsAre
  <1>4. /\ e \in Clients /\ e.unsent = c.unsent /\ e.stage = "list" /\ e.signal = "none"
        /\ e.listed = Append(c.listed, r.offset) /\ e.listOffset = c.listOffset + 1
        /\ e.expected = r.seq /\ e.wrapped = c.wrapped
    <2>1. Append(c.listed, r.offset) \in Seq(Nat) /\ c.listOffset + 1 \in Nat
      BY <1>2, <1>3
    <2>2. QED BY <1>2, <1>3, <2>1 DEF Clients, Stepping
  <1> HIDE DEF e
  <1>5. /\ d \in Clients /\ SameData(e, d) /\ Asks(e, d, "list", e.listOffset)
        /\ d.expected = e.expected + 2
    <2>1. TRUE \in BOOLEAN
      OBVIOUS
    <2>2. d \in Clients /\ SameData(e, d) /\ Asks(e, d, "list", e.listOffset)
          /\ d.expected = e.expected + (IF TRUE THEN 2 ELSE 0)
      BY <1>1, <1>2, <1>4, <2>1, ListIsAsked
    <2>3. QED BY <2>2
  <1>6. ~c.unsent /\ ~c.wrapped /\ Asks(c, d, "list", c.listOffset + 1) /\ Sound(c, k)
    BY <1>4, <1>5 DEF Asks, Stepping
  <1>7. c.expected = r.seq /\ r \in Pending(k) /\ c.expected \in Int
    BY <1>2, <1>6, Heeded DEF Stepping
  <1>8. c.expected <= d.expected /\ d.expected = c.expected + 2
    BY <1>4, <1>5, <1>7
  <1>9. "list" \in Opcodes /\ c.listOffset + 1 \in Nat
    BY <1>2, OpcodesAre
  <1>10. /\ OneReply(l) /\ Numbered(d, l)
         /\ \A p \in Pending(l) : p.op = "list" =>
              /\ p.kind = "ack" => p.offset < DirectorySize
              /\ p.kind = "eof" => p.offset >= DirectorySize
    BY <1>2, <1>5, <1>6, <1>8, <1>9, NumbersKept
  <1>11. /\ d.stage = "list" /\ d.signal = "none" /\ d.listOffset = c.listOffset + 1
         /\ d.listed = Append(c.listed, r.offset)
    BY <1>4, <1>5 DEF SameData
  <1>12. Listing(d, l)
    <2>1. c.listed = Entries(c.listOffset) /\ r.offset = c.listOffset /\ r.offset < DirectorySize
      BY <1>6, <1>7 DEF Sound, Listing
    <2>2. d.listed = Entries(d.listOffset)
      <3>1. Append([i \in 1 .. c.listOffset |-> i - 1], c.listOffset)
              = [i \in 1 .. c.listOffset + 1 |-> i - 1]
        BY <1>2
      <3>2. QED BY <1>11, <2>1, <3>1 DEF Entries
    <2>3. d.listOffset <= DirectorySize
      BY <1>2, <1>11, <2>1
    <2>4. \A i \in DOMAIN l.requests :
            l.requests[i].seq = d.expected - 1 => l.requests[i].offset = d.listOffset
      <3>1. \A i \in DOMAIN k.requests : k.requests[i].seq # d.expected - 1
        BY <1>2, <1>6, <1>7, <1>8, PacketsAre DEF Sound, Numbered
      <3> DEFINE q == [op |-> "list", seq |-> d.expected - 1, offset |-> c.listOffset + 1]
      <3>2. q.offset = d.listOffset
        BY <1>11
      <3>3. \A i \in DOMAIN l.requests :
              \/ i \in DOMAIN k.requests /\ l.requests[i] = k.requests[i]
              \/ l.requests[i] = q
        BY <1>2, <1>5, <1>6, <1>9, OneSent
      <3> HIDE DEF q
      <3>4. QED BY <3>1, <3>2, <3>3
    <2>5. \A p \in Pending(l) : p.op = "list" => p.seq # d.expected
      <3>1. Pending(l) \subseteq Pending(k)
        BY <1>2 DEF Follows, Pending
      <3>2. \A p \in Pending(k) : p.op = "list" => p.seq <= c.expected /\ p.seq \in Int
        BY <1>2, <1>6, PacketsAre DEF Sound, Numbered
      <3>3. QED BY <1>7, <1>8, <3>1, <3>2
    <2>6. QED BY <1>10, <1>11, <2>2, <2>3, <2>4, <2>5 DEF Listing
  <1>13. QED BY <1>10, <1>11, <1>12 DEF Sound, Opening, Bursting, Filling, Done

\* Beginning a listing, and asking again after a time-out.
LEMMA ListAsksSound ==
  ASSUME NEW c, NEW k, NEW d, NEW l, Stepping(c, k, d, l),
         NEW first \in BOOLEAN, NEW e \in Clients,
         e.stage = "list", e.unsent = c.unsent, e.signal = "none", e.expected = c.expected,
         d = _listDirectoryWorker(e, first),
         first => e.listed = <<>> /\ e.listOffset = 0,
         ~first => /\ c.stage = "list" /\ e.listed = c.listed
                   /\ e.listOffset = c.listOffset
  PROVE  Sound(d, l)
  <1>1. c \in Clients /\ k \in Channels /\ c.listOffset \in Nat /\ e.listOffset \in Nat
        /\ ~d.unsent /\ ~d.wrapped /\ ~c.wrapped /\ Follows(k, d, l)
    BY ClientFields DEF Stepping, Good, FirstHalf
  <1>2. /\ d \in Clients /\ SameData(e, d) /\ Asks(e, d, "list", e.listOffset)
        /\ d.expected = e.expected + (IF first THEN 2 ELSE 0)
    BY <1>1, ListIsAsked
  <1>3. ~c.unsent /\ Asks(c, d, "list", e.listOffset) /\ Sound(c, k)
    BY <1>1, <1>2 DEF Asks, Stepping
  <1>4. c.expected \in Int /\ c.expected <= d.expected
        /\ d.expected = c.expected + (IF first THEN 2 ELSE 0)
    <2>1. c.expected \in Int /\ d.expected = c.expected + (IF first THEN 2 ELSE 0)
      BY <1>1, <1>2, ClientFields
    <2>2. QED BY <2>1
  <1>5. "list" \in Opcodes
    BY OpcodesAre
  <1>6. /\ OneReply(l) /\ Numbered(d, l)
        /\ \A p \in Pending(l) : p.op = "list" =>
             /\ p.kind = "ack" => p.offset < DirectorySize
             /\ p.kind = "eof" => p.offset >= DirectorySize
    BY <1>1, <1>2, <1>3, <1>4, <1>5, NumbersKept
  <1>7. /\ d.stage = "list" /\ d.signal = "none" /\ d.listOffset = e.listOffset
        /\ d.listed = e.listed
    BY <1>2 DEF SameData
  <1> DEFINE q == [op |-> "list", seq |-> d.expected - 1, offset |-> e.listOffset]
  <1>8. /\ \A i \in DOMAIN l.requests :
             \/ i \in DOMAIN k.requests /\ l.requests[i] = k.requests[i]
             \/ l.requests[i] = q
        /\ Pending(l) \subseteq Pending(k)
    BY <1>1, <1>2, <1>3, <1>5, OneSent
  <1>9. q.offset = e.listOffset
    OBVIOUS
  <1> HIDE DEF q
  <1>10. Listing(d, l)
    <2>1. CASE first
      <3>1. d.expected = c.expected + 2
        BY <1>4, <2>1
      <3>2. \A i \in DOMAIN l.requests :
              l.requests[i].seq = d.expected - 1 => l.requests[i].offset = d.listOffset
        <4>1. \A i \in DOMAIN k.requests : k.requests[i].seq # d.expected - 1
          BY <1>1, <1>3, <1>4, <3>1, PacketsAre DEF Sound, Numbered
        <4>2. QED BY <1>7, <1>8, <1>9, <4>1
      <3>3. \A p \in Pending(l) : p.op = "list" => p.seq # d.expected
        <4>1. "list" # "burst"
          OBVIOUS
        <4>2. QED BY <1>1, <1>3, <1>4, <1>8, <3>1, <4>1, PacketsAre DEF Sound, Numbered
      <3>4. d.listed = Entries(d.listOffset) /\ d.listOffset <= DirectorySize
        <4>1. d.listed = <<>> /\ d.listOffset = 0
          BY <1>7, <2>1
        <4>2. Entries(0) = <<>>
          BY DEF Entries
        <4>3. QED BY <4>1, <4>2
      <3>5. QED BY <1>6, <1>7, <3>2, <3>3, <3>4 DEF Listing
    <2>2. CASE ~first
      <3>1. d.expected = c.expected /\ d.listOffset = c.listOffset /\ d.listed = c.listed
            /\ e.listOffset = c.listOffset
        BY <1>4, <1>7, <2>2
      <3>2. \A i \in DOMAIN l.requests :
              l.requests[i].op = "list" /\ l.requests[i].seq = d.expected - 1 =>
                l.requests[i].offset = d.listOffset
        BY <1>3, <1>8, <1>9, <2>2, <3>1 DEF Sound, Listing
      <3>3. QED BY <1>3, <1>6, <1>7, <1>8, <2>2, <3>1, <3>2 DEF Sound, Listing
    <2>3. QED BY <2>1, <2>2
  <1>11. QED BY <1>6, <1>7, <1>10 DEF Sound, Opening, Bursting, Filling, Done

\* The end of the directory comes when the last entry has.
LEMMA ListIsWhole ==
  ASSUME NEW c \in Clients, NEW k \in Channels, c.stage = "list", Sound(c, k),
         NEW r \in k.arriving, r.op = "list", r.kind = "eof", r.seq = c.expected
  PROVE  c.listed = Entries(DirectorySize)
  <1>1. r \in Pending(k) /\ c.listOffset \in Nat /\ r.offset \in Nat
    BY PacketsAre, ClientFields
  <1>2. /\ r.offset >= DirectorySize /\ r.offset = c.listOffset
        /\ c.listOffset <= DirectorySize /\ c.listed = Entries(c.listOffset)
    BY <1>1 DEF Sound, Listing
  <1>3. c.listOffset = DirectorySize
    BY <1>1, <1>2
  <1>4. QED BY <1>2, <1>3

\* A listing that is over; the end of the directory has come if it is whole.
LEMMA ListOverIsSound ==
  ASSUME BurstFits, NEW c, NEW k, NEW d, NEW l, Stepping(c, k, d, l), c.stage = "list",
         NEW e \in Clients, e.listed = c.listed, e.expected = c.expected,
         e.unsent = c.unsent, e.out = c.out,
         NEW signal \in {"listed", "listFailed"}, d = _listDirectoryComplete(e, signal),
         signal = "listed" /\ Sound(c, k) => c.listed = Entries(DirectorySize)
  PROVE  Sound(d, l)
  <1>1. c \in Clients /\ k \in Channels /\ Follows(k, d, l) /\ d \in Clients
        /\ c.listOffset \in Nat
    BY ClientFields DEF Stepping, Good
  <1>2. \E f \in Clients : /\ d = Ended(f, signal) /\ f.expected = c.expected
                           /\ f.unsent = c.unsent /\ f.out = c.out
                           /\ signal = "listed" => f.listed = c.listed
    <2>1. CASE signal = "listed"
      BY <2>1 DEF _listDirectoryComplete
    <2>2. CASE signal # "listed"
      <3> DEFINE none == <<>>
                 f == [e EXCEPT !.listed = none]
      <3>1. d = Ended(f, signal)
        BY <2>2 DEF _listDirectoryComplete
      <3>2. none \in Seq(Nat)
        OBVIOUS
      <3> HIDE DEF none
      <3>3. f \in Clients /\ f.expected = e.expected /\ f.unsent = e.unsent /\ f.out = e.out
        BY <3>2 DEF Clients
      <3> HIDE DEF f
      <3>4. QED BY <2>2, <3>1, <3>3
    <2>3. QED BY <2>1, <2>2
  <1>3. PICK f \in Clients : /\ d = Ended(f, signal) /\ f.expected = c.expected
                             /\ f.unsent = c.unsent /\ f.out = c.out
                             /\ signal = "listed" => f.listed = c.listed
    BY <1>2
  <1>4. /\ d.stage = "none" /\ d.expected = c.expected /\ d.unsent = c.unsent /\ d.out = <<>>
        /\ d.signal = signal /\ d.listed = f.listed
    BY <1>3, EndingIs DEF Stepping
  <1>5. Sound(c, k) /\ c.expected <= d.expected
    BY <1>1, <1>4, ClientFields DEF Stepping
  <1>6. signal = "listed" => c.listed = Entries(DirectorySize)
    BY <1>5
  <1>7. d.signal = "listed" => d.listed = Entries(DirectorySize)
    BY <1>3, <1>4, <1>6
  <1>8. l.apart => Done(d)
    BY <1>4 DEF Done
  <1>9. QED BY <1>1, <1>4, <1>5, <1>7, <1>8, NothingAwaited

\* A reply to a listing.
LEMMA ListIsSound ==
  ASSUME BurstFits, NEW c, NEW k, NEW d, NEW l, Stepping(c, k, d, l), c.stage = "list",
         NEW r \in k.arriving, ~Old(c, r), d = _listDirectoryAckOrNak(c, r)
  PROVE  Sound(d, l)
  <1>1. c \in Clients /\ c.signal = "none"
    BY DEF Stepping, Good
  <1>2. CASE r.op # "list" \/ (r.kind = "ack" /\ r.seq < c.expected)
    BY <1>2, IdleIsSound DEF _listDirectoryAckOrNak
  <1>3. CASE r.op = "list" /\ r.kind = "ack" /\ ~(r.seq < c.expected)
    BY <1>3, ListPacketIsSound DEF _listDirectoryAckOrNak
  <1>4. CASE r.op = "list" /\ r.kind = "eof"
    <2> DEFINE e == Stopped(c)
    <2>1. /\ e \in Clients /\ e.listed = c.listed /\ e.expected = c.expected
          /\ e.unsent = c.unsent /\ e.out = c.out
          /\ [e EXCEPT !.timer = TRUE] = [c EXCEPT !.timer = TRUE]
      BY <1>1 DEF Stopped, Clients
    <2>2. d = ListEnd(e, r)
      BY <1>4 DEF _listDirectoryAckOrNak
    <2> HIDE DEF e
    <2>3. CASE r.seq = c.expected
      <3>1. d = _listDirectoryComplete(e, "listed") /\ "listed" \in {"listed", "listFailed"}
        BY <2>1, <2>2, <2>3 DEF ListEnd
      <3>2. Sound(c, k) => c.listed = Entries(DirectorySize)
        BY <1>1, <1>4, <2>3, ListIsWhole DEF Stepping
      <3>3. QED BY <2>1, <3>1, <3>2, ListOverIsSound
    <2>4. CASE r.seq # c.expected
      BY <2>1, <2>2, <2>4, IdleIsSound DEF ListEnd
    <2>5. QED BY <2>3, <2>4
  <1>5. CASE r.op = "list" /\ r.kind # "ack" /\ r.kind # "eof"
    <2>1. d = _listDirectoryComplete(c, "listFailed") /\ "listFailed" \in {"listed", "listFailed"}
      BY <1>5 DEF _listDirectoryAckOrNak
    <2>2. "listFailed" # "listed"
      OBVIOUS
    <2>3. QED BY <1>1, <2>1, <2>2, ListOverIsSound
  <1>6. QED BY <1>2, <1>3, <1>4, <1>5

\* A listing's time-out.
LEMMA ListAgainIsSound ==
  ASSUME BurstFits, NEW c, NEW k, NEW d, NEW l, Stepping(c, k, d, l), c.stage = "list",
         d = ListAgain(Stopped(c))
  PROVE  Sound(d, l)
  <1> DEFINE e == [Stopped(c) EXCEPT !.listRetries = @ + 1]
  <1>1. c \in Clients /\ c.listRetries <= MaxRetry
    BY DEF Stepping, Good
  <1>2. /\ e \in Clients /\ e.listed = c.listed /\ e.expected = c.expected
        /\ e.unsent = c.unsent /\ e.out = c.out /\ e.stage = "list" /\ e.signal = "none"
        /\ e.listOffset = c.listOffset
    <2>1. c.listRetries + 1 \in 0 .. MaxRetry + 1
      BY <1>1, ClientFields
    <2>2. QED BY <1>1, <2>1 DEF Stopped, Clients, Stepping
  <1>3. d = IF e.listRetries > MaxRetry THEN _listDirectoryComplete(e, "listFailed")
            ELSE _listDirectoryWorker(e, FALSE)
    BY DEF ListAgain
  <1> HIDE DEF e
  <1>4. CASE d = _listDirectoryComplete(e, "listFailed")
    <2>1. "listFailed" \in {"listed", "listFailed"} /\ "listFailed" # "listed"
      OBVIOUS
    <2>2. QED BY <1>2, <1>4, <2>1, ListOverIsSound
  <1>5. CASE d = _listDirectoryWorker(e, FALSE)
    <2>1. FALSE \in BOOLEAN
      OBVIOUS
    <2>2. QED BY <1>2, <1>5, <2>1, ListAsksSound
  <1>6. QED BY <1>3, <1>4, <1>5

\* A listing that is begun.
LEMMA ListDirectoryIsSound ==
  ASSUME NEW c, NEW k, NEW d, NEW l, Stepping(c, k, d, l), c.table = "empty",
         NEW valid \in BOOLEAN, d = listDirectory(c, valid)
  PROVE  Sound(d, l)
  <1> DEFINE none == <<>>
             m == [c EXCEPT !.table = "list", !.listOffset = 0, !.listRetries = 0, !.listed = none]
             e == [m EXCEPT !.stage = "list"]
  <1>1. c \in Clients /\ c.stage = "none" /\ c.signal = "none" /\ c.out = <<>>
    BY DEF Stepping, Good
  <1>2. none \in Seq(Nat)
    OBVIOUS
  <1>3. d = IF valid THEN _listDirectoryWorker(e, TRUE) ELSE m
    BY DEF listDirectory
  <1>4. none = <<>>
    OBVIOUS
  <1> HIDE DEF none
  <1>5. /\ m \in Clients /\ m.stage = "none" /\ m.signal = "none" /\ m.out = <<>>
        /\ m.expected = c.expected /\ m.unsent = c.unsent
    BY <1>1, <1>2, ConstantsAre DEF Clients
  <1>6. /\ e \in Clients /\ e.stage = "list" /\ e.signal = "none" /\ e.listed = none
        /\ e.listOffset = 0 /\ e.expected = c.expected /\ e.unsent = c.unsent
    BY <1>1, <1>2, ConstantsAre DEF Clients
  <1> HIDE DEF m, e
  <1>7. CASE valid
    <2>1. TRUE \in BOOLEAN
      OBVIOUS
    <2>2. d = _listDirectoryWorker(e, TRUE)
      BY <1>3, <1>7
    <2>3. QED BY <1>4, <1>6, <2>1, <2>2, ListAsksSound
  <1>8. CASE ~valid
    <2>1. d = m
      BY <1>3, <1>8
    <2>2. Sound(c, k) /\ k \in Channels /\ Follows(k, d, l) /\ d \in Clients
      BY <1>5, <2>1 DEF Stepping
    <2>3. d.expected = c.expected /\ c.expected <= d.expected
      BY <1>1, <1>5, <2>1, ClientFields
    <2>4. l.apart => Done(d)
      BY <1>5, <2>1 DEF Done
    <2>5. d.out = <<>> /\ d.stage = "none" /\ d.signal # "listed"
      BY <1>5, <2>1
    <2>6. QED BY <1>1, <2>2, <2>3, <2>4, <2>5, NothingAwaited
  <1>9. QED BY <1>7, <1>8

-----------------------------------------------------------------------------
(* Opening.                                                                *)

\* A download that is begun.
LEMMA DownloadIsSound ==
  ASSUME NEW c, NEW k, NEW d, NEW l, Stepping(c, k, d, l), c.table = "empty",
         NEW checksize \in BOOLEAN, NEW valid \in BOOLEAN, d = download(c, checksize, valid)
  PROVE  Sound(d, l)
  <1> DEFINE zero == 0
             none == <<>>
             empty == {}
             m == [c EXCEPT !.table = "download", !.fileSize = zero, !.offset = zero,
                            !.bytesWritten = zero, !.missing = none, !.retryCount = zero,
                            !.checksize = checksize, !.written = empty]
  <1>1. c \in Clients /\ c.stage = "none" /\ c.signal = "none" /\ c.out = <<>>
        /\ k \in Channels /\ Follows(k, d, l) /\ d \in Clients
    BY DEF Stepping, Good
  <1>2. zero \in 0 .. FileSize /\ zero \in 0 .. MaxRetry + 1 /\ zero \in Nat
        /\ zero \in {0, FileSize} /\ none \in Seq(Holed) /\ empty \in SUBSET Blocks
    BY ConstantsAre
  <1>3. d = IF valid THEN _openFileROBegin(m) ELSE m
    BY DEF download
  <1> HIDE DEF zero, none, empty
  <1>4. /\ m \in Clients /\ m.stage = "none" /\ m.signal = "none" /\ m.out = <<>>
        /\ m.expected = c.expected /\ m.unsent = c.unsent /\ m.wrapped = c.wrapped
    <2>1. m \in Clients
      BY <1>1, <1>2 DEF Clients
    <2>2. /\ m.stage = c.stage /\ m.signal = c.signal /\ m.out = c.out
          /\ m.expected = c.expected /\ m.unsent = c.unsent /\ m.wrapped = c.wrapped
      BY <1>1 DEF Clients
    <2>3. QED BY <1>1, <2>1, <2>2
  <1> HIDE DEF m
  <1>5. CASE valid
    <2> DEFINE open == "open"
               start == 0
    <2>1. d = _sendRequestExpectAck([m EXCEPT !.stage = open], open, 0)
      BY <1>3, <1>5 DEF _openFileROBegin
    <2>2. open \in {"open", "reset", "terminate"} /\ open \in Opcodes /\ start \in Nat
          /\ open = "open" /\ start = 0
      BY OpcodesAre
    <2> HIDE DEF open, start
    <2>3. ~d.unsent /\ ~d.wrapped
      BY DEF Stepping, FirstHalf
    <2>4. /\ d.stage = open /\ Asks(m, d, open, start) /\ d.signal = m.signal
          /\ d.expected = m.expected + 2
      BY <1>4, <2>1, <2>2, <2>3, ResetIsAsked
    <2>5. Asks(c, d, open, start) /\ Sound(c, k) /\ d.signal = "none" /\ d.stage = "open"
      BY <1>4, <2>2, <2>4 DEF Asks, Stepping
    <2>6. c.expected \in Int /\ d.expected = c.expected + 2 /\ c.expected <= d.expected
      BY <1>1, <1>4, <2>4, ClientFields
    <2>7. /\ OneReply(l) /\ Numbered(d, l)
          /\ \A p \in Pending(l) : p.op = "list" =>
               /\ p.kind = "ack" => p.offset < DirectorySize
               /\ p.kind = "eof" => p.offset >= DirectorySize
      BY <1>1, <2>2, <2>5, <2>6, NumbersKept
    <2>8. Opening(d, l)
      <3> DEFINE q == [op |-> open, seq |-> d.expected - 1, offset |-> start]
      <3>1. \A i \in DOMAIN l.requests :
              \/ i \in DOMAIN k.requests /\ l.requests[i] = k.requests[i]
              \/ i = Len(l.requests) /\ l.requests[i] = q
        BY <1>1, <2>2, <2>5, OneSent
      <3> HIDE DEF q
      <3>2. \A i \in DOMAIN k.requests : k.requests[i].seq # d.expected - 1
        BY <1>1, <2>5, <2>6, PacketsAre DEF Sound, Numbered
      <3>3. Pending(l) \subseteq Pending(k)
        BY <1>1 DEF Follows, Pending
      <3>4. \A p \in Pending(k) : p.op = "open" => p.seq <= c.expected /\ p.seq \in Int
        BY <1>1, <2>5, PacketsAre DEF Sound, Numbered
      <3>5. \A p \in Pending(l) : p.op = "open" => p.seq # d.expected
        BY <2>6, <3>3, <3>4
      <3>6. QED BY <3>1, <3>2, <3>5 DEF Opening
    <2>9. QED BY <2>5, <2>7, <2>8 DEF Sound, Listing, Bursting, Filling, Done
  <1>6. CASE ~valid
    <2>1. d = m
      BY <1>3, <1>6
    <2>2. Sound(c, k)
      BY <1>4, <2>1 DEF Stepping
    <2>3. d.expected = c.expected /\ c.expected <= d.expected
      BY <1>1, <1>4, <2>1, ClientFields
    <2>4. l.apart => Done(d)
      BY <1>4, <2>1 DEF Done
    <2>5. d.out = <<>> /\ d.stage = "none" /\ d.signal # "listed"
      BY <1>4, <2>1
    <2>6. QED BY <1>1, <2>2, <2>3, <2>4, <2>5, NothingAwaited
  <1>7. QED BY <1>5, <1>6

-----------------------------------------------------------------------------
(* Resetting and terminating.                                              *)

\* A reply to a reset, and its time-out.
LEMMA ResetIsSound ==
  ASSUME NEW c, NEW k, NEW d, NEW l, Stepping(c, k, d, l), c.stage = "reset",
         d = c \/ d = _downloadComplete(c, "complete")
  PROVE  Sound(d, l)
  <1>1. c \in Clients
    BY DEF Stepping, Good
  <1>2. "complete" \in {"failed", "aborted", "complete"}
    OBVIOUS
  <1>3. QED BY <1>1, <1>2, IdleIsSound, OverIsSound

\* A reply to a termination, and its time-out.
LEMMA TerminateIsSound ==
  ASSUME NEW c, NEW k, NEW d, NEW l, Stepping(c, k, d, l), c.stage = "terminate",
         d = c \/ d = _downloadComplete(c, "aborted") \/ d = TerminateAgain(Stopped(c))
  PROVE  Sound(d, l)
  <1>1. c \in Clients /\ c.retryCount <= MaxRetry
    BY DEF Stepping, Good
  <1>2. /\ "aborted" \in {"failed", "aborted", "complete"} /\ "aborted" # "complete"
        /\ "failed" \in {"failed", "aborted", "complete"} /\ "failed" # "complete"
    OBVIOUS
  <1>3. CASE d = TerminateAgain(Stopped(c))
    <2> DEFINE e == [Stopped(c) EXCEPT !.retryCount = @ + 1]
    <2>1. /\ e \in Clients /\ e.expected = c.expected
          /\ e.unsent = c.unsent /\ e.out = c.out /\ e.signal = "none"
      <3>1. c.retryCount + 1 \in 0 .. MaxRetry + 1
        BY <1>1, ClientFields
      <3>2. QED BY <1>1, <3>1 DEF Stopped, Clients, Stepping
    <2>2. d = IF e.retryCount > MaxRetry THEN _downloadComplete(e, "failed")
              ELSE _terminateSessionBegin(e)
      BY <1>3 DEF TerminateAgain
    <2> HIDE DEF e
    <2>3. CASE d = _downloadComplete(e, "failed")
      BY <1>2, <2>1, <2>3, OverIsSound
    <2>4. CASE d = _terminateSessionBegin(e)
      BY <2>1, <2>4, EndBeginsSound
    <2>5. QED BY <2>2, <2>3, <2>4
  <1>4. QED BY <1>1, <1>2, <1>3, IdleIsSound, OverIsSound

\* A cancelled operation.
LEMMA CancelIsSound ==
  ASSUME NEW c, NEW k, NEW d, NEW l, Stepping(c, k, d, l), d = cancelDownload(c)
  PROVE  Sound(d, l)
  <1> DEFINE e == [Stopped(c) EXCEPT !.table = "terminate", !.retryCount = 0]
  <1>1. c \in Clients /\ c.signal = "none"
    BY DEF Stepping, Good
  <1>2. /\ e \in Clients /\ e.expected = c.expected
        /\ e.unsent = c.unsent /\ e.signal = "none"
    BY <1>1, ConstantsAre DEF Stopped, Clients
  <1>3. d = _terminateSessionBegin(e)
    BY DEF cancelDownload
  <1> HIDE DEF e
  <1>4. QED BY <1>2, <1>3, EndBeginsSound

-----------------------------------------------------------------------------
(* Reading bursts.                                                         *)

\* What the packet of a burst passed over is noted.
LEMMA PassedOver ==
  ASSUME NEW c, Heeds(c, "burst"), NEW r \in GoodReplies, r.op = "burst", r.kind = "ack",
         r.offset >= c.offset
  PROVE  MissingTo(c, r.offset) \in Seq(Holed)
  <1>1. c \in Clients /\ Accounted(c, c.offset)
    BY DEF Heeds, Good
  <1>2. r.offset \in Blocks
    BY DEF GoodReplies, Replies, Blocks
  <1>3. c.missing \in Seq(Holed) /\ Apart(c.missing, c.offset)
    BY <1>1, ClientFields DEF Accounted
  <1>4. CASE r.offset = c.offset
    BY <1>3, <1>4 DEF MissingTo
  <1>5. CASE r.offset # c.offset
    <2>1. c.offset < r.offset /\ c.offset \in Blocks
      BY <1>1, <1>2, <1>5, ClientFields DEF Blocks
    <2> DEFINE more == MissingTo(c, r.offset)
    <2>2. more = Append(c.missing, [offset |-> c.offset, count |-> r.offset - c.offset])
      BY <1>5 DEF MissingTo
    <2> HIDE DEF more
    <2>3. more \in Seq(Holed)
      BY <1>2, <1>3, <2>1, <2>2, GapNoted
    <2>4. QED BY <2>3 DEF more
  <1>6. QED BY <1>4, <1>5

\* A burst is asked for when none is on its way any more.
LEMMA BurstAsksSound ==
  ASSUME BurstFits, NEW c, NEW k, NEW d, NEW l, Stepping(c, k, d, l),
         NEW first \in BOOLEAN, NEW e \in Clients, e.stage = "burst", e.signal = "none",
         e.unsent = c.unsent, d = _burstReadFileWorker(e, first), c.expected <= d.expected,
         Sound(c, k) /\ k.apart =>
           /\ k.open /\ \A i \in DOMAIN k.requests : k.requests[i].op = "burst"
           /\ \A p \in k.last : p.op = "burst" /\ p.seq >= d.expected =>
                /\ p.seq - p.offset = d.expected - e.offset
                /\ p.kind = "eof" => p.offset = FileSize
  PROVE  Sound(d, l)
  <1>1. c \in Clients /\ k \in Channels /\ e.offset \in Nat
        /\ ~d.unsent /\ ~d.wrapped /\ ~c.wrapped /\ Follows(k, d, l)
    BY ClientFields DEF Stepping, Good, FirstHalf
  <1>2. d \in Clients /\ SameData(e, d) /\ d.offset = e.offset /\ Asks(e, d, "burst", e.offset)
    BY <1>1, BurstIsAsked
  <1>3. Asks(c, d, "burst", e.offset) /\ Sound(c, k)
    BY <1>1, <1>2 DEF Asks, Stepping
  <1> DEFINE burst == "burst"
             q == [op |-> burst, seq |-> d.expected - 1, offset |-> e.offset]
  <1>4. burst \in Opcodes /\ burst = "burst" /\ Asks(c, d, burst, e.offset)
    BY <1>3, OpcodesAre
  <1>5. q = [op |-> "burst", seq |-> d.expected - 1, offset |-> d.offset] /\ q.op = "burst"
    BY <1>2
  <1> HIDE DEF burst
  <1>6. /\ OneReply(l) /\ Numbered(d, l)
        /\ \A p \in Pending(l) : p.op = "list" =>
             /\ p.kind = "ack" => p.offset < DirectorySize
             /\ p.kind = "eof" => p.offset >= DirectorySize
    BY <1>1, <1>2, <1>3, <1>4, NumbersKept
  <1>7. d.stage = "burst" /\ d.signal = "none"
    BY <1>2 DEF SameData
  <1>8. /\ l.requests = Append(k.requests, q) /\ Range(d.out) = {q}
        /\ Len(l.requests) = Len(k.requests) + 1
        /\ \A i \in DOMAIN l.requests :
             \/ i \in DOMAIN k.requests /\ l.requests[i] = k.requests[i]
             \/ i = Len(l.requests) /\ l.requests[i] = q
        /\ Pending(l) \subseteq Pending(k)
    BY <1>1, <1>2, <1>4, OneSent
  <1> HIDE DEF q
  <1>9. ASSUME l.apart PROVE Bursting(d, l)
    <2>1. k.apart
      BY <1>1, <1>9 DEF Follows
    <2>2. /\ k.open /\ \A i \in DOMAIN k.requests : k.requests[i].op = "burst"
          /\ \A p \in k.last : p.op = "burst" /\ p.seq >= d.expected =>
               /\ p.seq - p.offset = d.expected - d.offset
               /\ p.kind = "eof" => p.offset = FileSize
      BY <1>2, <1>3, <2>1
    <2>3. q \in Range(d.out)
      BY <1>8
    <2>4. /\ \A i \in DOMAIN k.requests : k.requests[i].op # "burst"
          /\ \A p \in k.arriving : p.op = "burst" => Old(d, p)
      BY <1>1, <1>5, <1>9, <2>3 DEF Follows
    <2>5. DOMAIN k.requests = {}
      BY <2>2, <2>4
    <2>6. Len(k.requests) = 0
      BY <1>1, <2>5, PacketsAre
    <2>7. \A p \in l.arriving : p.op = "burst" => p.seq < d.expected
      <3>1. ASSUME NEW p \in l.arriving, p.op = "burst" PROVE p.seq < d.expected
        <4>1. p \in k.arriving /\ p \in Pending(k) /\ p \in Pending(l)
          BY <1>1 DEF Follows, Pending
        <4>2. p.seq \in 0 .. SeqModulus - 1
          BY <1>1, <4>1, PacketsAre
        <4>3. p.seq < d.expected + BurstMax /\ Old(d, p)
          BY <1>6, <2>4, <3>1, <4>1 DEF Numbered
        <4>4. d.expected \in Nat /\ d.expected < (SeqModulus - 1) \div 2
          BY <1>2, ClientFields DEF Stepping, FirstHalf
        <4>5. QED BY <4>2, <4>3, <4>4, OldIsBehind
      <3>2. QED BY <3>1
    <2>8. \A p \in l.arriving : p.op = "burst" => p \in Pending(l) /\ ~(p.seq >= d.expected)
      <3>1. \A p \in l.arriving : p \in Pending(l) /\ p.seq \in Int
        BY <1>1, <1>8, PacketsAre DEF Pending
      <3>2. d.expected \in Int
        BY <1>2, ClientFields
      <3>3. QED BY <2>7, <3>1, <3>2
    <2>9. Len(l.requests) <= 1 /\ \A i \in DOMAIN l.requests : l.requests[i] = q
      BY <1>8, <2>5, <2>6
    <2>10. l.open /\ l.last = k.last
      BY <1>1, <2>2 DEF Follows
    <2>11. \A p \in Pending(l) : p.op = "burst" /\ p.seq >= d.expected =>
             /\ p.seq - p.offset = d.expected - d.offset
             /\ p.kind = "eof" => p.offset = FileSize
      BY <2>2, <2>8, <2>10 DEF Pending
    <2>12. QED BY <1>5, <2>7, <2>8, <2>9, <2>10, <2>11 DEF Bursting
  <1>10. QED BY <1>6, <1>7, <1>9 DEF Sound, Listing, Opening, Filling, Done

-----------------------------------------------------------------------------
(* Filling holes.                                                          *)

\* A hole's first block is asked for, or there is no hole and the download ends.
LEMMA FillAsksSound ==
  ASSUME NEW c, NEW k, NEW d, NEW l, Stepping(c, k, d, l),
         NEW first \in BOOLEAN, NEW e \in Clients, e.stage = "fill", e.signal = "none",
         e.unsent = c.unsent, e.expected = c.expected, e.out = c.out,
         d = _fillMissingBlocksWorker(e, first), ~first => c.stage = "fill",
         Sound(c, k) /\ k.apart =>
           /\ k.open
           /\ \A b \in Blocks : b \in e.written <=> ~InHole(e.missing, b)
           /\ \A i \in DOMAIN k.requests :
                k.requests[i].op = "read" /\ k.requests[i].offset < FileSize
  PROVE  Sound(d, l)
  <1>1. c \in Clients /\ k \in Channels /\ ~d.unsent /\ ~d.wrapped /\ ~c.wrapped
        /\ Follows(k, d, l)
    BY ClientFields DEF Stepping, Good, FirstHalf
  <1>2. CASE e.missing # <<>>
    <2>1. /\ d \in Clients /\ SameData(e, d) /\ d.offset \in Blocks
          /\ Asks(e, d, "read", d.offset)
          /\ d.expected = e.expected + (IF first THEN 2 ELSE 0)
      BY <1>1, <1>2, FillIsAsked
    <2> DEFINE read == "read"
               q == [op |-> read, seq |-> d.expected - 1, offset |-> d.offset]
    <2>2. /\ Asks(c, d, read, d.offset) /\ Sound(c, k)
          /\ read \in Opcodes /\ read = "read" /\ d.offset \in Nat
      BY <1>1, <2>1, OpcodesAre DEF Asks, Stepping, Blocks
    <2>3. q.op = "read" /\ q.offset < FileSize
      BY <2>1 DEF Blocks
    <2> HIDE DEF read
    <2>4. c.expected \in Int /\ c.expected <= d.expected
          /\ d.expected = c.expected + (IF first THEN 2 ELSE 0)
      <3>1. c.expected \in Int /\ d.expected = c.expected + (IF first THEN 2 ELSE 0)
        BY <1>1, <2>1, ClientFields
      <3>2. QED BY <3>1
    <2>5. /\ OneReply(l) /\ Numbered(d, l)
          /\ \A p \in Pending(l) : p.op = "list" =>
               /\ p.kind = "ack" => p.offset < DirectorySize
               /\ p.kind = "eof" => p.offset >= DirectorySize
      BY <1>1, <2>1, <2>2, <2>4, NumbersKept
    <2>6. /\ \A i \in DOMAIN l.requests :
               \/ i \in DOMAIN k.requests /\ l.requests[i] = k.requests[i]
               \/ i = Len(l.requests) /\ l.requests[i] = q
          /\ Pending(l) \subseteq Pending(k)
      BY <1>1, <2>1, <2>2, OneSent
    <2> HIDE DEF q
    <2>7. d.stage = "fill" /\ d.signal = "none" /\ d.written = e.written /\ d.missing = e.missing
      BY <2>1 DEF SameData
    <2>8. ASSUME l.apart PROVE Filling(d, l)
      <3>1. k.apart /\ l.open = k.open
        BY <1>1, <2>8 DEF Follows
      <3>2. /\ k.open
            /\ \A b \in Blocks : b \in d.written <=> ~InHole(d.missing, b)
            /\ \A i \in DOMAIN k.requests :
                 k.requests[i].op = "read" /\ k.requests[i].offset < FileSize
        BY <2>2, <2>7, <3>1
      <3>3. \A i \in DOMAIN l.requests :
              l.requests[i].op = "read" /\ l.requests[i].offset < FileSize
        BY <2>3, <2>6, <3>2
      <3>4. \A p \in Pending(l) : p.op = "read" /\ p.seq = d.expected => p.kind # "eof"
        <4>1. CASE first
          <5>1. \A p \in Pending(k) : p.op = "read" => p.seq <= c.expected /\ p.seq \in Int
            BY <1>1, <2>2, PacketsAre DEF Sound, Numbered
          <5>2. d.expected = c.expected + 2
            BY <2>4, <4>1
          <5>3. QED BY <2>4, <2>6, <5>1, <5>2
        <4>2. CASE ~first
          <5>1. c.stage = "fill" /\ d.expected = c.expected
            BY <2>4, <4>2
          <5>2. Filling(c, k)
            BY <2>2, <3>1 DEF Sound
          <5>3. QED BY <2>6, <5>1, <5>2 DEF Filling
        <4>3. QED BY <4>1, <4>2
      <3>5. QED BY <3>1, <3>2, <3>3, <3>4 DEF Filling
    <2>9. QED BY <2>5, <2>7, <2>8 DEF Sound, Listing, Opening, Bursting, Done
  <1>3. CASE e.missing = <<>> /\ Whole(e)
    <2>1. d = _resetSessionsBegin(e)
      BY <1>3 DEF _fillMissingBlocksWorker
    <2>2. Sound(c, k) /\ k.apart => e.written = Blocks
      <3>1. \A b \in Blocks : ~InHole(e.missing, b)
        BY <1>3 DEF InHole
      <3>2. e.written \in SUBSET Blocks
        BY ClientFields
      <3>3. QED BY <3>1, <3>2
    <2>3. QED BY <2>1, <2>2, EndBeginsSound
  <1>4. CASE e.missing = <<>> /\ ~Whole(e)
    <2>1. d = _downloadComplete(e, "failed")
      BY <1>4 DEF _fillMissingBlocksWorker
    <2>2. "failed" \in {"failed", "aborted", "complete"} /\ "failed" # "complete"
      OBVIOUS
    <2>3. QED BY <2>1, <2>2, OverIsSound
  <1>5. QED BY <1>2, <1>3, <1>4

\* The first hole is asked for again.
LEMMA FillAgainIsSound ==
  ASSUME NEW c, NEW k, NEW d, NEW l, Stepping(c, k, d, l), c.stage = "fill",
         d = FillAgain(Stopped(c))
  PROVE  Sound(d, l)
  <1> DEFINE e == [Stopped(c) EXCEPT !.retryCount = @ + 1]
  <1>1. c \in Clients /\ c.retryCount <= MaxRetry
    BY DEF Stepping, Good
  <1>2. /\ e \in Clients /\ e.expected = c.expected /\ e.unsent = c.unsent /\ e.out = c.out
        /\ e.stage = "fill" /\ e.signal = "none" /\ e.written = c.written
        /\ e.missing = c.missing
    <2>1. c.retryCount + 1 \in 0 .. MaxRetry + 1
      BY <1>1, ClientFields
    <2>2. QED BY <1>1, <2>1 DEF Stopped, Clients, Stepping
  <1>3. d = IF e.retryCount > MaxRetry THEN _downloadComplete(e, "failed")
            ELSE _fillMissingBlocksWorker(e, FALSE)
    BY DEF FillAgain
  <1> HIDE DEF e
  <1>4. CASE d = _downloadComplete(e, "failed")
    <2>1. "failed" \in {"failed", "aborted", "complete"} /\ "failed" # "complete"
      OBVIOUS
    <2>2. QED BY <1>2, <1>4, <2>1, OverIsSound
  <1>5. CASE d = _fillMissingBlocksWorker(e, FALSE)
    <2> DEFINE first == FALSE
    <2>1. first \in BOOLEAN /\ ~first /\ d = _fillMissingBlocksWorker(e, first)
      BY <1>5
    <2> HIDE DEF first
    <2>2. Sound(c, k) /\ k.apart => Filling(c, k)
      BY DEF Sound
    <2>3. Sound(c, k) /\ k.apart =>
            /\ k.open
            /\ \A b \in Blocks : b \in e.written <=> ~InHole(e.missing, b)
            /\ \A i \in DOMAIN k.requests :
                 k.requests[i].op = "read" /\ k.requests[i].offset < FileSize
      BY <1>2, <2>2 DEF Filling
    <2>4. QED BY <1>2, <2>1, <2>3, FillAsksSound
  <1>6. QED BY <1>3, <1>4, <1>5

\* The block asked for has come.
LEMMA FilledIsSound ==
  ASSUME NEW c, NEW k, NEW d, NEW l, Stepping(c, k, d, l), c.stage = "fill",
         NEW r \in GoodReplies, r.kind = "ack", r.op = "read", r.offset = c.offset,
         d = _fillMissingBlocksWorker(
               [Stopped(c) EXCEPT !.written = @ \cup {r.offset},
                                  !.bytesWritten = @ + 1, !.missing = Filled(c)],
               TRUE)
  PROVE  Sound(d, l)
  <1> DEFINE rest == Filled(c)
             all == c.written \cup {r.offset}
             sum == c.bytesWritten + 1
             e == [Stopped(c) EXCEPT !.written = all, !.bytesWritten = sum, !.missing = rest]
             first == TRUE
  <1>1. /\ c \in Clients /\ c.missing # <<>> /\ c.offset = c.missing[1].offset
        /\ c.signal = "none"
    BY DEF Stepping, Good
  <1>2. PICK end \in 0 .. FileSize : Accounted(c, end)
    BY DEF Stepping, Good
  <1>3. /\ rest \in Seq(Holed)
        /\ \A b \in Blocks : InHole(rest, b) <=> InHole(c.missing, b) /\ b # c.missing[1].offset
    <2>1. c.missing \in Seq(Holed) /\ Apart(c.missing, end)
      BY <1>1, <1>2, ClientFields DEF Accounted
    <2>2. QED BY <1>1, <2>1, HoleFilled
  <1>4. r.offset \in Blocks
    BY DEF GoodReplies, Replies, Blocks
  <1>5. all \in SUBSET Blocks /\ sum \in Nat
    BY <1>1, <1>4, ClientFields
  <1>6. d = _fillMissingBlocksWorker(e, first) /\ first \in BOOLEAN /\ first
    <2>1. Stopped(c) = [c EXCEPT !.timer = FALSE]
      BY DEF Stopped
    <2>2. Stopped(c).written = c.written /\ Stopped(c).bytesWritten = c.bytesWritten
      BY <1>1, <2>1 DEF Clients
    <2>3. QED BY <2>2
  <1>7. \A b \in Blocks : b \in all <=> b \in c.written \/ b = c.missing[1].offset
    BY <1>1
  <1> HIDE DEF rest, all, sum
  <1>8. /\ e \in Clients /\ e.expected = c.expected /\ e.unsent = c.unsent /\ e.out = c.out
        /\ e.stage = "fill" /\ e.signal = "none" /\ e.written = all /\ e.missing = rest
    BY <1>1, <1>3, <1>5 DEF Stopped, Clients
  <1> HIDE DEF e, first
  <1>9. Sound(c, k) /\ k.apart => Filling(c, k)
    BY DEF Sound
  <1>10. Sound(c, k) /\ k.apart =>
           /\ k.open
           /\ \A b \in Blocks : b \in e.written <=> ~InHole(e.missing, b)
           /\ \A i \in DOMAIN k.requests :
                k.requests[i].op = "read" /\ k.requests[i].offset < FileSize
    <2>1. ASSUME Filling(c, k), NEW b \in Blocks
          PROVE  b \in e.written <=> ~InHole(e.missing, b)
      <3>1. b \in c.written <=> ~InHole(c.missing, b)
        BY <2>1 DEF Filling
      <3>2. QED BY <1>3, <1>7, <1>8, <3>1
    <2>2. Filling(c, k) =>
            /\ k.open
            /\ \A i \in DOMAIN k.requests :
                 k.requests[i].op = "read" /\ k.requests[i].offset < FileSize
      BY DEF Filling
    <2>3. QED BY <1>9, <2>1, <2>2
  <1>11. QED BY <1>6, <1>8, <1>10, FillAsksSound

\* Any answer while holes are filled.
LEMMA FillIsSound ==
  ASSUME BurstFits, NEW c, NEW k, NEW d, NEW l, Stepping(c, k, d, l), c.stage = "fill",
         NEW r \in k.arriving, d = _fillMissingBlocksAckOrNak(c, r)
  PROVE  Sound(d, l)
  <1>1. c \in Clients /\ k \in Channels /\ c.signal = "none"
    BY DEF Stepping, Good
  <1>2. r \in GoodReplies /\ r \in Pending(k)
    BY <1>1, PacketsAre
  <1>3. CASE ~Expected(c, r, "read")
    BY <1>3, IdleIsSound DEF _fillMissingBlocksAckOrNak
  <1>4. CASE Expected(c, r, "read") /\ r.kind = "ack" /\ r.offset # c.offset
    BY <1>4, FillAgainIsSound DEF _fillMissingBlocksAckOrNak
  <1>5. CASE Expected(c, r, "read") /\ r.kind = "ack" /\ r.offset = c.offset
    <2>1. d = _fillMissingBlocksWorker(
               [Stopped(c) EXCEPT !.written = @ \cup {r.offset},
                                  !.bytesWritten = @ + 1, !.missing = Filled(c)],
               TRUE)
      BY <1>5 DEF _fillMissingBlocksAckOrNak
    <2>2. r.op = "read"
      BY <1>5 DEF Expected
    <2>3. QED BY <1>2, <1>5, <2>1, <2>2, FilledIsSound
  <1>6. CASE Expected(c, r, "read") /\ r.kind = "eof" /\ Whole(c)
    <2> DEFINE e == Stopped(c)
    <2>1. d = _resetSessionsBegin(e)
      BY <1>6 DEF _fillMissingBlocksAckOrNak
    <2>2. Sound(c, k) /\ k.apart => FALSE
      BY <1>2, <1>6 DEF Sound, Filling, Expected
    <2>3. e \in Clients /\ e.expected = c.expected /\ e.unsent = c.unsent /\ e.signal = "none"
      BY <1>1 DEF Stopped, Clients
    <2> HIDE DEF e
    <2>4. QED BY <2>1, <2>2, <2>3, EndBeginsSound
  <1>7. CASE Expected(c, r, "read") /\ r.kind # "ack" /\ ~(r.kind = "eof" /\ Whole(c))
    <2>1. d = _downloadComplete(c, "failed")
      BY <1>7 DEF _fillMissingBlocksAckOrNak
    <2>2. "failed" \in {"failed", "aborted", "complete"} /\ "failed" # "complete"
      OBVIOUS
    <2>3. QED BY <1>1, <2>1, <2>2, OverIsSound
  <1>8. QED BY <1>3, <1>4, <1>5, <1>6, <1>7

\* Stopping the timer.
LEMMA StoppedFields ==
  ASSUME NEW c \in Clients
  PROVE  /\ Stopped(c) \in Clients /\ Stopped(c).expected = c.expected
         /\ Stopped(c).unsent = c.unsent /\ Stopped(c).out = c.out
         /\ Stopped(c).offset = c.offset /\ Stopped(c).stage = c.stage
         /\ Stopped(c).signal = c.signal /\ Stopped(c).written = c.written
         /\ Stopped(c).missing = c.missing /\ Stopped(c).wrapped = c.wrapped
  BY DEF Stopped, Clients

\* The file is open: its first burst is asked for.
LEMMA OpenIsSound ==
  ASSUME BurstFits, NEW c, NEW k, NEW d, NEW l, Stepping(c, k, d, l), c.stage = "open",
         NEW r \in k.arriving, d = _openFileROAckOrNak(c, r)
  PROVE  Sound(d, l)
  <1>1. c \in Clients /\ k \in Channels /\ c.signal = "none" /\ ~d.unsent /\ ~d.wrapped
    BY DEF Stepping, Good, FirstHalf
  <1>2. CASE ~Expected(c, r, "open")
    BY <1>2, IdleIsSound DEF _openFileROAckOrNak
  <1>3. CASE Expected(c, r, "open") /\ r.kind = "ack"
    <2> DEFINE s == Stopped(c)
               size == FileSize
               zero == 0
               empty == {}
               e == [s EXCEPT !.fileSize = size, !.offset = zero, !.written = empty]
               f == [e EXCEPT !.stage = "burst"]
               first == TRUE
    <2>1. /\ s \in Clients /\ s.expected = c.expected /\ s.unsent = c.unsent
          /\ s.signal = "none"
      BY <1>1, StoppedFields
    <2>2. size \in {0, FileSize} /\ zero \in 0 .. FileSize /\ empty \in SUBSET Blocks
      BY ConstantsAre
    <2>3. d = _burstReadFileWorker(f, first) /\ first \in BOOLEAN /\ first
      BY <1>3 DEF _openFileROAckOrNak, _burstReadFileBegin
    <2> HIDE DEF s, size, zero, empty
    <2>4. e \in Clients /\ e.expected = c.expected /\ e.unsent = c.unsent /\ e.signal = "none"
      BY <2>1, <2>2 DEF Clients
    <2> HIDE DEF e
    <2>5. /\ f \in Clients /\ f.stage = "burst" /\ f.expected = c.expected
          /\ f.unsent = c.unsent /\ f.signal = "none"
      BY <2>4 DEF Clients
    <2> HIDE DEF f, first
    <2>6. d.expected = c.expected + 2
      <3>1. d.expected = f.expected + (IF first THEN 2 ELSE 0)
        BY <1>1, <2>3, <2>5, BurstIsAsked
      <3>2. QED BY <2>3, <2>5, <3>1
    <2>7. c.expected <= d.expected
      BY <1>1, <2>6, ClientFields
    <2>8. r \in Pending(k) /\ r.op = "open" /\ r.seq = c.expected
      BY <1>1, <1>3, PacketsAre DEF Expected
    <2>9. Sound(c, k) => k.requests = <<>> /\ k.last = {r} /\ k.open
      BY <1>3, <2>8 DEF Sound, Opening
    <2>10. Sound(c, k) /\ k.apart =>
             /\ k.open /\ \A i \in DOMAIN k.requests : k.requests[i].op = "burst"
             /\ \A p \in k.last : p.op = "burst" /\ p.seq >= d.expected =>
                  /\ p.seq - p.offset = d.expected - f.offset
                  /\ p.kind = "eof" => p.offset = FileSize
      BY <2>8, <2>9
    <2>11. QED BY <2>3, <2>5, <2>7, <2>10, BurstAsksSound
  <1>4. CASE Expected(c, r, "open") /\ r.kind # "ack"
    <2>1. d = _downloadComplete(c, "failed")
      BY <1>4 DEF _openFileROAckOrNak
    <2>2. "failed" \in {"failed", "aborted", "complete"} /\ "failed" # "complete"
      OBVIOUS
    <2>3. QED BY <1>1, <2>1, <2>2, OverIsSound
  <1>5. QED BY <1>2, <1>3, <1>4

\* While bursts are read, what is waited for if no two have overlapped.
LEMMA BurstingIs ==
  ASSUME NEW c, NEW k, c.stage = "burst", Sound(c, k), k.apart
  PROVE  Bursting(c, k)
  BY DEF Sound

\* The next burst after one that has ended short, by its last packet or by the end of the file.
LEMMA NextBurstIsSound ==
  ASSUME BurstFits, NEW c, NEW k, NEW d, NEW l, Stepping(c, k, d, l), c.stage = "burst",
         NEW r \in k.arriving, ~Old(c, r), r.op = "burst", r.last \/ r.kind = "eof",
         NEW e \in Clients, e.stage = "burst", e.signal = "none", e.unsent = c.unsent,
         e.expected = r.seq, d = _burstReadFileWorker(e, TRUE)
  PROVE  Sound(d, l)
  <1> DEFINE first == TRUE
  <1>1. c \in Clients /\ k \in Channels /\ ~d.unsent /\ ~d.wrapped
    BY DEF Stepping, Good, FirstHalf
  <1>2. d = _burstReadFileWorker(e, first) /\ first \in BOOLEAN /\ first
    OBVIOUS
  <1> HIDE DEF first
  <1>3. d.expected = r.seq + 2 /\ ~c.unsent
    <2>1. d.expected = e.expected + (IF first THEN 2 ELSE 0)
          /\ Asks(e, d, "burst", e.offset)
      BY <1>1, <1>2, BurstIsAsked
    <2>2. QED BY <1>2, <2>1 DEF Asks
  <1>4. Sound(c, k)
    BY <1>3 DEF Stepping
  <1>5. c.expected \in Int /\ r.seq \in Int /\ c.expected <= r.seq
    BY <1>1, <1>4, Heeded DEF Stepping
  <1>6. c.expected <= d.expected
    <2>1. \A m, n \in Int : m <= n => m <= n + 2
      OBVIOUS
    <2>2. QED BY <1>3, <1>5, <2>1
  <1>7. k.apart =>
          /\ k.open /\ \A i \in DOMAIN k.requests : k.requests[i].op = "burst"
          /\ \A p \in k.last : p.op = "burst" => ~(p.seq >= d.expected)
    <2>1. ASSUME k.apart
          PROVE  /\ k.open /\ \A i \in DOMAIN k.requests : k.requests[i].op = "burst"
                 /\ \A p \in k.last : p.op = "burst" => p.seq <= r.seq + 1
      <3>1. Bursting(c, k)
        BY <1>4, <2>1, BurstingIs
      <3>2. r.seq >= c.expected
        BY <1>5
      <3>3. \A p \in k.last : p.op = "burst" => p.seq <= r.seq + 1
        BY <3>1, <3>2 DEF Bursting
      <3>4. QED BY <3>1, <3>3 DEF Bursting
    <2>2. \A p \in k.last : p.seq \in Int
      BY <1>1, PacketsAre
    <2>3. \A p \in k.last : p.seq <= r.seq + 1 => ~(p.seq >= d.expected)
      <3>1. \A m, n \in Int : m <= n + 1 => ~(m >= n + 2)
        OBVIOUS
      <3>2. QED BY <1>3, <1>5, <2>2, <3>1
    <2>4. QED BY <2>1, <2>3
  <1>8. QED BY <1>2, <1>6, <1>7, BurstAsksSound

\* A packet of a burst that is not its last one.
LEMMA BurstGoesOn ==
  ASSUME BurstFits, NEW c, NEW k, NEW d, NEW l, Stepping(c, k, d, l), c.stage = "burst",
         NEW r \in k.arriving, ~Old(c, r), r.op = "burst",
         d.stage = "burst", d.signal = "none", d.unsent = c.unsent, d.out = <<>>,
         d.offset = r.offset + 1, d.expected = (r.seq + 1) % SeqModulus
  PROVE  Sound(d, l)
  <1>1. c \in Clients /\ k \in Channels /\ d \in Clients /\ Follows(k, d, l) /\ FirstHalf(c)
        /\ c.offset \in Int
    BY ClientFields DEF Stepping, Good
  <1>2. Sound(c, k)
    BY DEF Stepping
  <1>3. /\ r \in Pending(k) /\ r.offset \in Int
        /\ c.expected \in Int /\ r.seq \in Int /\ c.expected <= r.seq
        /\ d.expected = r.seq + 1
    BY <1>1, <1>2, Heeded
  <1>4. c.expected <= d.expected
    BY <1>3
  <1>5. /\ OneReply(l) /\ Numbered(d, l)
        /\ \A p \in Pending(l) : p.op = "list" =>
             /\ p.kind = "ack" => p.offset < DirectorySize
             /\ p.kind = "eof" => p.offset >= DirectorySize
    BY <1>1, <1>2, <1>4, NumbersKept
  <1>6. /\ l.requests = k.requests /\ Pending(l) \subseteq Pending(k)
        /\ l.arriving \subseteq k.arriving /\ l.last = k.last /\ l.open = k.open
        /\ (l.apart => k.apart)
    BY <1>1, NothingSent DEF Follows
  <1>7. ASSUME k.apart PROVE Bursting(d, l)
    <2>1. Bursting(c, k)
      BY <1>2, <1>7, BurstingIs
    <2>2. r.seq >= c.expected /\ ~(r.seq < c.expected)
      BY <1>3
    <2>3. r.seq - r.offset = c.expected - c.offset
      BY <1>3, <2>1, <2>2 DEF Bursting
    <2>4. k.requests = <<>>
      BY <2>1, <2>2 DEF Bursting
    <2>5. \A p \in Pending(k) : p.seq \in Int /\ p.offset \in Int
      BY <1>1, PacketsAre
    <2>6. \A p \in Pending(k) : p.seq >= d.expected => p.seq >= c.expected
      BY <1>3, <2>5
    <2>7. d.expected - d.offset = c.expected - c.offset
      <3>1. \A m, n \in Int : (m + 1) - (n + 1) = m - n
        OBVIOUS
      <3>2. d.expected - d.offset = (r.seq + 1) - (r.offset + 1)
        BY <1>3
      <3>3. QED BY <1>3, <2>3, <3>1, <3>2
    <2>8. \A p \in Pending(l) : p.op = "burst" /\ p.seq >= d.expected =>
            /\ p.seq - p.offset = d.expected - d.offset
            /\ p.kind = "eof" => p.offset = FileSize
      BY <1>6, <2>1, <2>6, <2>7 DEF Bursting
    <2>9. \A p \in l.arriving, q \in l.last :
            /\ p.op = "burst" /\ q.op = "burst" /\ p.seq >= d.expected
            /\ p.last \/ p.kind = "eof"
            => q.seq <= p.seq + 1
      <3>1. \A p \in l.arriving : p \in k.arriving /\ p \in Pending(k)
        BY <1>6 DEF Pending
      <3>2. QED BY <1>6, <2>1, <2>6, <3>1 DEF Bursting
    <2>10. l.open /\ Len(l.requests) <= 1 /\ l.requests = <<>>
      BY <1>6, <2>1, <2>4 DEF Bursting
    <2>11. QED BY <2>8, <2>9, <2>10 DEF Bursting
  <1>8. QED BY <1>5, <1>6, <1>7 DEF Sound, Listing, Opening, Filling, Done

\* A packet of a burst.
LEMMA BurstPacketIsSound ==
  ASSUME BurstFits, NEW c, NEW k, NEW d, NEW l, Stepping(c, k, d, l), c.stage = "burst",
         NEW r \in k.arriving, ~Old(c, r), r.op = "burst", r.kind = "ack",
         ~(r.offset < c.offset), d = BurstPacket(Stopped(c), r)
  PROVE  Sound(d, l)
  <1> DEFINE s == Stopped(c)
             m == [s EXCEPT !.missing = MissingTo(s, r.offset),
                            !.written = s.written \cup {r.offset},
                            !.bytesWritten = s.bytesWritten + 1, !.offset = r.offset + 1]
             n == (r.seq + 1) % SeqModulus
             e == [m EXCEPT !.expected = r.seq]
             f == [m EXCEPT !.expected = n, !.timer = TRUE]
  <1>1. c \in Clients /\ Good(c) /\ k \in Channels /\ c.signal = "none" /\ c.out = <<>>
    BY DEF Stepping, Good
  <1>2. /\ s.expected = c.expected /\ s.unsent = c.unsent /\ s.out = c.out
        /\ s.offset = c.offset /\ Heeds(s, "burst")
    <2>1. Good(s) /\ s.signal = "none"
      BY <1>1, StoppedIs
    <2>2. QED BY <1>1, <2>1, StoppedFields DEF Heeds
  <1>3. r \in GoodReplies /\ r.seq \in 0 .. SeqModulus - 1 /\ n \in 0 .. SeqModulus - 1
        /\ r.offset >= s.offset
    <2>1. /\ r \in GoodReplies /\ r.seq \in 0 .. SeqModulus - 1
          /\ r.offset \in Nat /\ r.seq + 1 \in Int
      BY <1>1, PacketsAre
    <2>2. c.offset \in Int
      BY <1>1, ClientFields
    <2>3. n \in 0 .. SeqModulus - 1
      BY <2>1, NumberWraps
    <2>4. r.offset >= s.offset
      BY <1>2, <2>1, <2>2
    <2>5. QED BY <2>1, <2>3, <2>4
  <1>4. d = IF r.last THEN _burstReadFileWorker(e, TRUE) ELSE f
    BY DEF BurstPacket
  <1> HIDE DEF s
  <1>5. /\ m \in Clients /\ m.stage = "burst" /\ m.signal = "none" /\ m.offset = r.offset + 1
        /\ m.expected = s.expected /\ m.unsent = s.unsent /\ m.out = s.out
    <2> DEFINE more == MissingTo(s, r.offset)
               all == s.written \cup {r.offset}
               sum == s.bytesWritten + 1
               at == r.offset + 1
               p == [s EXCEPT !.missing = more, !.offset = at]
    <2>1. s \in Clients /\ s.stage = "burst" /\ s.signal = "none"
      BY <1>2 DEF Heeds, Good
    <2>2. r.offset \in Blocks /\ at \in 0 .. FileSize /\ at = r.offset + 1
      BY <1>3 DEF GoodReplies, Replies, Blocks
    <2>3. all \in SUBSET Blocks /\ sum \in Nat /\ more \in Seq(Holed)
      BY <1>2, <1>3, <2>1, <2>2, ClientFields, PassedOver
    <2>4. m = [s EXCEPT !.missing = more, !.written = all, !.bytesWritten = sum, !.offset = at]
      OBVIOUS
    <2> HIDE DEF more, all, sum, at, m
    <2>5. /\ p \in Clients /\ p.stage = s.stage /\ p.signal = s.signal /\ p.offset = at
          /\ p.expected = s.expected /\ p.unsent = s.unsent /\ p.out = s.out
      BY <2>1, <2>2, <2>3 DEF Clients
    <2>6. m = [p EXCEPT !.written = all, !.bytesWritten = sum]
      BY <2>1, <2>4 DEF Clients
    <2> HIDE DEF p
    <2>7. /\ m \in Clients /\ m.stage = p.stage /\ m.signal = p.signal /\ m.offset = p.offset
          /\ m.expected = p.expected /\ m.unsent = p.unsent /\ m.out = p.out
      BY <2>3, <2>5, <2>6 DEF Clients
    <2>8. QED BY <2>1, <2>2, <2>5, <2>7
  <1> HIDE DEF m
  <1>6. CASE r.last
    <2>1. e \in Clients /\ e.stage = "burst" /\ e.signal = "none" /\ e.unsent = c.unsent
          /\ e.expected = r.seq
      BY <1>2, <1>3, <1>5 DEF Clients
    <2>2. d = _burstReadFileWorker(e, TRUE)
      BY <1>4, <1>6
    <2> HIDE DEF e
    <2>3. QED BY <1>6, <2>1, <2>2, NextBurstIsSound
  <1>7. CASE ~r.last
    <2>1. d = f
      BY <1>4, <1>7
    <2>2. n = (r.seq + 1) % SeqModulus
      OBVIOUS
    <2> HIDE DEF n
    <2>3. /\ f.stage = m.stage /\ f.signal = m.signal /\ f.unsent = m.unsent
          /\ f.out = m.out /\ f.offset = m.offset /\ f.expected = n
      BY <1>5 DEF Clients
    <2> HIDE DEF f
    <2>4. /\ d.stage = "burst" /\ d.signal = "none" /\ d.unsent = c.unsent /\ d.out = <<>>
          /\ d.offset = r.offset + 1 /\ d.expected = (r.seq + 1) % SeqModulus
      BY <1>1, <1>2, <1>5, <2>1, <2>2, <2>3
    <2>5. QED BY <2>4, BurstGoesOn
  <1>8. QED BY <1>6, <1>7

\* The end of the file.
LEMMA BurstEndIsSound ==
  ASSUME BurstFits, NEW c, NEW k, NEW d, NEW l, Stepping(c, k, d, l), c.stage = "burst",
         NEW r \in k.arriving, ~Old(c, r), r.op = "burst", r.kind = "eof",
         d = BurstEnd(Stopped(c), r)
  PROVE  Sound(d, l)
  <1> DEFINE s == Stopped(c)
  <1>1. c \in Clients /\ Good(c) /\ k \in Channels /\ c.signal = "none"
    BY DEF Stepping, Good
  <1>2. /\ s \in Clients /\ s.expected = c.expected /\ s.unsent = c.unsent /\ s.out = c.out
        /\ s.written = c.written /\ s.missing = c.missing
        /\ s.signal = "none" /\ s.stage = "burst"
    BY <1>1, StoppedFields
  <1>3. r \in Pending(k) /\ r.seq \in 0 .. SeqModulus - 1 /\ r.offset \in Nat
    BY <1>1, PacketsAre
  <1> HIDE DEF s
  <1>4. CASE r.seq # c.expected
    <2> DEFINE e == [s EXCEPT !.expected = r.seq]
    <2>1. e \in Clients /\ e.stage = "burst" /\ e.signal = "none" /\ e.unsent = c.unsent
          /\ e.expected = r.seq
      BY <1>2, <1>3 DEF Clients
    <2>2. d = _burstReadFileWorker(e, TRUE)
      BY <1>2, <1>4 DEF BurstEnd, s
    <2> HIDE DEF e
    <2>3. QED BY <2>1, <2>2, NextBurstIsSound
  <1>5. CASE r.seq = c.expected
    <2> DEFINE fill == "fill"
               first == TRUE
               e == [s EXCEPT !.stage = fill]
    <2>1. d = _fillMissingBlocksWorker(e, first) /\ first \in BOOLEAN /\ first /\ fill = "fill"
      BY <1>2, <1>5 DEF BurstEnd, _fillMissingBlocksBegin, s
    <2> HIDE DEF fill, first
    <2>2. /\ e \in Clients /\ e.stage = "fill" /\ e.expected = c.expected
          /\ e.unsent = c.unsent /\ e.out = c.out
          /\ e.written = c.written /\ e.missing = c.missing /\ e.signal = "none"
      BY <1>2, <2>1 DEF Clients
    <2> HIDE DEF e
    <2>3. ASSUME Sound(c, k), k.apart
          PROVE  /\ k.open /\ k.requests = <<>>
                 /\ \A b \in Blocks : b \in c.written <=> ~InHole(c.missing, b)
      <3>1. Bursting(c, k)
        BY <2>3, BurstingIs
      <3>2. c.expected \in Int /\ c.offset \in Int
        BY <1>1, ClientFields
      <3>3. r.seq >= c.expected /\ ~(r.seq < c.expected)
        BY <1>5, <3>2
      <3>4. k.open /\ k.requests = <<>> /\ r.seq - r.offset = c.expected - c.offset
            /\ r.offset = FileSize
        BY <1>3, <3>1, <3>3 DEF Bursting
      <3>5. c.offset = FileSize
        <4>1. \A n, x, y \in Int : n - x = n - y => x = y
          OBVIOUS
        <4>2. QED BY <1>3, <1>5, <3>2, <3>4, <4>1
      <3>6. Accounted(c, c.offset)
        BY <1>1 DEF Good
      <3>7. \A b \in Blocks : b < c.offset
        BY <3>5 DEF Blocks
      <3>8. \A b \in Blocks : b \in c.written <=> ~InHole(c.missing, b)
        BY <3>6, <3>7 DEF Accounted
      <3>9. QED BY <3>4, <3>8
    <2>4. Sound(c, k) /\ k.apart =>
            /\ k.open
            /\ \A b \in Blocks : b \in e.written <=> ~InHole(e.missing, b)
            /\ \A i \in DOMAIN k.requests :
                 k.requests[i].op = "read" /\ k.requests[i].offset < FileSize
      BY <2>2, <2>3
    <2>5. QED BY <2>1, <2>2, <2>4, FillAsksSound
  <1>6. QED BY <1>4, <1>5

\* Any answer while bursts are read.
LEMMA BurstIsSound ==
  ASSUME BurstFits, NEW c, NEW k, NEW d, NEW l, Stepping(c, k, d, l), c.stage = "burst",
         NEW r \in k.arriving, ~Old(c, r), d = _burstReadFileAckOrNak(c, r)
  PROVE  Sound(d, l)
  <1>1. CASE r.op # "burst" \/ (r.kind = "ack" /\ (r.seq < c.expected \/ r.offset < c.offset))
    BY <1>1, IdleIsSound DEF _burstReadFileAckOrNak
  <1>2. CASE r.op = "burst" /\ r.kind = "ack" /\ ~(r.seq < c.expected) /\ ~(r.offset < c.offset)
    BY <1>2, BurstPacketIsSound DEF _burstReadFileAckOrNak
  <1>3. CASE r.op = "burst" /\ r.kind = "eof"
    BY <1>3, BurstEndIsSound DEF _burstReadFileAckOrNak
  <1>4. CASE r.op = "burst" /\ r.kind # "ack" /\ r.kind # "eof"
    <2>1. d = _downloadComplete(c, "failed")
      BY <1>4 DEF _burstReadFileAckOrNak
    <2>2. "failed" \in {"failed", "aborted", "complete"} /\ "failed" # "complete"
      OBVIOUS
    <2>3. c \in Clients
      BY DEF Stepping, Good
    <2>4. QED BY <2>1, <2>2, <2>3, OverIsSound
  <1>5. QED BY <1>1, <1>2, <1>3, <1>4

\* A burst's time-out.
LEMMA BurstAgainIsSound ==
  ASSUME BurstFits, NEW c, NEW k, NEW d, NEW l, Stepping(c, k, d, l), c.stage = "burst",
         d = BurstAgain(Stopped(c))
  PROVE  Sound(d, l)
  <1> DEFINE e == [Stopped(c) EXCEPT !.retryCount = @ + 1]
  <1>1. c \in Clients /\ c.retryCount <= MaxRetry /\ ~d.unsent /\ ~d.wrapped
    BY DEF Stepping, Good, FirstHalf
  <1>2. /\ e \in Clients /\ e.expected = c.expected /\ e.unsent = c.unsent /\ e.out = c.out
        /\ e.stage = "burst" /\ e.signal = "none" /\ e.offset = c.offset
    <2>1. c.retryCount + 1 \in 0 .. MaxRetry + 1
      BY <1>1, ClientFields
    <2>2. QED BY <1>1, <2>1 DEF Stopped, Clients, Stepping
  <1>3. d = IF e.retryCount > MaxRetry THEN _downloadComplete(e, "failed")
            ELSE _burstReadFileWorker(e, FALSE)
    BY DEF BurstAgain
  <1> HIDE DEF e
  <1>4. CASE d = _downloadComplete(e, "failed")
    <2>1. "failed" \in {"failed", "aborted", "complete"} /\ "failed" # "complete"
      OBVIOUS
    <2>2. QED BY <1>2, <1>4, <2>1, OverIsSound
  <1>5. CASE d = _burstReadFileWorker(e, FALSE)
    <2> DEFINE first == FALSE
    <2>1. first \in BOOLEAN /\ ~first /\ d = _burstReadFileWorker(e, first)
      BY <1>5
    <2> HIDE DEF first
    <2>2. d.expected = c.expected /\ c.expected <= d.expected
      <3>1. d.expected = e.expected + (IF first THEN 2 ELSE 0)
        BY <1>1, <1>2, <2>1, BurstIsAsked
      <3>2. c.expected \in Int /\ c.expected + 0 = c.expected
        BY <1>1, ClientFields
      <3>3. QED BY <1>2, <2>1, <3>1, <3>2
    <2>3. ASSUME Sound(c, k), k.apart
          PROVE  /\ k.open /\ \A i \in DOMAIN k.requests : k.requests[i].op = "burst"
                 /\ \A p \in k.last : p.op = "burst" /\ p.seq >= d.expected =>
                      /\ p.seq - p.offset = d.expected - e.offset
                      /\ p.kind = "eof" => p.offset = FileSize
      <3>1. Bursting(c, k)
        BY <2>3, BurstingIs
      <3>2. k.open /\ \A i \in DOMAIN k.requests : k.requests[i].op = "burst"
        BY <3>1 DEF Bursting
      <3>3. \A p \in k.last : p.op = "burst" /\ p.seq >= c.expected =>
              /\ p.seq - p.offset = c.expected - c.offset
              /\ p.kind = "eof" => p.offset = FileSize
        BY <3>1 DEF Bursting, Pending
      <3>4. QED BY <1>2, <2>2, <3>2, <3>3
    <2>4. QED BY <1>2, <2>1, <2>2, <2>3, BurstAsksSound
  <1>6. QED BY <1>3, <1>4, <1>5

-----------------------------------------------------------------------------
(* The client's steps.                                                     *)

\* Any reply.
LEMMA ReplyIsSound ==
  ASSUME BurstFits, NEW c, NEW k, NEW d, NEW l, Stepping(c, k, d, l),
         NEW r \in k.arriving, d = _mavlinkMessageReceived(c, r)
  PROVE  Sound(d, l)
  <1>1. c.stage \in {"none", "open", "burst", "fill", "reset", "terminate", "list"}
    BY DEF Stepping, Good, Clients
  <1>2. CASE c.stage = "none" \/ Old(c, r)
    BY <1>2, IdleIsSound DEF _mavlinkMessageReceived
  <1>3. CASE c.stage # "none" /\ ~Old(c, r)
    <2>1. d = AckOrNak(c, r)
      BY <1>3 DEF _mavlinkMessageReceived
    <2>2. CASE c.stage = "open"
      BY <1>3, <2>1, <2>2, OpenIsSound DEF AckOrNak
    <2>3. CASE c.stage = "burst"
      BY <1>3, <2>1, <2>3, BurstIsSound DEF AckOrNak
    <2>4. CASE c.stage = "fill"
      BY <1>3, <2>1, <2>4, FillIsSound DEF AckOrNak
    <2>5. CASE c.stage = "reset"
      BY <1>3, <2>1, <2>5, ResetIsSound DEF AckOrNak, _resetSessionsAckOrNak
    <2>6. CASE c.stage = "terminate"
      BY <1>3, <2>1, <2>6, TerminateIsSound DEF AckOrNak, _terminateSessionAckOrNak
    <2>7. CASE c.stage = "list"
      BY <1>3, <2>1, <2>7, ListIsSound DEF AckOrNak
    <2>8. QED BY <1>1, <1>3, <2>2, <2>3, <2>4, <2>5, <2>6, <2>7
  <1>4. QED BY <1>2, <1>3

\* Any time-out.
LEMMA TimeoutIsSound ==
  ASSUME BurstFits, NEW c, NEW k, NEW d, NEW l, Stepping(c, k, d, l), c.timer,
         d = _ackOrNakTimeout(c)
  PROVE  Sound(d, l)
  <1>1. c.stage \in {"open", "burst", "fill", "reset", "terminate", "list"} /\ c \in Clients
    BY DEF Stepping, Good, Clients
  <1>2. CASE c.stage = "open"
    <2>1. d = _downloadComplete(c, "failed")
      BY <1>2 DEF _ackOrNakTimeout
    <2>2. "failed" \in {"failed", "aborted", "complete"} /\ "failed" # "complete"
      OBVIOUS
    <2>3. QED BY <1>1, <2>1, <2>2, OverIsSound
  <1>3. CASE c.stage = "burst"
    BY <1>3, BurstAgainIsSound DEF _ackOrNakTimeout
  <1>4. CASE c.stage = "fill"
    BY <1>4, FillAgainIsSound DEF _ackOrNakTimeout
  <1>5. CASE c.stage = "reset"
    BY <1>5, ResetIsSound DEF _ackOrNakTimeout
  <1>6. CASE c.stage = "terminate"
    BY <1>6, TerminateIsSound DEF _ackOrNakTimeout
  <1>7. CASE c.stage = "list"
    BY <1>7, ListAgainIsSound DEF _ackOrNakTimeout
  <1>8. QED BY <1>1, <1>2, <1>3, <1>4, <1>5, <1>6, <1>7

-----------------------------------------------------------------------------
(* The server's steps.                                                     *)

\* The first packet is taken from a queue.
LEMMA QueueTaken ==
  ASSUME NEW k \in Channels, k.requests # <<>>, NEW rest, rest = Tail(k.requests)
  PROVE  /\ Head(k.requests) \in Requests /\ 1 \in DOMAIN k.requests
         /\ Head(k.requests) = k.requests[1]
         /\ Len(k.requests) = Len(rest) + 1 /\ Len(rest) \in Nat
         /\ \A i \in DOMAIN rest :
              /\ i \in 1 .. Len(rest)
              /\ i + 1 \in DOMAIN k.requests /\ rest[i] = k.requests[i + 1]
  <1>1. k.requests \in Seq(Requests)
    BY PacketsAre
  <1>2. QED BY <1>1

\* A request that is lost, or answered again with the reply that is kept.
LEMMA TakenIsSound ==
  ASSUME NEW k \in Channels, k.requests # <<>>, NEW c, c.expected \in Int, Sound(c, k), NEW l,
         l.requests = Tail(k.requests), l.arriving \subseteq Pending(k),
         l.last \subseteq k.last, l.open = k.open, l.apart => k.apart
  PROVE  Sound(c, l)
  <1> DEFINE rest == Tail(k.requests)
  <1>1. /\ l.requests = rest /\ Len(k.requests) = Len(rest) + 1 /\ Len(rest) \in Nat
        /\ 1 \in DOMAIN k.requests
        /\ \A i \in DOMAIN rest :
             /\ i \in 1 .. Len(rest)
             /\ i + 1 \in DOMAIN k.requests /\ rest[i] = k.requests[i + 1]
    BY QueueTaken
  <1> HIDE DEF rest
  <1>2. Pending(l) \subseteq Pending(k)
    BY DEF Pending
  <1>3. OneReply(l) /\ Numbered(c, l)
    BY <1>1, <1>2 DEF Sound, OneReply, Numbered
  <1>4. Listing(c, l)
    BY <1>1, <1>2 DEF Sound, Listing
  <1>5. Opening(c, l)
    <2> SUFFICES ASSUME c.stage = "open" PROVE Opening(c, l)
      BY DEF Opening
    <2>1. Opening(c, k)
      BY DEF Sound
    <2>2. \A i \in DOMAIN l.requests :
            l.requests[i].seq = c.expected - 1 => i = Len(l.requests)
      <3>1. ASSUME NEW i \in DOMAIN rest, rest[i].seq = c.expected - 1 PROVE i = Len(rest)
        <4>1. i + 1 = Len(k.requests) /\ i \in Int
          BY <1>1, <2>1, <3>1 DEF Opening
        <4>2. QED BY <1>1, <4>1
      <3>2. QED BY <1>1, <3>1
    <2>3. \A r \in Pending(l) : ~(r.op = "open" /\ r.seq = c.expected)
      BY <1>2, <2>1 DEF Opening
    <2>4. QED BY <2>2, <2>3 DEF Opening
  <1>6. ASSUME k.apart PROVE Bursting(c, l)
    <2> SUFFICES ASSUME c.stage = "burst" PROVE Bursting(c, l)
      BY DEF Bursting
    <2>1. Bursting(c, k) /\ OneReply(k)
      BY <1>6 DEF Sound
    <2>2. l.open /\ Len(rest) = 0
      BY <1>1, <2>1 DEF Bursting
    <2>3. l.requests = <<>>
      <3>1. k.requests \in Seq(Requests)
        BY PacketsAre
      <3>2. rest \in Seq(Requests)
        BY <3>1 DEF rest
      <3>3. rest = <<>>
        BY <2>2, <3>2
      <3>4. QED BY <1>1, <3>3
    <2>4. \A r \in Pending(l) : r.op = "burst" /\ r.seq >= c.expected =>
            /\ r.seq - r.offset = c.expected - c.offset
            /\ r.kind = "eof" => r.offset = FileSize
      BY <1>2, <2>1 DEF Bursting
    <2>5. \A r \in l.arriving, p \in l.last :
            r.op = "burst" /\ r.seq >= c.expected => p.seq <= r.seq + 1
      <3>1. ASSUME NEW r \in l.arriving, NEW p \in l.last, r.op = "burst", r.seq >= c.expected
            PROVE  p.seq <= r.seq + 1
        <4>1. r \in Pending(k) /\ r.seq \in Int
          BY PacketsAre
        <4>2. r \notin k.arriving
          <5>1. r \in k.arriving => r.seq < c.expected
            BY <2>1, <3>1 DEF Bursting
          <5>2. QED BY <3>1, <4>1, <5>1
        <4>3. r = p
          BY <2>1, <4>1, <4>2 DEF Pending, OneReply
        <4>4. \A n \in Int : n <= n + 1
          OBVIOUS
        <4>5. QED BY <4>1, <4>3, <4>4
      <3>2. QED BY <3>1
    <2>6. /\ l.open /\ Len(l.requests) <= 1 /\ l.requests = <<>> /\ DOMAIN l.requests = {}
      <3>1. Len(<<>>) <= 1 /\ DOMAIN <<>> = {}
        OBVIOUS
      <3>2. QED BY <2>2, <2>3, <3>1
    <2>7. \A r \in l.arriving, p \in l.last :
            /\ r.op = "burst" /\ p.op = "burst" /\ r.seq >= c.expected
            /\ r.last \/ r.kind = "eof"
            => p.seq <= r.seq + 1
      BY <2>5
    <2>8. QED BY <2>4, <2>6, <2>7 DEF Bursting
  <1>7. ASSUME k.apart PROVE Filling(c, l) /\ Done(c)
    <2>1. Filling(c, k) /\ Done(c)
      BY <1>7 DEF Sound
    <2>2. QED BY <1>1, <1>2, <2>1 DEF Filling
  <1>8. QED BY <1>3, <1>4, <1>5, <1>6, <1>7 DEF Sound

\* What a request but that for a burst is answered with.
LEMMA OneAnswer ==
  ASSUME NEW q \in Requests, q.op # "burst", q.seq + 1 < SeqModulus,
         NEW replies, replies = Answers(server, q) \/ replies = Fails(q)
  PROVE  \E r : /\ replies = <<r>> /\ r.op = q.op /\ r.seq = q.seq + 1
                /\ q.op \in {"read", "list"} => r.offset = q.offset
                /\ q.op = "list" => /\ r.kind = "ack" => q.offset < DirectorySize
                                    /\ r.kind = "eof" => q.offset >= DirectorySize
                /\ q.op = "read" /\ r.kind = "eof" => q.offset >= CurrentSize(server)
  <1>1. q.seq \in Int /\ 0 <= q.seq /\ q.offset \in Nat
    BY Halves DEF Requests
  <1>2. _nextSeqNumber(q.seq) = q.seq + 1
    <2>1. (q.seq + 1) % SeqModulus = q.seq + 1
      BY <1>1, Halves, InRange
    <2>2. QED BY <2>1 DEF _nextSeqNumber
  <1> DEFINE size == IF q.op = "read" THEN CurrentSize(server) ELSE DirectorySize
  <1>3. size \in Nat
    BY ConstantsAre DEF CurrentSize
  <1>4. CASE replies = Fails(q)
    <2> DEFINE r == Reply("fail", q.op, _nextSeqNumber(q.seq), q.offset)
    <2>1. replies = <<r>>
      BY <1>4 DEF Fails
    <2>2. r.op = q.op /\ r.seq = q.seq + 1 /\ r.offset = q.offset /\ r.kind = "fail"
      BY <1>2 DEF Reply
    <2> HIDE DEF r
    <2>3. QED BY <2>1, <2>2
  <1>5. CASE replies = Answers(server, q) /\ q.op \in {"read", "list"}
    <2> DEFINE r == ReadReply(server, q, size)
    <2>1. replies = <<r>>
      BY <1>5 DEF Answers
    <2>2. r.op = q.op /\ r.seq = q.seq + 1 /\ r.offset = q.offset
          /\ r.kind = (IF q.offset >= size THEN "eof" ELSE "ack")
      BY <1>2 DEF Reply, ReadReply
    <2>3. size \in Int /\ q.offset \in Int
      BY <1>1, <1>3
    <2> HIDE DEF r
    <2>4. /\ r.kind = "ack" => q.offset < size
          /\ r.kind = "eof" => q.offset >= size
      <3> HIDE DEF size
      <3>1. CASE q.offset >= size
        BY <2>2, <3>1
      <3>2. CASE ~(q.offset >= size)
        BY <2>2, <2>3, <3>2
      <3>3. QED BY <3>1, <3>2
    <2>5. QED BY <2>1, <2>2, <2>4
  <1>6. CASE replies = Answers(server, q) /\ q.op \notin {"read", "list"}
    <2> DEFINE r == Reply("ack", q.op, _nextSeqNumber(q.seq), 0)
    <2>1. replies = <<r>>
      BY <1>6 DEF Answers
    <2>2. r.op = q.op /\ r.seq = q.seq + 1
      BY <1>2 DEF Reply
    <2> HIDE DEF r
    <2>3. QED BY <1>6, <2>1, <2>2
  <1>7. QED BY <1>4, <1>5, <1>6

\* What a request for a burst is answered with: the packets are numbered on from it, and only
\* the end of the file can follow the last one.
LEMMA BurstAnswer ==
  ASSUME NEW q \in Requests, q.op = "burst", q.seq + BurstMax < SeqModulus,
         NEW replies, replies = Answers(server, q)
  PROVE  /\ Len(replies) \in Nat /\ 1 <= Len(replies) /\ DOMAIN replies = 1 .. Len(replies)
         /\ \A i \in DOMAIN replies :
              /\ i \in 1 .. Len(replies) /\ i <= BurstMax
              /\ replies[i].op = "burst" /\ replies[i].seq = q.seq + i
              /\ replies[i].offset = q.offset + i - 1
              /\ replies[i].kind = "eof" /\ server.open /\ q.offset <= FileSize
                   => replies[i].offset = FileSize
              /\ replies[i].last \/ replies[i].kind = "eof" => Len(replies) <= i + 1
  <1> DEFINE left  == CurrentSize(server) - q.offset
             count == IF left < 0 THEN 0
                      ELSE IF left < BurstMax - 1 THEN left ELSE BurstMax - 1
             packet(i) == [Reply("ack", "burst", (q.seq + i) % SeqModulus,
                                 q.offset + i - 1) EXCEPT !.last = (i = BurstMax - 1)]
             packets == [i \in 1 .. count |-> packet(i)]
             end == Reply("eof", "burst", (q.seq + count + 1) % SeqModulus,
                          q.offset + count)
             inFile == server.open /\ q.offset <= FileSize
             Right(r, i) ==
               /\ r.op = "burst" /\ r.seq = q.seq + i /\ r.offset = q.offset + i - 1
               /\ r.kind = "eof" /\ inFile => r.offset = FileSize
  <1>1. /\ q.seq \in Int /\ 0 <= q.seq /\ q.offset \in Nat /\ BurstMax \in Int /\ 2 <= BurstMax
    BY Halves DEF Requests
  <1>2. left \in Int /\ (inFile => left = FileSize - q.offset /\ 0 <= left)
    <2>1. FileSize \in Int /\ CurrentSize(server) \in Int
      BY ConstantsAre DEF CurrentSize
    <2>2. inFile => CurrentSize(server) = FileSize
      BY DEF CurrentSize
    <2>3. QED BY <1>1, <2>1, <2>2
  <1>3. ASSUME NEW i \in 1 .. BurstMax PROVE (q.seq + i) % SeqModulus = q.seq + i
    <2>1. q.seq + i \in Int /\ 0 <= q.seq + i /\ q.seq + i < SeqModulus
      BY <1>1, Halves
    <2>2. QED BY <2>1, Halves, InRange
  <1> HIDE DEF left
  <1>4. /\ count \in Nat /\ count <= BurstMax - 1
        /\ 0 <= left => count <= left
        /\ count < left => count = BurstMax - 1
    BY <1>1, <1>2
  <1>5. _burstReadCommand(server, q) = IF count < left THEN packets ELSE Append(packets, end)
    BY DEF _burstReadCommand, left
  <1>6. replies = _burstReadCommand(server, q)
    BY DEF Answers
  <1> HIDE DEF count
  <1>7. ASSUME NEW i \in 1 .. count
        PROVE  /\ Right(packet(i), i) /\ packet(i).kind = "ack"
               /\ packet(i).last = (i = BurstMax - 1)
    <2>1. (q.seq + i) % SeqModulus = q.seq + i
      <3>1. i \in 1 .. BurstMax
        BY <1>1, <1>4
      <3>2. QED BY <1>3, <3>1
    <2> DEFINE seq == (q.seq + i) % SeqModulus
               offset == q.offset + i - 1
               last == i = BurstMax - 1
    <2>2. packet(i) = [kind |-> "ack", op |-> "burst", seq |-> seq, offset |-> offset,
                       last |-> last]
      BY DEF Reply
    <2> HIDE DEF seq, offset, last, packet
    <2>3. /\ packet(i).kind = "ack" /\ packet(i).op = "burst" /\ packet(i).seq = seq
          /\ packet(i).offset = offset /\ packet(i).last = last
      BY <2>2
    <2>4. QED BY <2>1, <2>3 DEF seq, offset, last
  <1>8. ASSUME ~(count < left)
        PROVE  Right(end, count + 1) /\ end.kind = "eof"
    <2>1. (q.seq + (count + 1)) % SeqModulus = q.seq + (count + 1)
      <3>1. count + 1 \in 1 .. BurstMax
        BY <1>1, <1>4
      <3>2. QED BY <1>3, <3>1
    <2>2. q.seq + (count + 1) = q.seq + count + 1
      BY <1>1, <1>4
    <2>3. /\ q.offset + count = q.offset + (count + 1) - 1
          /\ inFile => q.offset + count = FileSize
      <3>1. FileSize \in Int
        BY ConstantsAre
      <3>2. q.offset + count = q.offset + (count + 1) - 1
        BY <1>1, <1>4
      <3>3. inFile => count = left
        BY <1>2, <1>4, <1>8
      <3>4. QED BY <1>1, <1>2, <1>4, <3>1, <3>2, <3>3
    <2>4. end.kind = "eof" /\ end.op = "burst" /\ end.offset = q.offset + count
          /\ end.seq = (q.seq + count + 1) % SeqModulus
      BY DEF Reply
    <2> HIDE DEF end
    <2> HIDE DEF inFile
    <2>5. QED BY <2>1, <2>2, <2>3, <2>4
  <1> HIDE DEF inFile
  <1> DEFINE From(s, i) ==
               /\ i \in 1 .. Len(s) /\ i <= BurstMax /\ Right(s[i], i)
               /\ s[i].last \/ s[i].kind = "eof" => Len(s) <= i + 1
  <1>9. CASE count < left
    <2>1. replies = packets /\ count = BurstMax - 1
      BY <1>4, <1>5, <1>6, <1>9
    <2>2. Len(packets) = count /\ DOMAIN packets = 1 .. count
          /\ \A i \in 1 .. count : packets[i] = packet(i)
      BY <1>4
    <2>3. 1 <= Len(packets) /\ DOMAIN packets = 1 .. Len(packets)
      BY <1>1, <2>1, <2>2
    <2> HIDE DEF packets, packet
    <2>4. ASSUME NEW i \in 1 .. count PROVE From(packets, i)
      <3>1. Right(packets[i], i) /\ packets[i].kind = "ack"
            /\ packets[i].last = (i = BurstMax - 1)
        BY <1>7, <2>2
      <3>2. i <= BurstMax
        BY <1>1, <2>1
      <3>3. packets[i].last => Len(packets) <= i + 1
        <4>1. i = BurstMax - 1 => count <= i + 1
          BY <1>1, <2>1
        <4>2. QED BY <2>2, <3>1, <4>1
      <3>4. ~(packets[i].kind = "eof")
        BY <3>1
      <3> HIDE DEF Right
      <3>5. QED BY <2>2, <3>1, <3>2, <3>3, <3>4
    <2>5. /\ Len(replies) \in Nat /\ 1 <= Len(replies) /\ DOMAIN replies = 1 .. Len(replies)
          /\ \A i \in DOMAIN replies : From(replies, i)
      BY <1>4, <2>1, <2>2, <2>3, <2>4
    <2>6. QED BY <2>5 DEF inFile
  <1>10. CASE ~(count < left)
    <2> DEFINE longer == Append(packets, end)
    <2>1. replies = longer
      BY <1>5, <1>6, <1>10
    <2>2. packets \in Seq({packet(i) : i \in 1 .. count}) /\ Len(packets) = count
          /\ \A i \in 1 .. count : packets[i] = packet(i)
      BY <1>4
    <2> HIDE DEF packets, packet, end
    <2>3. /\ Len(longer) = count + 1 /\ DOMAIN longer = 1 .. count + 1
          /\ longer[count + 1] = end
          /\ \A i \in 1 .. count : longer[i] = packet(i)
      BY <1>4, <2>2
    <2> HIDE DEF longer
    <2>4. 1 <= Len(longer) /\ DOMAIN longer = 1 .. Len(longer)
      BY <1>4, <2>3
    <2>5. ASSUME NEW i \in 1 .. count PROVE From(longer, i)
      <3>1. Right(longer[i], i) /\ longer[i].kind = "ack"
            /\ longer[i].last = (i = BurstMax - 1)
        BY <1>7, <2>3, <2>5
      <3>2. i <= BurstMax /\ i \in 1 .. Len(longer)
        BY <1>1, <1>4, <2>3
      <3>3. longer[i].last => Len(longer) <= i + 1
        <4>1. i = BurstMax - 1 => count + 1 <= i + 1
          BY <1>1, <1>4
        <4>2. QED BY <2>3, <3>1, <4>1
      <3>4. ~(longer[i].kind = "eof")
        BY <3>1
      <3> HIDE DEF Right
      <3>5. QED BY <3>1, <3>2, <3>3, <3>4
    <2>6. From(longer, count + 1)
      <3>1. Right(longer[count + 1], count + 1)
        BY <1>8, <1>10, <2>3
      <3>2. count + 1 <= BurstMax /\ count + 1 \in 1 .. Len(longer)
            /\ Len(longer) <= (count + 1) + 1
        BY <1>1, <1>4, <2>3
      <3> HIDE DEF Right
      <3>3. QED BY <3>1, <3>2
    <2>7. \A i \in DOMAIN longer : From(longer, i)
      <3>1. \A i \in 1 .. count + 1 : i \in 1 .. count \/ i = count + 1
        BY <1>4
      <3> HIDE DEF From
      <3>2. QED BY <2>3, <2>5, <2>6, <3>1
    <2>8. /\ Len(replies) \in Nat /\ 1 <= Len(replies) /\ DOMAIN replies = 1 .. Len(replies)
          /\ \A i \in DOMAIN replies : From(replies, i)
      BY <1>4, <2>1, <2>3, <2>4, <2>7
    <2>9. QED BY <2>8 DEF inFile
  <1>11. QED BY <1>9, <1>10

\* The request is answered: k becomes l.
Answered(k, q, replies, l) ==
  /\ k \in Channels /\ k.requests # <<>> /\ q = Head(k.requests)
  /\ k.open = server.open
  /\ l.requests = Tail(k.requests) /\ l.arriving = k.arriving \cup Range(replies)
  /\ l.last = {replies[Len(replies)]}
  /\ l.open = (IF q.op = "open" THEN replies[1].kind = "ack" ELSE k.open /\ q.op # "reset")
  /\ l.apart => k.apart

\* A request but that for a burst is answered, or fails.
LEMMA OneServedSound ==
  ASSUME BurstFits, NEW c \in Clients, FirstHalf(c), NEW k, NEW q, NEW replies, NEW l,
         Answered(k, q, replies, l), Sound(c, k), q.op # "burst",
         replies = Answers(server, q) \/ replies = Fails(q)
  PROVE  Sound(c, l)
  <1> DEFINE rest == Tail(k.requests)
  <1>1. /\ k \in Channels /\ l.requests = rest
        /\ q \in Requests /\ 1 \in DOMAIN k.requests /\ q = k.requests[1]
        /\ Len(k.requests) = Len(rest) + 1 /\ Len(rest) \in Nat
        /\ \A i \in DOMAIN rest :
             /\ i \in 1 .. Len(rest)
             /\ i + 1 \in DOMAIN k.requests /\ rest[i] = k.requests[i + 1]
    <2>1. /\ k \in Channels /\ k.requests # <<>> /\ l.requests = rest /\ q = Head(k.requests)
      BY DEF Answered
    <2>2. rest = Tail(k.requests)
      OBVIOUS
    <2> HIDE DEF rest
    <2>3. QED BY <2>1, <2>2, QueueTaken
  <1> HIDE DEF rest
  <1>2. /\ q.seq \in Int /\ q.seq < c.expected /\ c.expected \in Int
        /\ c.expected <= SeqModulus - 1 /\ q.offset \in Nat
    <2>1. q.seq \in Int /\ q.offset \in Nat
      BY <1>1, PacketsAre
    <2>2. q.seq < c.expected
      BY <1>1 DEF Sound, Numbered
    <2>3. c.expected \in 0 .. SeqModulus - 1
      BY ClientFields
    <2>4. QED BY <2>1, <2>2, <2>3, Halves
  <1>3. q.seq + 1 < SeqModulus /\ q.seq + 1 <= c.expected
    BY <1>2, Halves
  <1>4. PICK r : /\ replies = <<r>> /\ r.op = q.op /\ r.seq = q.seq + 1
                 /\ q.op \in {"read", "list"} => r.offset = q.offset
                 /\ q.op = "list" => /\ r.kind = "ack" => q.offset < DirectorySize
                                     /\ r.kind = "eof" => q.offset >= DirectorySize
                 /\ q.op = "read" /\ r.kind = "eof" => q.offset >= CurrentSize(server)
    BY <1>1, <1>3, OneAnswer
  <1>5. /\ l.arriving = k.arriving \cup {r} /\ l.last = {r}
        /\ q.op = "open" => l.open = (r.kind = "ack")
        /\ q.op \notin {"open", "reset"} => l.open = k.open
        /\ l.apart => k.apart
    <2>1. Range(<<r>>) = {r} /\ <<r>>[Len(<<r>>)] = r /\ <<r>>[1] = r
      BY DEF Range
    <2>2. k.open \in BOOLEAN
      BY <1>1 DEF Channels
    <2>3. QED BY <1>4, <2>1, <2>2 DEF Answered
  <1>6. \A p \in Pending(l) : p \in Pending(k) \/ p = r
    BY <1>5 DEF Pending
  <1>7. OneReply(l)
    BY <1>5 DEF OneReply
  <1>8. Numbered(c, l)
    <2>1. \A i \in DOMAIN l.requests : l.requests[i].seq < c.expected
      BY <1>1 DEF Sound, Numbered
    <2>2. r.seq < c.expected + BurstMax /\ r.seq <= c.expected
      <3>1. BurstMax \in Int /\ 0 < BurstMax
        BY Halves
      <3>2. QED BY <1>2, <1>3, <1>4, <3>1
    <2>3. QED BY <1>6, <2>1, <2>2 DEF Sound, Numbered
  <1>9. Listing(c, l)
    <2>1. Listing(c, k)
      BY DEF Sound
    <2>2. r.op = "list" =>
            /\ r.kind = "ack" => r.offset < DirectorySize
            /\ r.kind = "eof" => r.offset >= DirectorySize
      BY <1>4
    <2>3. ASSUME c.stage = "list", r.op = "list", r.seq = c.expected
          PROVE  r.offset = c.listOffset
      <3>1. q.seq = c.expected - 1
        BY <1>2, <1>4, <2>3
      <3>2. q.offset = c.listOffset
        BY <1>1, <1>4, <2>1, <2>3, <3>1 DEF Listing
      <3>3. QED BY <1>4, <2>3, <3>2
    <2>4. QED BY <1>1, <1>6, <2>1, <2>2, <2>3 DEF Listing
  <1>10. Opening(c, l)
    <2> SUFFICES ASSUME c.stage = "open" PROVE Opening(c, l)
      BY DEF Opening
    <2>1. Opening(c, k) /\ k.requests # <<>>
      BY DEF Sound, Answered
    <2>2. \A i \in DOMAIN l.requests :
            l.requests[i].seq = c.expected - 1 => i = Len(l.requests)
      <3>1. ASSUME NEW i \in DOMAIN rest, rest[i].seq = c.expected - 1 PROVE i = Len(rest)
        <4>1. i + 1 = Len(k.requests) /\ i \in Int
          BY <1>1, <2>1, <3>1 DEF Opening
        <4>2. QED BY <1>1, <4>1
      <3>2. QED BY <1>1, <3>1
    <2>3. \A p \in Pending(k) : ~(p.op = "open" /\ p.seq = c.expected)
      BY <2>1 DEF Opening
    <2>4. ASSUME r.op = "open", r.seq = c.expected
          PROVE  l.requests = <<>> /\ l.last = {r} /\ (r.kind = "ack" => l.open)
      <3>1. q.seq = c.expected - 1
        BY <1>2, <1>4, <2>4
      <3>2. 1 = Len(k.requests)
        BY <1>1, <2>1, <3>1 DEF Opening
      <3>3. Len(rest) = 0
        BY <1>1, <3>2
      <3>4. rest \in Seq(Requests)
        <4>1. k.requests \in Seq(Requests)
          BY <1>1, PacketsAre
        <4>2. QED BY <2>1, <4>1 DEF rest
      <3>5. rest = <<>>
        BY <3>3, <3>4
      <3>6. QED BY <1>1, <1>4, <1>5, <2>4, <3>5
    <2>5. QED BY <1>6, <2>2, <2>3, <2>4 DEF Opening
  <1>11. ASSUME k.apart PROVE Bursting(c, l)
    <2> SUFFICES ASSUME c.stage = "burst" PROVE FALSE
      BY DEF Bursting
    <2>1. Bursting(c, k)
      BY <1>11 DEF Sound
    <2>2. QED BY <1>1, <2>1 DEF Bursting
  <1>12. ASSUME k.apart PROVE Filling(c, l) /\ Done(c)
    <2>1. Filling(c, k) /\ Done(c)
      BY <1>12 DEF Sound
    <2>2. ASSUME c.stage = "fill" PROVE l.open /\ ~(r.op = "read" /\ r.kind = "eof")
      <3>1. k.open /\ q.op = "read" /\ q.offset < FileSize
        BY <1>1, <2>1, <2>2 DEF Filling
      <3>2. CurrentSize(server) = FileSize
        BY <3>1 DEF CurrentSize, Answered
      <3>3. ~(q.offset >= FileSize)
        BY <1>2, <3>1, ConstantsAre
      <3>4. QED BY <1>4, <1>5, <3>1, <3>2, <3>3
    <2>3. QED BY <1>1, <1>6, <2>1, <2>2 DEF Filling
  <1>13. QED BY <1>5, <1>7, <1>8, <1>9, <1>10, <1>11, <1>12 DEF Sound

\* A request for a burst is answered, or fails.
LEMMA BurstServedSound ==
  ASSUME BurstFits, NEW c \in Clients, FirstHalf(c), NEW k, NEW q, NEW replies, NEW l,
         Answered(k, q, replies, l), Sound(c, k), q.op = "burst",
         replies = Answers(server, q) \/ replies = Fails(q)
  PROVE  Sound(c, l)
  <1> DEFINE rest == Tail(k.requests)
  <1>1. /\ k \in Channels /\ l.requests = rest
        /\ q \in Requests /\ 1 \in DOMAIN k.requests /\ q = k.requests[1]
        /\ Len(k.requests) = Len(rest) + 1 /\ Len(rest) \in Nat
        /\ \A i \in DOMAIN rest :
             /\ i \in 1 .. Len(rest)
             /\ i + 1 \in DOMAIN k.requests /\ rest[i] = k.requests[i + 1]
    <2>1. /\ k \in Channels /\ k.requests # <<>> /\ l.requests = rest /\ q = Head(k.requests)
      BY DEF Answered
    <2>2. rest = Tail(k.requests)
      OBVIOUS
    <2> HIDE DEF rest
    <2>3. QED BY <2>1, <2>2, QueueTaken
  <1> HIDE DEF rest
  <1>2. /\ q.seq \in Int /\ 0 <= q.seq /\ q.seq < c.expected /\ c.expected \in Int
        /\ q.offset \in Nat /\ BurstMax \in Int /\ 2 <= BurstMax /\ q.seq + BurstMax < SeqModulus
    <2>1. q.seq \in Int /\ 0 <= q.seq /\ q.offset \in Nat
      BY <1>1, Halves DEF Requests
    <2>2. q.seq < c.expected
      BY <1>1 DEF Sound, Numbered
    <2>3. c.expected \in Int /\ c.expected < (SeqModulus - 1) \div 2
      BY ClientFields DEF FirstHalf
    <2>4. BurstMax \in Int /\ 2 <= BurstMax /\ BurstMax <= SeqModulus \div 2
      BY Halves DEF BurstFits
    <2> DEFINE half == (SeqModulus - 1) \div 2
               other == SeqModulus \div 2
    <2>5. half \in Int /\ other \in Int /\ half + other <= SeqModulus - 1 /\ SeqModulus \in Int
          /\ c.expected < half /\ BurstMax <= other
      BY <2>3, <2>4, Halves
    <2> HIDE DEF half, other
    <2>6. QED BY <2>1, <2>2, <2>3, <2>4, <2>5
  <1> DEFINE inFile == server.open /\ q.offset <= FileSize
             Right(r, i) ==
               /\ r.op = "burst" /\ r.seq = q.seq + i /\ r.offset = q.offset + i - 1
               /\ r.kind = "eof" /\ inFile => r.offset = FileSize
               /\ r.last \/ r.kind = "eof" => Len(replies) <= i + 1
  <1>3. /\ Len(replies) \in Nat /\ 1 <= Len(replies) /\ DOMAIN replies = 1 .. Len(replies)
        /\ \A i \in DOMAIN replies :
             i \in 1 .. Len(replies) /\ i <= BurstMax /\ Right(replies[i], i)
    <2>1. CASE replies = Answers(server, q)
      <3>1. /\ Len(replies) \in Nat /\ 1 <= Len(replies) /\ DOMAIN replies = 1 .. Len(replies)
            /\ \A i \in DOMAIN replies :
                 /\ i \in 1 .. Len(replies) /\ i <= BurstMax
                 /\ replies[i].op = "burst" /\ replies[i].seq = q.seq + i
                 /\ replies[i].offset = q.offset + i - 1
                 /\ replies[i].kind = "eof" /\ server.open /\ q.offset <= FileSize
                      => replies[i].offset = FileSize
                 /\ replies[i].last \/ replies[i].kind = "eof" => Len(replies) <= i + 1
        <4>1. q \in Requests /\ q.seq + BurstMax < SeqModulus
          BY <1>1, <1>2
        <4> HIDE DEF Right
        <4>2. QED BY ONLY <2>1, <4>1, q.op = "burst", BurstAnswer
      <3>2. QED BY <3>1
    <2>2. CASE replies = Fails(q) /\ replies # Answers(server, q)
      <3> DEFINE r == Reply("fail", q.op, _nextSeqNumber(q.seq), q.offset)
      <3>1. replies = <<r>>
        BY <2>2 DEF Fails
      <3>2. _nextSeqNumber(q.seq) = q.seq + 1
        <4>1. q.seq + 1 \in Int /\ 0 <= q.seq + 1 /\ q.seq + 1 < SeqModulus
          BY <1>2, Halves
        <4>2. (q.seq + 1) % SeqModulus = q.seq + 1
          BY <4>1, Halves, InRange
        <4>3. QED BY <4>2 DEF _nextSeqNumber
      <3>3. /\ r.op = "burst" /\ r.seq = q.seq + 1 /\ r.offset = q.offset
            /\ r.kind = "fail" /\ ~r.last
        BY <3>2 DEF Reply
      <3> HIDE DEF r
      <3>4. /\ Len(replies) = 1 /\ replies[1] = r /\ DOMAIN replies = 1 .. 1
            /\ \A i \in DOMAIN replies : i = 1
        BY <3>1
      <3>5. Right(r, 1)
        BY <1>2, <3>3
      <3> HIDE DEF Right
      <3>6. QED BY <1>2, <3>4, <3>5
    <2>3. QED BY <2>1, <2>2
  <1> DEFINE n == Len(replies)
  <1>4. /\ l.arriving = k.arriving \cup Range(replies) /\ l.last = {replies[n]}
        /\ l.open = k.open /\ k.open = server.open
        /\ l.apart => k.apart
    <2>1. k.open \in BOOLEAN
      BY <1>1 DEF Channels
    <2>2. QED BY <2>1 DEF Answered
  <1>5. n \in DOMAIN replies /\ n \in Nat
    BY <1>3
  <1>6. \A p \in Pending(l) : p \in Pending(k) \/ \E i \in DOMAIN replies : p = replies[i]
    BY <1>4, <1>5 DEF Pending, Range
  <1> HIDE DEF Right, n
  <1>7. \A p \in Pending(l) :
          p \notin Pending(k) => p.op = "burst" /\ p.seq < c.expected + BurstMax
    <2>1. ASSUME NEW i \in DOMAIN replies
          PROVE  replies[i].op = "burst" /\ replies[i].seq < c.expected + BurstMax
      <3>1. i \in Int /\ i <= BurstMax /\ Right(replies[i], i)
        BY <1>3
      <3>2. QED BY <1>2, <3>1 DEF Right
    <2>2. ASSUME NEW p \in Pending(l), NEW i \in DOMAIN replies, p = replies[i]
          PROVE  p.op = "burst" /\ p.seq < c.expected + BurstMax
      BY <2>1, <2>2
    <2>3. QED BY <1>6, <2>2
  <1>8. OneReply(l)
    BY <1>4 DEF OneReply
  <1>9. Numbered(c, l)
    <2>1. \A i \in DOMAIN l.requests : l.requests[i].seq < c.expected
      BY <1>1 DEF Sound, Numbered
    <2>2. QED BY <1>7, <2>1 DEF Sound, Numbered
  <1>10. Listing(c, l)
    <2>1. Listing(c, k)
      BY DEF Sound
    <2>2. \A p \in Pending(l) : p.op = "list" => p \in Pending(k)
      BY <1>7
    <2>3. QED BY <1>1, <2>1, <2>2 DEF Listing
  <1>11. Opening(c, l)
    <2> SUFFICES ASSUME c.stage = "open" PROVE Opening(c, l)
      BY DEF Opening
    <2>1. Opening(c, k) /\ k.requests # <<>>
      BY DEF Sound, Answered
    <2>2. \A i \in DOMAIN l.requests :
            l.requests[i].seq = c.expected - 1 => i = Len(l.requests)
      <3>1. ASSUME NEW i \in DOMAIN rest, rest[i].seq = c.expected - 1 PROVE i = Len(rest)
        <4>1. i + 1 = Len(k.requests) /\ i \in Int
          BY <1>1, <2>1, <3>1 DEF Opening
        <4>2. QED BY <1>1, <4>1
      <3>2. QED BY <1>1, <3>1
    <2>3. \A p \in Pending(k) : ~(p.op = "open" /\ p.seq = c.expected)
      BY <2>1 DEF Opening
    <2>4. \A p \in Pending(l) : ~(p.op = "open" /\ p.seq = c.expected)
      BY <1>7, <2>3
    <2>5. QED BY <2>2, <2>4 DEF Opening
  <1>12. ASSUME k.apart PROVE Bursting(c, l)
    <2> SUFFICES ASSUME c.stage = "burst" PROVE Bursting(c, l)
      BY DEF Bursting
    <2>1. Bursting(c, k)
      BY <1>12 DEF Sound
    <2>2. q.seq = c.expected - 1 /\ q.offset = c.offset /\ k.open /\ k.requests # <<>>
      BY <1>1, <2>1 DEF Bursting, Answered
    <2>3. inFile
      BY <1>4, <2>2, ClientFields
    <2>4. c.offset \in Int
      BY <1>2, <2>2
    <2>5. ASSUME NEW i \in DOMAIN replies
          PROVE  /\ replies[i].seq - replies[i].offset = c.expected - c.offset
                 /\ replies[i].kind = "eof" => replies[i].offset = FileSize
                 /\ replies[i].last \/ replies[i].kind = "eof"
                      => replies[n].seq <= replies[i].seq + 1
      <3>1. i \in Int /\ Right(replies[i], i) /\ Right(replies[n], n)
        BY <1>3, <1>5
      <3>2. /\ replies[i].seq = c.expected - 1 + i /\ replies[i].offset = c.offset + i - 1
            /\ replies[i].kind = "eof" => replies[i].offset = FileSize
            /\ replies[i].last \/ replies[i].kind = "eof" => n <= i + 1
            /\ replies[n].seq = c.expected - 1 + n
        BY <2>2, <2>3, <3>1 DEF Right, n
      <3> DEFINE cut == replies[i].last \/ replies[i].kind = "eof"
      <3>3. cut => replies[n].seq <= replies[i].seq + 1
        <4>1. n <= i + 1 => c.expected - 1 + n <= (c.expected - 1 + i) + 1
          BY <1>2, <1>5, <3>1
        <4>2. QED BY <3>2, <4>1
      <3>4. (c.expected - 1 + i) - (c.offset + i - 1) = c.expected - c.offset
        BY <1>2, <2>4, <3>1
      <3>5. QED BY <3>2, <3>3, <3>4
    <2>6. \A r \in Pending(l) : r.op = "burst" /\ r.seq >= c.expected =>
            /\ r.seq - r.offset = c.expected - c.offset
            /\ r.kind = "eof" => r.offset = FileSize
      BY <1>6, <2>1, <2>5 DEF Bursting
    <2>7. \A r \in l.arriving : r.op = "burst" /\ r.seq >= c.expected
            => \E i \in DOMAIN replies : r = replies[i]
      <3>1. ASSUME NEW r \in k.arriving, r.op = "burst", r.seq >= c.expected PROVE FALSE
        <4>1. r.seq \in Int
          BY <1>1, <3>1, PacketsAre
        <4>2. r.seq < c.expected
          BY <2>1, <2>2, <3>1 DEF Bursting
        <4>3. QED BY <1>2, <3>1, <4>1, <4>2
      <3>2. QED BY <1>4, <3>1 DEF Range
    <2>8. \A r \in l.arriving, p \in l.last :
            /\ r.op = "burst" /\ p.op = "burst" /\ r.seq >= c.expected
            /\ r.last \/ r.kind = "eof"
            => p.seq <= r.seq + 1
      BY <1>4, <2>5, <2>7
    <2>9. /\ l.open /\ Len(l.requests) <= 1 /\ l.requests = <<>> /\ DOMAIN l.requests = {}
      <3>1. Len(rest) = 0
        BY <1>1, <2>1 DEF Bursting
      <3>2. k.requests \in Seq(Requests)
        BY <1>1, PacketsAre
      <3>3. rest \in Seq(Requests)
        BY <2>2, <3>2 DEF rest
      <3>4. rest = <<>>
        BY <3>1, <3>3
      <3>5. Len(<<>>) <= 1 /\ DOMAIN <<>> = {}
        OBVIOUS
      <3>6. QED BY <1>1, <1>4, <2>2, <3>4, <3>5
    <2>10. QED BY <2>6, <2>8, <2>9 DEF Bursting
  <1>13. ASSUME k.apart PROVE Filling(c, l) /\ Done(c)
    <2>1. Filling(c, k) /\ Done(c)
      BY <1>13 DEF Sound
    <2>2. c.stage # "fill"
      BY <1>1, <2>1 DEF Filling
    <2>3. QED BY <2>1, <2>2 DEF Filling
  <1>14. QED BY <1>4, <1>8, <1>9, <1>10, <1>11, <1>12, <1>13 DEF Sound

-----------------------------------------------------------------------------
(* The steps of the whole.                                                 *)

\* While every request has been sent, the client and the packets agree.
Safe == ~client.unsent => Sound(client, Channel)

\* The packets have their types.
LEMMA ChannelIs ==
  ASSUME IInv
  PROVE  /\ Channel \in Channels
         /\ Channel.requests = toServer /\ Channel.arriving = Range(toClient)
         /\ Channel.last = Range(server.lastReply) /\ Channel.open = server.open
         /\ Channel.apart = ~overlapping
  <1>1. /\ toServer \in Seq(Requests) /\ server.open \in BOOLEAN
        /\ Range(toClient) \subseteq GoodReplies /\ Range(server.lastReply) \subseteq GoodReplies
    <2>1. /\ toServer \in Seq(Requests) /\ server.open \in BOOLEAN
          /\ toClient \in Seq(GoodReplies) /\ server.lastReply \in Seq(GoodReplies)
      BY DEF IInv
    <2>2. ASSUME NEW s \in Seq(GoodReplies) PROVE Range(s) \subseteq GoodReplies
      BY DEF Range
    <2>3. QED BY <2>1, <2>2
  <1>2. (~overlapping) \in BOOLEAN
    OBVIOUS
  <1> DEFINE arriving == Range(toClient)
             last == Range(server.lastReply)
             open == server.open
             apart == ~overlapping
  <1>3. Channel = [requests |-> toServer, arriving |-> arriving, last |-> last,
                   open |-> open, apart |-> apart]
    BY DEF Channel
  <1>4. arriving \in SUBSET GoodReplies /\ last \in SUBSET GoodReplies
        /\ open \in BOOLEAN /\ apart \in BOOLEAN
    BY <1>1, <1>2
  <1> HIDE DEF arriving, last, open, apart
  <1>5. Channel \in Channels
    BY <1>1, <1>3, <1>4 DEF Channels
  <1>6. /\ Channel.requests = toServer /\ Channel.arriving = arriving
        /\ Channel.last = last /\ Channel.open = open /\ Channel.apart = apart
    BY <1>3
  <1>7. QED BY <1>5, <1>6 DEF arriving, last, open, apart

\* What the client signals and sends does not matter any more.
LEMMA QuietIsSound ==
  ASSUME NEW c, NEW k, Sound(c, k), NEW d,
         d.stage = c.stage, d.missing = c.missing, d.written = c.written,
         d.listOffset = c.listOffset, d.listed = c.listed, d.expected = c.expected,
         d.offset = c.offset, d.signal \in {"none", c.signal}
  PROVE  Sound(d, k)
  <1>1. OneReply(k) /\ Numbered(d, k)
    BY DEF Sound, Numbered
  <1>2. Listing(d, k)
    BY DEF Sound, Listing
  <1>3. Opening(d, k)
    BY DEF Sound, Opening
  <1>4. k.apart => Bursting(d, k)
    BY DEF Sound, Bursting
  <1>5. k.apart => Filling(d, k) /\ Done(d)
    BY DEF Sound, Filling, Done
  <1>6. QED BY <1>1, <1>2, <1>3, <1>4, <1>5 DEF Sound

\* Two sequences have the elements of both.
LEMMA BothRanges ==
  ASSUME NEW S, NEW s \in Seq(S), NEW t \in Seq(S)
  PROVE  Range(s \o t) = Range(s) \cup Range(t)
  <1>1. /\ Len(s) \in Nat /\ Len(t) \in Nat /\ DOMAIN s = 1 .. Len(s) /\ DOMAIN t = 1 .. Len(t)
        /\ DOMAIN (s \o t) = 1 .. Len(s) + Len(t)
        /\ \A i \in 1 .. Len(s) + Len(t) :
             (s \o t)[i] = IF i <= Len(s) THEN s[i] ELSE t[i - Len(s)]
    OBVIOUS
  <1>2. ASSUME NEW i \in DOMAIN (s \o t) PROVE (s \o t)[i] \in Range(s) \cup Range(t)
    <2>1. CASE i <= Len(s)
      BY <1>1, <2>1 DEF Range
    <2>2. CASE ~(i <= Len(s))
      <3>1. i - Len(s) \in DOMAIN t /\ (s \o t)[i] = t[i - Len(s)]
        BY <1>1, <2>2
      <3>2. QED BY <3>1 DEF Range
    <2>3. QED BY <2>1, <2>2
  <1>3. ASSUME NEW i \in DOMAIN s PROVE s[i] \in Range(s \o t)
    <2>1. i \in DOMAIN (s \o t) /\ (s \o t)[i] = s[i]
      BY <1>1
    <2>2. QED BY <2>1 DEF Range
  <1>4. ASSUME NEW i \in DOMAIN t PROVE t[i] \in Range(s \o t)
    <2>1. Len(s) + i \in DOMAIN (s \o t) /\ (s \o t)[Len(s) + i] = t[i]
      BY <1>1
    <2>2. QED BY <2>1 DEF Range
  <1>5. QED BY <1>2, <1>3, <1>4 DEF Range

\* A step of the client, to d, when every request has been sent.
LEMMA BecomesStepping ==
  ASSUME IInv, IInv', Safe, FirstHalf(client), FirstHalf(client'), ~client'.unsent,
         NEW d, Good(d), Becomes(d), Range(toClient') \subseteq Range(toClient),
         server' = server
  PROVE  /\ Stepping(Quiet, Channel, d, Channel')
         /\ Sound(d, Channel') => Safe'
  <1>1. client \in Clients /\ d \in Clients /\ client.out = <<>>
    BY DEF IInv, Good
  <1>2. Good(Quiet) /\ Quiet.signal = "none"
    BY QuietIsGood DEF Quiet, IInv
  <1>3. /\ Quiet.stage = client.stage /\ Quiet.missing = client.missing
        /\ Quiet.written = client.written /\ Quiet.listOffset = client.listOffset
        /\ Quiet.listed = client.listed /\ Quiet.expected = client.expected
        /\ Quiet.offset = client.offset /\ Quiet.wrapped = client.wrapped
        /\ Quiet.unsent = client.unsent /\ Quiet.out = <<>>
    BY <1>1 DEF Quiet, Clients
  <1>4. /\ client'.stage = d.stage /\ client'.missing = d.missing
        /\ client'.written = d.written /\ client'.listOffset = d.listOffset
        /\ client'.listed = d.listed /\ client'.expected = d.expected
        /\ client'.offset = d.offset /\ client'.wrapped = d.wrapped
        /\ client'.unsent = d.unsent /\ client'.signal = d.signal
    BY <1>1 DEF Becomes, Clients
  <1>5. FirstHalf(Quiet) /\ FirstHalf(d) /\ ~d.unsent
    BY <1>3, <1>4 DEF FirstHalf
  <1>6. /\ Channel \in Channels
        /\ Channel.requests = toServer /\ Channel.arriving = Range(toClient)
        /\ Channel.last = Range(server.lastReply) /\ Channel.open = server.open
        /\ Channel.apart = ~overlapping
    BY ChannelIs
  <1>7. /\ Channel'.requests = toServer' /\ Channel'.arriving = Range(toClient')
        /\ Channel'.last = Range(server'.lastReply) /\ Channel'.open = server'.open
        /\ Channel'.apart = ~overlapping'
    BY DEF Channel
  <1>8. ~Quiet.unsent => Sound(Quiet, Channel)
    BY <1>2, <1>3, QuietIsSound DEF Safe
  <1>9. Follows(Channel, d, Channel')
    <2>1. toServer' = toServer \o d.out /\ (~overlapping' => ~overlapping /\ ~BurstsOverlap(d))
      BY DEF Becomes
    <2>2. ~BurstsOverlap(d) /\ (\E q \in Range(d.out) : q.op = "burst") =>
            /\ \A i \in DOMAIN toServer : toServer[i].op # "burst"
            /\ \A r \in Range(toClient) : r.op = "burst" => Old(d, r)
      BY DEF BurstsOverlap, Range
    <2>3. QED BY <1>6, <1>7, <2>1, <2>2 DEF Follows
  <1>10. Stepping(Quiet, Channel, d, Channel')
    BY <1>1, <1>2, <1>3, <1>5, <1>6, <1>8, <1>9 DEF Stepping
  <1>11. Sound(d, Channel') => Safe'
    BY <1>4, QuietIsSound DEF Safe
  <1>12. QED BY <1>10, <1>11

\* A step of the server that answers a request for the first time.
LEMMA ServedSound ==
  ASSUME BurstFits, IInv, FirstHalf(client), Sound(client, Channel), toServer # <<>>,
         ~Repeated(server, Head(toServer)), NEW replies \in Seq(GoodReplies), replies # <<>>,
         replies = Answers(server, Head(toServer)) \/ replies = Fails(Head(toServer)),
         Serve(replies)
  PROVE  Sound(client, Channel')
  <1> DEFINE q == Head(toServer)
  <1>1. client \in Clients /\ toClient \in Seq(GoodReplies)
    BY DEF IInv, Good
  <1>2. /\ Channel \in Channels
        /\ Channel.requests = toServer /\ Channel.arriving = Range(toClient)
        /\ Channel.last = Range(server.lastReply) /\ Channel.open = server.open
        /\ Channel.apart = ~overlapping
    BY ChannelIs
  <1>3. /\ Channel'.requests = toServer' /\ Channel'.arriving = Range(toClient')
        /\ Channel'.last = Range(server'.lastReply) /\ Channel'.open = server'.open
        /\ Channel'.apart = ~overlapping'
    BY DEF Channel
  <1>4. toServer' = Tail(toServer) /\ overlapping' = overlapping
        /\ toClient' = toClient \o replies /\ server' = Served(server, q, replies)
    BY DEF Serve
  <1>5. Range(toClient') = Range(toClient) \cup Range(replies)
    BY <1>1, <1>4, BothRanges
  <1>6. /\ server'.lastReply = <<replies[Len(replies)]>>
        /\ server'.open = (IF q.op = "open" THEN replies[1].kind = "ack"
                           ELSE server.open /\ q.op # "reset")
    BY <1>4 DEF Served
  <1>7. Range(server'.lastReply) = {replies[Len(replies)]}
    BY <1>6 DEF Range
  <1>8. Answered(Channel, q, replies, Channel')
    BY <1>2, <1>3, <1>4, <1>5, <1>6, <1>7 DEF Answered
  <1> HIDE DEF q
  <1>9. replies = Answers(server, q) \/ replies = Fails(q)
    BY DEF q
  <1>10. CASE q.op = "burst"
    BY <1>1, <1>8, <1>9, <1>10, BurstServedSound
  <1>11. CASE q.op # "burst"
    BY <1>1, <1>8, <1>9, <1>11, OneServedSound
  <1>12. QED BY <1>10, <1>11

\* A step of the server that repeats its last reply, or a request that is lost.
LEMMA RepeatedSound ==
  ASSUME IInv, Sound(client, Channel), toServer # <<>>, toServer' = Tail(toServer),
         client' = client, overlapping' = overlapping,
         \/ server' = server /\ toClient' = toClient
         \/ /\ Repeated(server, Head(toServer))
            /\ Serve(server.lastReply)
  PROVE  Sound(client, Channel')
  <1>1. client.expected \in Int
    BY ClientFields DEF IInv, Good
  <1>2. toClient \in Seq(GoodReplies) /\ server.lastReply \in Seq(GoodReplies)
    BY DEF IInv
  <1>3. /\ Channel \in Channels
        /\ Channel.requests = toServer /\ Channel.arriving = Range(toClient)
        /\ Channel.last = Range(server.lastReply) /\ Channel.open = server.open
        /\ Channel.apart = ~overlapping
    BY ChannelIs
  <1>4. /\ Channel'.requests = toServer' /\ Channel'.arriving = Range(toClient')
        /\ Channel'.last = Range(server'.lastReply) /\ Channel'.open = server'.open
        /\ Channel'.apart = ~overlapping'
    BY DEF Channel
  <1>5. /\ Range(toClient') \subseteq Range(toClient) \cup Range(server.lastReply)
        /\ Range(server'.lastReply) \subseteq Range(server.lastReply)
        /\ server'.open = server.open
    <2>1. CASE server' = server /\ toClient' = toClient
      BY <2>1
    <2>2. CASE Repeated(server, Head(toServer)) /\ Serve(server.lastReply)
      <3>1. toClient' = toClient \o server.lastReply
            /\ server' = Served(server, Head(toServer), server.lastReply)
        BY <2>2 DEF Serve
      <3>2. Range(toClient') = Range(toClient) \cup Range(server.lastReply)
        BY <1>2, <3>1, BothRanges
      <3>3. /\ server'.lastReply = <<server.lastReply[Len(server.lastReply)]>>
            /\ server'.open = server.open
        BY <2>2, <3>1 DEF Served
      <3>4. server.lastReply[Len(server.lastReply)] \in Range(server.lastReply)
        <4>1. server.lastReply # <<>>
          BY <2>2 DEF Repeated
        <4>2. Len(server.lastReply) \in DOMAIN server.lastReply
          BY <1>2, <4>1
        <4>3. QED BY <4>2 DEF Range
      <3>5. Range(server'.lastReply) = {server.lastReply[Len(server.lastReply)]}
        BY <3>3 DEF Range
      <3>6. QED BY <3>2, <3>3, <3>4, <3>5
    <2>3. QED BY <2>1, <2>2
  <1>6. Channel'.arriving \subseteq Pending(Channel)
    BY <1>3, <1>4, <1>5 DEF Pending
  <1>7. QED BY <1>1, <1>3, <1>4, <1>5, <1>6, TakenIsSound

\* Nothing is on its way at first.
LEMMA SafeInitially == Init => Safe
  <1> SUFFICES ASSUME Init PROVE Sound(client, Channel)
    BY DEF Safe
  <1>1. client.stage = "none" /\ client.signal = "none" /\ client.expected = 0
    BY DEF Init, NewClient
  <1>2. /\ Channel.requests = <<>> /\ Channel.arriving = Range(<<>>)
        /\ Channel.last = Range(<<>>)
    BY DEF Init, NewServer, Channel
  <1>3. Range(<<>>) = {} /\ DOMAIN <<>> = {}
    BY DEF Range
  <1>4. Pending(Channel) = {} /\ DOMAIN Channel.requests = {} /\ Channel.last = {}
    BY <1>2, <1>3 DEF Pending
  <1>5. OneReply(Channel) /\ Numbered(client, Channel)
    BY <1>4 DEF OneReply, Numbered
  <1>6. Listing(client, Channel) /\ Opening(client, Channel)
    BY <1>1, <1>4 DEF Listing, Opening
  <1>7. Bursting(client, Channel) /\ Filling(client, Channel) /\ Done(client)
    BY <1>1 DEF Bursting, Filling, Done
  <1>8. QED BY <1>5, <1>6, <1>7 DEF Sound

\* The packets on their way are kept, but for some of the replies.
LEMMA PacketsSound ==
  ASSUME IInv, Sound(client, Channel), server' = server, toServer' = toServer,
         overlapping' = overlapping, Range(toClient') \subseteq Range(toClient)
  PROVE  Sound(client, Channel')
  <1>1. client \in Clients /\ client.out = <<>> /\ toServer \in Seq(Requests)
    BY DEF IInv, Good
  <1>2. /\ Channel \in Channels
        /\ Channel.requests = toServer /\ Channel.arriving = Range(toClient)
        /\ Channel.last = Range(server.lastReply) /\ Channel.open = server.open
        /\ Channel.apart = ~overlapping
    BY ChannelIs
  <1>3. /\ Channel'.requests = toServer' /\ Channel'.arriving = Range(toClient')
        /\ Channel'.last = Range(server'.lastReply) /\ Channel'.open = server'.open
        /\ Channel'.apart = ~overlapping'
    BY DEF Channel
  <1>4. Range(client.out) = {} /\ toServer \o client.out = toServer
    BY <1>1 DEF Range
  <1>5. Follows(Channel, client, Channel')
    BY <1>2, <1>3, <1>4 DEF Follows
  <1>6. SameData(client, client)
    BY DEF SameData
  <1>7. QED BY <1>1, <1>2, <1>5, <1>6, SameAwaited

\* To lose, duplicate or delay a reply makes no other.
LEMMA RepliesKept ==
  ASSUME NEW S, NEW s \in Seq(S), NEW i \in DOMAIN s
  PROVE  /\ Range(RemoveAt(s, i)) \subseteq Range(s)
         /\ Range(InsertAt(s, i, s[i])) \subseteq Range(s)
         /\ Range(Append(RemoveAt(s, i), s[i])) \subseteq Range(s)
  <1>1. s \in Seq(Range(s)) /\ s[i] \in Range(s)
    BY DEF Range
  <1>2. ASSUME NEW t \in Seq(Range(s)) PROVE Range(t) \subseteq Range(s)
    BY DEF Range
  <1>3. /\ RemoveAt(s, i) \in Seq(Range(s)) /\ InsertAt(s, i, s[i]) \in Seq(Range(s))
    BY <1>1, PacketsKept
  <1>4. Append(RemoveAt(s, i), s[i]) \in Seq(Range(s))
    BY <1>1, <1>3
  <1>5. QED BY <1>2, <1>3, <1>4

\* A step of the client keeps the agreement.
LEMMA ClientKeepsSafe ==
  ASSUME BurstFits, IInv, IInv', Safe, FirstHalf(client), FirstHalf(client'),
         ~client'.unsent, Download \/ ListDirectory \/ Cancel \/ ReplyReceived \/ Timeout
  PROVE  Safe'
  <1>1. Good(client) /\ toClient \in Seq(GoodReplies)
    BY DEF IInv
  <1>2. Good(Quiet) /\ Quiet.signal = "none"
    BY <1>1, QuietIsGood DEF Quiet
  <1>3. Quiet.table = client.table /\ Quiet.timer = client.timer
    BY <1>1 DEF Quiet, Good, Clients
  <1>4. Channel.arriving = Range(toClient)
    BY ChannelIs
  <1>5. CASE Download
    <2>1. PICK checksize \in BOOLEAN, valid \in ValidURIs :
            Start(download(Quiet, checksize, valid))
      BY <1>5 DEF Download
    <2> DEFINE d == download(Quiet, checksize, valid)
    <2>2. valid \in BOOLEAN /\ Quiet.table = "empty"
      BY <1>3, <2>1, TransferAssumption DEF Start, Idle
    <2>3. Good(d) /\ Becomes(d) /\ server' = server /\ toClient' = toClient
      BY <1>2, <2>1, <2>2, DownloadIsGood DEF Start
    <2> HIDE DEF d
    <2>4. /\ Stepping(Quiet, Channel, d, Channel')
          /\ Sound(d, Channel') => Safe'
      BY <2>3, BecomesStepping
    <2>5. QED BY <2>2, <2>4, DownloadIsSound DEF d
  <1>6. CASE ListDirectory
    <2>1. PICK valid \in ValidURIs : Start(listDirectory(Quiet, valid))
      BY <1>6 DEF ListDirectory
    <2> DEFINE d == listDirectory(Quiet, valid)
    <2>2. valid \in BOOLEAN /\ Quiet.table = "empty"
      BY <1>3, <2>1, TransferAssumption DEF Start, Idle
    <2>3. Good(d) /\ Becomes(d) /\ server' = server /\ toClient' = toClient
      BY <1>2, <2>1, <2>2, ListDirectoryIsGood DEF Start
    <2> HIDE DEF d
    <2>4. /\ Stepping(Quiet, Channel, d, Channel')
          /\ Sound(d, Channel') => Safe'
      BY <2>3, BecomesStepping
    <2>5. QED BY <2>2, <2>4, ListDirectoryIsSound DEF d
  <1>7. CASE Cancel
    <2> DEFINE d == cancelDownload(Quiet)
    <2>1. Good(d) /\ Becomes(d) /\ server' = server /\ toClient' = toClient
      BY <1>2, <1>7, CancelIsGood DEF Cancel
    <2> HIDE DEF d
    <2>2. /\ Stepping(Quiet, Channel, d, Channel')
          /\ Sound(d, Channel') => Safe'
      BY <2>1, BecomesStepping
    <2>3. QED BY <2>2, CancelIsSound DEF d
  <1>8. CASE ReplyReceived
    <2> DEFINE r == Head(toClient)
               d == _mavlinkMessageReceived(Quiet, r)
    <2>1. r \in GoodReplies /\ r \in Range(toClient) /\ Range(toClient') \subseteq Range(toClient)
      <3>1. toClient # <<>> /\ toClient' = Tail(toClient)
        BY <1>8 DEF ReplyReceived
      <3>2. 1 \in DOMAIN toClient /\ r = toClient[1] /\ r \in GoodReplies
        BY <1>1, <3>1
      <3>3. \A i \in DOMAIN Tail(toClient) :
              i + 1 \in DOMAIN toClient /\ Tail(toClient)[i] = toClient[i + 1]
        BY <1>1, <3>1
      <3>4. Range(Tail(toClient)) \subseteq Range(toClient)
        BY <3>3 DEF Range
      <3>5. r \in Range(toClient)
        BY <3>2 DEF Range
      <3>6. QED BY <3>1, <3>2, <3>4, <3>5
    <2> HIDE DEF r
    <2>2. Good(d) /\ Becomes(d) /\ server' = server
      BY <1>2, <1>8, <2>1, ReplyIsGood DEF ReplyReceived, r
    <2> HIDE DEF d
    <2>3. /\ Stepping(Quiet, Channel, d, Channel')
          /\ Sound(d, Channel') => Safe'
      BY <2>1, <2>2, BecomesStepping
    <2>4. QED BY <1>4, <2>1, <2>3, ReplyIsSound DEF d
  <1>9. CASE Timeout
    <2> DEFINE d == _ackOrNakTimeout(Quiet)
    <2>1. Good(d) /\ Becomes(d) /\ server' = server /\ toClient' = toClient /\ Quiet.timer
      BY <1>2, <1>3, <1>9, TimeoutIsGood DEF Timeout
    <2> HIDE DEF d
    <2>2. /\ Stepping(Quiet, Channel, d, Channel')
          /\ Sound(d, Channel') => Safe'
      BY <2>1, BecomesStepping
    <2>3. QED BY <2>1, <2>2, TimeoutIsSound DEF d
  <1>10. QED BY <1>5, <1>6, <1>7, <1>8, <1>9

\* Every step keeps the agreement.
LEMMA NextKeepsSafe ==
  BurstFits /\ IInv /\ IInv' /\ Safe /\ FirstHalf(client) /\ FirstHalf(client)' /\ [Next]_vars
    => Safe'
  <1> SUFFICES ASSUME BurstFits, IInv, IInv', Safe, FirstHalf(client), FirstHalf(client'),
                      [Next]_vars, ~client'.unsent
               PROVE  Safe'
    BY DEF Safe
  <1>1. client \in Clients /\ toClient \in Seq(GoodReplies) /\ toServer \in Seq(Requests)
        /\ server.lastReply \in Seq(GoodReplies)
    BY DEF IInv, Good
  <1>2. CASE Download \/ ListDirectory \/ Cancel \/ ReplyReceived \/ Timeout
    BY <1>2, ClientKeepsSafe
  <1>3. ASSUME client' = client, Sound(client, Channel) => Sound(client, Channel')
        PROVE  Safe'
    BY <1>3 DEF Safe
  <1>4. CASE RequestServed
    <2>1. toServer # <<>> /\ Head(toServer) \in Requests
      BY <1>1, <1>4 DEF RequestServed
    <2>2. CASE Repeated(server, Head(toServer))
      <3>1. Serve(server.lastReply)
        BY <1>4, <2>2 DEF RequestServed
      <3>2. toServer' = Tail(toServer) /\ client' = client /\ overlapping' = overlapping
        BY <3>1 DEF Serve
      <3>3. QED BY <1>3, <2>1, <2>2, <3>1, <3>2, RepeatedSound
    <2>3. CASE ~Repeated(server, Head(toServer))
      <3> DEFINE replies == Answers(server, Head(toServer))
      <3>1. Serve(replies) /\ replies \in Seq(GoodReplies) /\ replies # <<>>
        BY <1>4, <2>1, <2>3, AnswersAreGood DEF RequestServed
      <3>2. client' = client
        BY <3>1 DEF Serve
      <3> HIDE DEF replies
      <3>3. Sound(client, Channel) => Sound(client, Channel')
        BY <2>1, <2>3, <3>1, ServedSound DEF replies
      <3>4. QED BY <1>3, <3>2, <3>3
    <2>4. QED BY <2>2, <2>3
  <1>5. CASE RequestFailed
    <2>1. toServer # <<>> /\ Head(toServer) \in Requests /\ ~Repeated(server, Head(toServer))
      BY <1>1, <1>5 DEF RequestFailed
    <2> DEFINE replies == Fails(Head(toServer))
    <2>2. Serve(replies) /\ replies \in Seq(GoodReplies) /\ replies # <<>>
      BY <1>5, <2>1, FailsAreGood DEF RequestFailed
    <2>3. client' = client
      BY <2>2 DEF Serve
    <2> HIDE DEF replies
    <2>4. Sound(client, Channel) => Sound(client, Channel')
      BY <2>1, <2>2, ServedSound DEF replies
    <2>5. QED BY <1>3, <2>3, <2>4
  <1>6. CASE RequestLost
    <2>1. /\ toServer # <<>> /\ toServer' = Tail(toServer) /\ client' = client
          /\ server' = server /\ toClient' = toClient /\ overlapping' = overlapping
      BY <1>6 DEF RequestLost
    <2>2. QED BY <1>3, <2>1, RepeatedSound
  <1>7. CASE ReplyLost \/ ReplyDuplicated \/ ReplyDelayed
    <2>1. PICK i \in DOMAIN toClient :
            \/ toClient' = RemoveAt(toClient, i)
            \/ toClient' = InsertAt(toClient, i, toClient[i])
            \/ toClient' = Append(RemoveAt(toClient, i), toClient[i])
      <3>1. 1 .. Len(toClient) - 1 \subseteq DOMAIN toClient
        BY <1>1
      <3>2. QED BY <1>7, <3>1 DEF ReplyLost, ReplyDuplicated, ReplyDelayed
    <2>2. Range(toClient') \subseteq Range(toClient)
      BY <1>1, <2>1, RepliesKept
    <2>3. client' = client /\ server' = server /\ toServer' = toServer
          /\ overlapping' = overlapping
      BY <1>7 DEF ReplyLost, ReplyDuplicated, ReplyDelayed
    <2>4. QED BY <1>3, <2>2, <2>3, PacketsSound
  <1>8. CASE PrimaryLinkLost \/ PrimaryLinkFound
    <2>1. PICK link \in BOOLEAN : client' = [Quiet EXCEPT !.link = link]
      BY <1>8 DEF PrimaryLinkLost, PrimaryLinkFound
    <2>2. /\ client'.stage = client.stage /\ client'.missing = client.missing
          /\ client'.written = client.written /\ client'.listOffset = client.listOffset
          /\ client'.listed = client.listed /\ client'.expected = client.expected
          /\ client'.offset = client.offset /\ client'.signal = "none"
          /\ client'.unsent = client.unsent
      BY <1>1, <2>1 DEF Quiet, Clients
    <2>3. Channel' = Channel
      BY <1>8 DEF PrimaryLinkLost, PrimaryLinkFound, Channel
    <2>4. Sound(client, Channel) => Sound(client', Channel)
      BY <2>2, QuietIsSound
    <2>5. QED BY <2>2, <2>3, <2>4 DEF Safe
  <1>9. CASE UNCHANGED vars
    <2>1. client' = client /\ Channel' = Channel
      BY <1>9 DEF vars, Channel
    <2>2. QED BY <1>3, <2>1
  <1>10. QED BY <1>2, <1>4, <1>5, <1>6, <1>7, <1>8, <1>9 DEF Next

\* A download signalled as complete has every block of its file, whether it compares the size or
\* not, unless a request could not be sent or bursts have overlapped; and a listing has every
\* entry, once and in order, unless a request could not be sent (_mavlinkMessageReceived and its
\* handlers).  While the numbers are in their first half: a reply that half of them have
\* overtaken would be taken for a new one.
THEOREM ResultsAreWholeHolds ==
  ASSUME BurstFits
  PROVE  Spec /\ []FirstHalf(client) => []ResultsAreWhole
  <1>1. Init => Safe
    BY SafeInitially
  <1>2. IInv /\ IInv' /\ Safe /\ FirstHalf(client) /\ FirstHalf(client)' /\ [Next]_vars => Safe'
    BY NextKeepsSafe
  <1>3. Safe => ResultsAreWhole
    <2> SUFFICES ASSUME Safe PROVE ResultsAreWhole
      OBVIOUS
    <2>1. ~client.unsent /\ ~overlapping => Done(client)
      BY DEF Safe, Sound, Channel
    <2>2. CompleteIsWhole
      BY <2>1 DEF CompleteIsWhole, Done
    <2>3. ~client.unsent => Listing(client, Channel)
      BY DEF Safe, Sound
    <2>4. ListingIsWhole
      BY <2>3 DEF ListingIsWhole, Listing, Entries
    <2>5. QED BY <2>2, <2>4 DEF ResultsAreWhole
  <1>4. QED BY <1>1, <1>2, <1>3, Invariance, PTL DEF Spec

================================================================================
