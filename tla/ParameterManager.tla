--------------------------- MODULE ParameterManager ---------------------------
(***************************************************************************)
(* Parameter synchronisation (src/src/FactSystem/ParameterManager.cc): the *)
(* initial load by PARAM_REQUEST_LIST or by FTP, the re-requests of what   *)
(* is missing, the writes and their retries, and the facts they keep.      *)
(*                                                                         *)
(* The manager is a record and its functions are operators on it, so that  *)
(* an action is one event handler with every call it makes.  A request is  *)
(* lost or heard in the step that sends it; the vehicle's PARAM_VALUEs are *)
(* in the air, in order for each parameter, until they arrive or are lost. *)
(* The FTP client is seen from here only: a download is running or not,    *)
(* reports progress and ends (FTPTransfer models it).                      *)
(*                                                                         *)
(* A parameter is its component and its index; names, types, metadata, the *)
(* progress bar, log replay and high-latency links, the offline vehicle    *)
(* and the writing of the cache file, which is for a later connection, are *)
(* left out.                                                               *)
(***************************************************************************)
EXTENDS Integers, Sequences, SequencesExt, FiniteSets

CONSTANTS
  Autopilot,     \* MAV_COMP_ID_AUTOPILOT1, the default component
  Others,        \* ids of the other components
  Count,         \* parameters of each component
  Values,
  MaxListRetry,      \* _maxInitialRequestListRetry
  MaxIndexRetry,     \* _maxInitialLoadRetrySingleParam
  MaxReadWriteRetry, \* _maxReadWriteRetry
  MaxBatchSize,      \* maxBatchSize
  MaxAir,        \* bound: PARAM_VALUEs of one parameter in the air
  MaxCalls       \* bound: calls of the program and PARAM_VALUEs sent unasked

Components == {Autopilot} \cup Others

ASSUME ParameterAssumption ==
  /\ Components \subseteq Nat \ {0} /\ IsFiniteSet(Components)
  /\ Count \in [Components -> Nat \ {0}]
  /\ {MaxListRetry, MaxIndexRetry, MaxReadWriteRetry} \subseteq Nat \ {0}
  /\ {MaxBatchSize, MaxAir, MaxCalls} \subseteq Nat
  /\ 0 \in Values

CompIdAll == 0

ParamsOf(c) == {c} \X (0 .. Count[c] - 1)
Params      == UNION {ParamsOf(c) : c \in Components}
Index(p)    == p[2]

\* The order in which the maps of the code are walked.
Place(p) ==
  Cardinality({q \in Params : \/ q[1] < p[1]
                              \/ q[1] = p[1] /\ q[2] <= p[2]})
InOrder  == [i \in 1 .. Cardinality(Params) |-> CHOOSE p \in Params : Place(p) = i]

VARIABLES
  pm,        \* the ParameterManager
  value,     \* the vehicle's parameters
  air,       \* PARAM_VALUEs of each parameter on their way
  hash,      \* a _HASH_CHECK on its way: "none", "match" or "differ"
  calls      \* calls made and PARAM_VALUEs sent unasked

vars == <<pm, value, air, hash, calls>>

PartialFunctions(S, T) == UNION {[P -> T] : P \in SUBSET S}

Empty          == [p \in {} |-> 0]
Without(f, P)  == Restrict(f, DOMAIN f \ P)
With(f, g)     ==
  [p \in DOMAIN f \cup DOMAIN g |-> IF p \in DOMAIN g THEN g[p] ELSE f[p]]
File           == [p \in ParamsOf(Autopilot) |-> value[p]]

\* Facts of the default component exist.
HasDefault(s) == DOMAIN s.facts \cap ParamsOf(Autopilot) # {}

Waiting(s) ==
  DOMAIN s.waitIndex \cup DOMAIN s.waitName \cup DOMAIN s.waitWrite # {}

\* The last seven fields are history: a load has been asked for, its failure has
\* been shown, its timers have been stopped with nothing to follow; writes that
\* do not wait, without their answer or a report, writes reported as failed,
\* parameters that an older or damaged file or an older cache has made differ
\* from the vehicle's; the default component's facts are of a file read in
\* part, and nothing waits for the rest.
Init ==
  /\ \E apm, cached \in BOOLEAN :
       /\ cached => ~apm
       /\ pm = [initialTimer |-> FALSE, listRetries |-> 0, waitTimer |-> FALSE,
                waitingForDefault |-> FALSE, tryftp |-> apm, px4 |-> ~apm,
                cached |-> cached, known |-> {}, waitIndex |-> Empty, waitName |-> Empty,
                waitWrite |-> Empty, batchActive |-> FALSE, batch |-> {},
                failed |-> FALSE, facts |-> Empty, loaded |-> FALSE,
                missing |-> FALSE, file |-> Empty, heard |-> FALSE,
                progress |-> FALSE, out |-> {}, requested |-> FALSE,
                told |-> FALSE, left |-> FALSE, forgotten |-> {},
                reported |-> {}, stale |-> {}, partial |-> FALSE]
  /\ value = [p \in Params |-> 0]
  /\ air = [p \in Params |-> <<>>]
  /\ hash = "none"
  /\ calls = 0

Ask(s, kind, p) == [s EXCEPT !.out = @ \cup {[kind |-> kind, param |-> p]}]

-----------------------------------------------------------------------------
(* The initial load.                                                       *)

\* Mutant: given-up indices are not looked at.
_checkInitialLoadComplete_Fine(s) ==
  IF s.loaded \/ s.waitIndex # Empty \/ ~HasDefault(s) THEN s
  ELSE [s EXCEPT !.loaded = TRUE, !.missing = FALSE]

_checkInitialLoadComplete(s) ==
  IF s.loaded \/ s.waitIndex # Empty \/ ~HasDefault(s) THEN s
  ELSE [s EXCEPT !.loaded = TRUE, !.missing = s.failed]

\* One index of the walk: in the queue already, no room, given up, or asked.
FillIndex(s, p) ==
  IF \/ p \notin DOMAIN s.waitIndex
     \/ Index(p) \in s.batch
     \/ Cardinality(s.batch) > MaxBatchSize
  THEN s
  ELSE IF s.waitIndex[p] + 1 > MaxIndexRetry
       THEN [s EXCEPT !.failed = TRUE, !.waitIndex = Without(@, {p})]
       ELSE Ask([s EXCEPT !.waitIndex[p] = @ + 1,
                          !.batch = @ \cup {Index(p)}], "read", p)

\* The queue holds indices only, whatever their component.
_fillIndexBatchQueue(s, waitingParamTimeout) ==
  IF ~s.batchActive THEN s
  ELSE FoldLeft(FillIndex,
                IF waitingParamTimeout THEN [s EXCEPT !.batch = {}] ELSE s,
                InOrder)

\* All indices of a component wait once more.
WaitForAll(s, comps) ==
  [s EXCEPT !.waitIndex =
              With(@, [p \in UNION {ParamsOf(c) : c \in comps} |-> 0]),
            !.partial = @ /\ Autopilot \notin comps]

\* Called with a primary link; without one it returns at once.
refreshAllParameters(s, comp) ==
  LET timed == [s EXCEPT !.initialTimer = @ \/ ~s.loaded, !.requested = TRUE]
        byFtp == [timed EXCEPT !.waitTimer = FALSE,
                             !.left = @ \/ Waiting(s)]
  IN IF s.tryftp /\ comp \in {CompIdAll, Autopilot}
     THEN IF s.file = Empty
          THEN [byFtp EXCEPT !.file = File, !.heard = TRUE, !.progress = TRUE]
          \* download() refuses: the connection made is taken back, and with
          \* it the one of the download that is running.
          ELSE [byFtp EXCEPT !.heard = FALSE]
     ELSE Ask(WaitForAll(timed, IF comp = CompIdAll THEN s.known
                                ELSE s.known \cap {comp}),
              "list", comp)

_initialRequestTimeout(s, linked) ==
  LET tries == IF s.listRetries > MaxListRetry THEN s.listRetries
               ELSE s.listRetries + 1
      next  == [s EXCEPT !.listRetries = tries, !.initialTimer = FALSE]
  IN IF tries <= MaxListRetry
     THEN [(IF linked THEN refreshAllParameters(next, CompIdAll) ELSE next)
             EXCEPT !.initialTimer = TRUE]
     ELSE [next EXCEPT !.told = TRUE]

-----------------------------------------------------------------------------
(* PARAM_VALUE.                                                            *)

\* The write of p waits, and what has arrived is not its answer: another
\* value, or the same from before the vehicle has heard of the write, as its
\* own value or a PARAM_VALUE that is still to come tells.
Mistaken(s, p, v) ==
  IF /\ p \in DOMAIN s.waitWrite
     /\ {s.facts[p], value[p]} \cup {m.value : m \in Range(air[p])} # {v}
  THEN {p} ELSE {}

\* Mutant: the time-out is not started again for what is still missing.
Received_Untimed(s, p, v) ==
  _checkInitialLoadComplete(
    [s EXCEPT !.waitName = Without(@, {p}), !.waitWrite = Without(@, {p}),
              !.waitTimer = ~HasDefault(s),
              !.facts = With(@, [q \in {p} |-> v])])

\* The rest of _handleParamValue, once the index is off the lists: whether
\* the time-out goes on is decided before the fact exists.
Received(s, p, v) ==
  LET left == [s EXCEPT !.waitName = Without(@, {p}),
                        !.waitWrite = Without(@, {p}),
                        !.forgotten = @ \cup Mistaken(s, p, v)]
  IN _checkInitialLoadComplete(
       [left EXCEPT !.waitTimer = Waiting(left) \/ ~HasDefault(left),
                    !.facts = With(@, [q \in {p} |-> v])])

\* A component that is seen for the first time has all its indices to come.
Seen(s, c) ==
  LET seen == [s EXCEPT !.initialTimer = FALSE, !.known = @ \cup {c}]
  IN IF c \in s.known THEN seen ELSE WaitForAll(seen, {c})

_handleParamValue(s, p, v, indexed) ==
  LET seen == Seen(s, p[1])
      took == [seen EXCEPT !.waitIndex = Without(@, {p}),
                           !.batch = @ \ {Index(p)}]
  IN IF ~indexed /\ s.initialTimer THEN s
     ELSE Received(IF indexed /\ p \in DOMAIN seen.waitIndex
                   THEN _fillIndexBatchQueue(took, FALSE) ELSE seen, p, v)

\* One value of the cache.
FromCache(s, p) ==
  IF p \in ParamsOf(Autopilot) THEN _handleParamValue(s, p, 0, TRUE) ELSE s

\* _HASH_CHECK: a cache with this hash holds all of the component's values.
_tryCacheHashLoad(s) ==
  FoldLeft(FromCache,
           [s EXCEPT
              !.stale = @ \cup {p \in ParamsOf(Autopilot) : value[p] # 0},
              !.forgotten = @ \cup
                            (ParamsOf(Autopilot) \cap DOMAIN s.waitWrite)],
           InOrder)

HashCheck(s, matches) ==
  LET stopped == [s EXCEPT !.initialTimer = FALSE]
  IN IF s.loaded THEN stopped
     ELSE IF matches THEN _tryCacheHashLoad(stopped)
     ELSE [stopped EXCEPT !.left = @ \/ ~s.waitTimer]

-----------------------------------------------------------------------------
(* Time-outs.                                                              *)

\* Mutant: a write is given up without a word.
RetryWrite_Silent(s, p) ==
  IF p \notin DOMAIN s.waitWrite \/ Cardinality(s.out) > MaxBatchSize THEN s
  ELSE IF s.waitWrite[p] + 1 <= MaxReadWriteRetry
       THEN Ask([s EXCEPT !.waitWrite[p] = @ + 1], "set", p)
       ELSE [s EXCEPT !.waitWrite = Without(@, {p})]

\* A bounded number is sent again; those that were tried often enough are
\* reported and forgotten.
RetryWrite(s, p) ==
  IF p \notin DOMAIN s.waitWrite \/ Cardinality(s.out) > MaxBatchSize THEN s
  ELSE IF s.waitWrite[p] + 1 <= MaxReadWriteRetry
       THEN Ask([s EXCEPT !.waitWrite[p] = @ + 1], "set", p)
       ELSE [s EXCEPT !.waitWrite = Without(@, {p}),
                      !.reported = @ \cup {p}]

RetryName(s, p) ==
  IF p \notin DOMAIN s.waitName \/ Cardinality(s.out) > MaxBatchSize THEN s
  ELSE IF s.waitName[p] + 1 <= MaxReadWriteRetry
       THEN Ask([s EXCEPT !.waitName[p] = @ + 1], "read", p)
       ELSE [s EXCEPT !.waitName = Without(@, {p})]

\* Mutant: a write that has been sent again is not timed any more.
RetryNamed_Once(s) ==
  IF s.waitWrite # Empty THEN FoldLeft(RetryWrite, s, InOrder)
  ELSE IF s.waitName # Empty
       THEN [FoldLeft(RetryName, s, InOrder) EXCEPT !.waitTimer = TRUE]
       ELSE s

\* Writes first, reads when there are none.
RetryNamed(s) ==
  IF s.waitWrite # Empty
  THEN [FoldLeft(RetryWrite, s, InOrder) EXCEPT !.waitTimer = TRUE]
  ELSE IF s.waitName # Empty
       THEN [FoldLeft(RetryName, s, InOrder) EXCEPT !.waitTimer = TRUE]
       ELSE s

_waitingParamTimeout(s) ==
  LET filled == _fillIndexBatchQueue(
                  [s EXCEPT !.batchActive = TRUE, !.waitTimer = FALSE], TRUE)
      checked == _checkInitialLoadComplete(
                   [filled EXCEPT !.waitingForDefault = FALSE])
  IN IF filled.batch # {} THEN [checked EXCEPT !.waitTimer = TRUE]
     ELSE IF HasDefault(s) THEN RetryNamed(checked)
     ELSE IF ~s.waitingForDefault
          THEN [filled EXCEPT !.waitTimer = TRUE, !.waitingForDefault = TRUE]
          ELSE RetryNamed([checked EXCEPT !.left = TRUE])

-----------------------------------------------------------------------------
(* FTP.                                                                    *)

\* "bad" is a file that fails to parse, perhaps half way; "short" one that ends
\* within a value, which leaves the loop as a whole file does, and is taken for
\* one; "slow" an error after little progress.
Outcomes == {"ok", "short", "bad", "notFound", "slow", "error"}

\* The facts that the parse sets, one by one.  A download may end with a block
\* missing, and any value may come of it.
ReadFrom(outcome, download) ==
  CASE outcome = "ok"    -> {download, File}
    [] outcome = "short" -> PartialFunctions(ParamsOf(Autopilot), Values) \ {Empty}
    [] outcome = "bad"   -> PartialFunctions(ParamsOf(Autopilot), Values)
    [] OTHER             -> {Empty}

\* The facts that have been set stay when the parse fails.  When it does not,
\* all waiting lists are emptied.
_parseParamFile(s, file, fails) ==
  LET own  == ParamsOf(Autopilot)
      read == [s EXCEPT !.facts = With(@, file),
                        !.stale = @ \cup {p \in DOMAIN file : file[p] # value[p]}]
  IN IF fails
     THEN [read EXCEPT !.partial = @ \/ Autopilot \notin s.known]
     ELSE _checkInitialLoadComplete(
            [read EXCEPT !.known = @ \cup {Autopilot},
                         !.waitIndex = Without(@, own),
                         !.waitName = Without(@, own),
                         !.waitWrite = Without(@, own),
                         !.forgotten = @ \cup (own \cap DOMAIN s.waitWrite),
                         !.partial = DOMAIN file # own])

_ftpDownloadComplete(s, outcome, file, linked) ==
  LET off      == [s EXCEPT !.heard = FALSE, !.progress = FALSE]
      fallBack == [off EXCEPT !.tryftp = FALSE, !.listRetries = 0]
  IN IF outcome \in {"ok", "short"} THEN _parseParamFile(off, file, FALSE)
     ELSE IF outcome = "notFound" /\ s.listRetries = 0
          THEN _initialRequestTimeout(fallBack, linked)
     ELSE IF outcome = "bad"
          THEN [_parseParamFile(fallBack, file, TRUE) EXCEPT !.initialTimer = TRUE]
     ELSE IF outcome \in {"notFound", "slow"} \/ s.listRetries = 1
          THEN [fallBack EXCEPT !.initialTimer = TRUE]
     ELSE [off EXCEPT !.initialTimer = TRUE]

\* A download that the manager hears of stops the timer of the request.
Progress(s) ==
  [s EXCEPT !.initialTimer = FALSE, !.left = @ \/ ~s.heard \/ Waiting(s)]

-----------------------------------------------------------------------------
(* The vehicle.  It answers what it hears of the requests of a step.       *)

Answered(request, p) ==
  CASE request.kind = "list" -> request.param \in {CompIdAll, p[1]}
    [] OTHER                 -> request.param = p

\* The vehicle's values once it has heard the requests.
AfterSets(s, requests) ==
  [p \in Params |-> IF [kind |-> "set", param |-> p] \in requests
                    THEN s.facts[p] ELSE value[p]]

\* The handler left the manager in state s with its requests in s.out, and
\* the PARAM_VALUEs and the hash still on their way.  PX4 announces its hash
\* first.
Reply(after, still, coming) ==
  \E s \in {after} : \E requests \in SUBSET s.out :
    /\ value' = AfterSets(s, requests)
    /\ pm' = [s EXCEPT !.out = {}, !.stale = {p \in @ : s.facts[p] # value'[p]}]
    /\ air' = [p \in Params |->
                 IF Len(still[p]) < MaxAir
                    /\ \E request \in requests : Answered(request, p)
                 THEN Append(still[p], [value |-> value'[p], indexed |-> TRUE])
                 ELSE still[p]]
    /\ hash' = IF ~s.px4 \/ \A r \in requests : r.kind # "list" THEN coming
               ELSE IF s.cached /\ \A p \in ParamsOf(Autopilot) : value[p] = 0
                    THEN "match" ELSE "differ"

Step(after, still) == Reply(after, still, hash)

RefreshAll(comp) ==
  /\ calls < MaxCalls
  /\ calls' = calls + 1
  /\ Step(refreshAllParameters(pm, comp), air)

\* refreshParameter, of a parameter that exists.  A component that has not been
\* heard of has no waiting lists: the request is sent, and not repeated.
RefreshParameter(p) ==
  /\ calls < MaxCalls
  /\ p \in DOMAIN pm.facts
  /\ calls' = calls + 1
  /\ Step(Ask(IF p[1] \in pm.known
              THEN [pm EXCEPT !.waitName = With(@, [q \in {p} |-> 0]),
                              !.waitTimer = TRUE]
              ELSE pm, "read", p), air)

\* Fact::setRawValue and the _factRawValueUpdated it leads to.
Write(p, v) ==
  /\ calls < MaxCalls
  /\ p \in DOMAIN pm.facts
  /\ pm.facts[p] # v
  /\ calls' = calls + 1
  /\ LET set == [pm EXCEPT !.facts[p] = v]
     IN Step(Ask(IF p[1] \in pm.known
                 THEN [set EXCEPT !.waitTimer = TRUE,
                                  !.waitWrite = With(@, [q \in {p} |-> 0])]
                 ELSE [set EXCEPT !.forgotten = @ \cup {p}], "set", p), air)

\* mavlinkMessageReceived: while the load is to be done by FTP, the
\* autopilot's PARAM_VALUEs are not for us.
Deliver(p) ==
  /\ air[p] # <<>>
  /\ LET rest == [air EXCEPT ![p] = Tail(@)]
     IN IF pm.tryftp /\ p[1] = Autopilot /\ ~pm.loaded
        THEN Step(pm, rest)
        ELSE Step(_handleParamValue(pm, p, Head(air[p]).value,
                                    Head(air[p]).indexed), rest)
  /\ UNCHANGED calls

DeliverHash ==
  /\ hash # "none"
  /\ Reply(HashCheck(pm, hash = "match"), air, "none")
  /\ UNCHANGED calls

Lose(p) ==
  /\ air[p] # <<>>
  /\ air' = [air EXCEPT ![p] = Tail(@)]
  /\ UNCHANGED <<pm, value, hash, calls>>

LoseHash ==
  /\ hash # "none"
  /\ hash' = "none"
  /\ UNCHANGED <<pm, value, air, calls>>

\* A PARAM_VALUE that nobody asked for has index 65535.
Stream(p) ==
  /\ calls < MaxCalls
  /\ Len(air[p]) < MaxAir
  /\ calls' = calls + 1
  /\ air' = [air EXCEPT ![p] =
               Append(@, [value |-> value[p], indexed |-> FALSE])]
  /\ UNCHANGED <<pm, value, hash>>

InitialRequestTimeout ==
  /\ pm.initialTimer
  /\ \E linked \in BOOLEAN : Step(_initialRequestTimeout(pm, linked), air)
  /\ UNCHANGED calls

WaitingParamTimeout ==
  /\ pm.waitTimer
  /\ Step(_waitingParamTimeout(pm), air)
  /\ UNCHANGED calls

FtpProgress ==
  /\ pm.file # Empty
  /\ pm.progress
  /\ Step(Progress(pm), air)
  /\ UNCHANGED calls

\* A whole file is as old as the download, or newer.
FtpEnds ==
  /\ pm.file # Empty
  /\ \E outcome \in Outcomes, linked \in BOOLEAN :
       \E file \in ReadFrom(outcome, pm.file) :
         LET over == [pm EXCEPT !.file = Empty]
         IN Step(IF pm.heard
                 THEN _ftpDownloadComplete(over, outcome, file, linked)
                 ELSE over, air)
  /\ UNCHANGED calls

Next ==
  \/ \E comp \in Components \cup {CompIdAll} : RefreshAll(comp)
  \/ \E p \in Params : RefreshParameter(p) \/ Deliver(p) \/ Lose(p) \/ Stream(p)
  \/ \E p \in Params, v \in Values : Write(p, v)
  \/ DeliverHash \/ LoseHash
  \/ InitialRequestTimeout \/ WaitingParamTimeout
  \/ FtpProgress \/ FtpEnds

\* Timers run out, a message that is sent arrives or is lost, and FTPManager
\* always ends what it has begun.  Weak fairness is written out, with what
\* enables the action, to spare TLC the evaluation of ENABLED.
Fairness ==
  /\ ([]<>~(pm.initialTimer) \/ []<><<InitialRequestTimeout>>_vars)
  /\ ([]<>~(pm.waitTimer) \/ []<><<WaitingParamTimeout>>_vars)
  /\ ([]<>~(pm.file # Empty) \/ []<><<FtpEnds>>_vars)
  /\ ([]<>~(hash # "none") \/ []<><<DeliverHash \/ LoseHash>>_vars)
  /\ \A p \in Params : ([]<>~(air[p] # <<>>) \/ []<><<Deliver(p) \/ Lose(p)>>_vars)

Spec == Init /\ [][Next]_vars /\ Fairness

-----------------------------------------------------------------------------
\* The retry counts keep to their limits, the queue to its size, and only
\* indices that somebody waits for are in it.
TypeOK ==
  /\ pm.waitIndex \in PartialFunctions(Params, 0 .. MaxIndexRetry)
  /\ pm.waitName \in PartialFunctions(Params, 0 .. MaxReadWriteRetry)
  /\ pm.waitWrite \in PartialFunctions(DOMAIN pm.facts, 0 .. MaxReadWriteRetry)
  /\ pm.facts \in PartialFunctions(Params, Values)
  /\ pm.listRetries \in 0 .. MaxListRetry + 1
  /\ Cardinality(pm.batch) <= MaxBatchSize + 1
  /\ pm.out = {}
  /\ value \in [Params -> Values]
  /\ \A p \in Params : Len(air[p]) <= MaxAir
  /\ hash \in {"none", "match", "differ"}

\* A load that ends without missing parameters has all parameters of the
\* autopilot and of every component that has been heard of: indices that were
\* given up are not taken for received (_checkInitialLoadComplete,
\* _failedReadParamIndexMap).  What it may lack are parameters of the autopilot
\* after a file that was read in part, with no answer of the autopilot since:
\* that some of its facts exist is taken for all of them.
MissingIsTold ==
  [][~pm.loaded /\ pm'.loaded /\ ~pm'.missing =>
       \A c \in pm'.known \cup {Autopilot} :
         \/ ParamsOf(c) \subseteq DOMAIN pm'.facts
         \/ c = Autopilot /\ pm'.partial]_vars

\* The state has its type, and when nothing about a parameter is pending or
\* on its way, its fact has the vehicle's value, also after a file that failed
\* half way - but for a failed write that has been reported, a write that
\* another value answered or that a component without waiting lists did not
\* wait for, and a value from an older or damaged file or an older cache.
SettledFactsAgree ==
  /\ TypeOK
  /\ \A p \in DOMAIN pm.facts \ (pm.reported \cup pm.forgotten \cup pm.stale) :
       p \notin DOMAIN pm.waitWrite /\ air[p] = <<>> => pm.facts[p] = value[p]

\* A load that has been asked for over a link ends, or it is shown that the
\* vehicle does not answer - unless its last timer is stopped by a _HASH_CHECK,
\* by progress of a download whose end is not listened for, by the second
\* time-out of the wait for the default component, or by the start or progress
\* of a download while parameters of other components wait.
LoadEnds == pm.requested ~> pm.loaded \/ pm.told \/ pm.left

\* Writes are answered, or sent again until they are given up, whatever else is
\* being loaded: once the program makes no more, none waits.  With ArduPilot the
\* start of an FTP download stops their time-out.
WritesEnd == pm.px4 /\ pm.waitWrite # Empty ~> pm.waitWrite = Empty

=============================================================================
