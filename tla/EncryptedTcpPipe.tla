--------------------------- MODULE EncryptedTcpPipe ---------------------------
(***************************************************************************)
(* An encrypted TCP link (src/src/TcpConnection): EncryptedMavlinkLink     *)
(* over EncryptedTcpPipe over TcpClient, with what CryptoLinkMonitor shows *)
(* the user of it.                                                         *)
(*                                                                         *)
(* The objects of one link are one record; their functions are operators   *)
(* on it and call each other as the code does: the signals between them    *)
(* are direct, so that a step is one event of the socket, a timer or the   *)
(* user with every slot it reaches.  Bytes are seen as chunks that can be  *)
(* deciphered or not, with a MAVLink frame in them or not; ciphers, framing *)
(* and the length of the reconnection interval are left out.               *)
(***************************************************************************)
EXTENDS Integers

CONSTANTS
  MaxFailures     \* max_consecutive_failures

ASSUME PipeAssumption == MaxFailures \in Nat \ {0}

VARIABLES
  config,     \* the link's configuration
  pipe        \* the link's objects, and the monitor's two flags

vars == <<config, pipe>>

Configs ==
  [server : BOOLEAN, enabled : BOOLEAN, failOnError : BOOLEAN,
   validateMavlink : BOOLEAN]

Sockets == {"none", "unconnected", "connecting", "connected"}

\* The last two are history: failures since the start or since valid data
\* were last received, and whether a session has ended.
Pipes ==
  [kept : BOOLEAN, linkConnected : BOOLEAN,           \* EncryptedMavlinkLink
   started : BOOLEAN, connected : BOOLEAN, ready : BOOLEAN,
   sessions : BOOLEAN, failureStreak : 0 .. MaxFailures, suspended : BOOLEAN,
   watchdog : BOOLEAN, timeoutReported : BOOLEAN,     \* EncryptedTcpPipe
   socket : Sockets, listening : BOOLEAN,
   autoReconnect : BOOLEAN,                           \* TcpClient
   monitorConnected : BOOLEAN, monitorSuspended : BOOLEAN,
   failures : 0 .. MaxFailures, ended : BOOLEAN]

\* Objects as they are constructed; the monitor outlives them.
NewLink(monitorConnected, monitorSuspended) ==
  [kept |-> FALSE, linkConnected |-> FALSE, started |-> FALSE,
   connected |-> FALSE, ready |-> FALSE, sessions |-> FALSE,
   failureStreak |-> 0, suspended |-> FALSE, watchdog |-> FALSE,
   timeoutReported |-> FALSE, socket |-> "none", listening |-> FALSE,
   autoReconnect |-> TRUE, monitorConnected |-> monitorConnected,
   monitorSuspended |-> monitorSuspended, failures |-> 0, ended |-> FALSE]

-----------------------------------------------------------------------------
(* TcpClient and the slots of its signals.                                 *)

\* Mutant: the crypto sessions of a session that has ended stay open.
OnSocketDisconnected_SessionsLeft(s) ==
  IF s.connected
  THEN [s EXCEPT !.watchdog = FALSE, !.connected = FALSE,
                 !.autoReconnect = FALSE, !.linkConnected = FALSE,
                 !.monitorConnected = FALSE, !.ended = TRUE]
  ELSE [s EXCEPT !.watchdog = FALSE]

\* A session that ends is not begun again by itself.
OnSocketDisconnected(s) ==
  LET closed == [s EXCEPT !.watchdog = FALSE, !.sessions = FALSE]
  IN IF s.connected
     THEN [closed EXCEPT !.connected = FALSE, !.autoReconnect = FALSE,
                         !.linkConnected = FALSE, !.monitorConnected = FALSE,
                         !.ended = TRUE]
     ELSE closed

DisconnectFromServer(s) ==
  [s EXCEPT !.autoReconnect = FALSE, !.listening = FALSE, !.socket = "none"]

\* Mutant: the connection that is dropped is the last.
DropActiveConnection_Final(s) ==
  IF s.socket = "none" THEN s
  ELSE OnSocketDisconnected([s EXCEPT !.socket = "none",
                                      !.autoReconnect = FALSE])

DropActiveConnection(s) ==
  IF s.socket = "none" THEN s
  ELSE OnSocketDisconnected([s EXCEPT !.socket = "none"])

\* Mutant: the pipe that is suspended only drops its connection.
HandleFailure_Dropped(s) ==
  LET failed == [s EXCEPT !.failureStreak = @ + 1, !.failures = @ + 1]
  IN IF ~config.failOnError THEN s
     ELSE DropActiveConnection(
            IF failed.failureStreak >= MaxFailures
            THEN [failed EXCEPT !.suspended = TRUE, !.monitorSuspended = TRUE]
            ELSE failed)

\* With fail_on_error a failure ends the connection, and the last one allowed
\* in a row ends everything until the user says otherwise.
HandleFailure(s) ==
  LET failed == [s EXCEPT !.failureStreak = @ + 1, !.failures = @ + 1]
  IN IF ~config.failOnError THEN s
     ELSE IF failed.failureStreak >= MaxFailures
     THEN OnSocketDisconnected(
            DisconnectFromServer([failed EXCEPT !.suspended = TRUE,
                                                !.monitorSuspended = TRUE]))
     ELSE DropActiveConnection(failed)

\* opens: whether the crypto sessions can be opened.
OnSocketConnected(s, opens) ==
  IF config.enabled /\ ~(s.ready /\ opens)
  THEN HandleFailure([s EXCEPT !.sessions = FALSE])
  ELSE [s EXCEPT !.sessions = config.enabled, !.connected = TRUE,
                 !.linkConnected = TRUE, !.monitorConnected = TRUE,
                 !.watchdog = @ \/ config.validateMavlink,
                 !.timeoutReported = @ /\ ~config.validateMavlink]

ClearFailureState(s) ==
  [s EXCEPT !.failureStreak = 0, !.suspended = FALSE,
            !.monitorSuspended = @ /\ ~s.suspended]

-----------------------------------------------------------------------------
(* start and stop.                                                         *)

Stop(s) ==
  IF ~s.started /\ ~s.connected THEN s
  ELSE DisconnectFromServer(
         [s EXCEPT !.connected = FALSE, !.started = FALSE, !.watchdog = FALSE,
                   !.monitorConnected = FALSE, !.ready = FALSE,
                   !.sessions = FALSE])

\* TcpClient::start of a client waits for the connection, so that its signal
\* comes before start returns, and the pipe sees to the connection once more.
StartClient(s, reached, opens, opensAgain) ==
  LET up   == [s EXCEPT !.autoReconnect = TRUE,
                        !.socket = IF reached THEN "connected" ELSE "unconnected"]
      seen == IF reached THEN OnSocketConnected(up, opens) ELSE up
      on   == [seen EXCEPT !.autoReconnect = TRUE]
  IN IF on.socket = "connected" THEN OnSocketConnected(on, opensAgain) ELSE on

\* inits: whether the crypto module can be loaded; listens: whether the port
\* is free.
Start(s, inits, listens, reached, opens, opensAgain) ==
  LET reset == [Stop(s) EXCEPT !.failureStreak = 0, !.suspended = FALSE,
                               !.monitorSuspended = FALSE,
                               !.failures = 0, !.ended = FALSE]
      up    == DisconnectFromServer([reset EXCEPT !.started = TRUE,
                                                  !.ready = config.enabled])
  IN IF config.enabled /\ ~inits THEN reset
     ELSE IF config.server THEN [up EXCEPT !.listening = listens]
     ELSE StartClient(up, reached, opens, opensAgain)

-----------------------------------------------------------------------------
(* Steps.                                                                  *)

Becomes(s) == pipe' = s /\ UNCHANGED config

\* LinkManager keeps a link that has started, connected or not.
Connect ==
  /\ ~pipe.kept
  /\ \E inits, listens, reached, opens, opensAgain \in BOOLEAN :
       LET s == Start(pipe, inits, listens, reached, opens, opensAgain)
       IN Becomes(IF s.started THEN [s EXCEPT !.kept = TRUE]
                  ELSE NewLink(s.monitorConnected, s.monitorSuspended))

\* By the user, or with the vehicle that is closed.
Disconnect ==
  /\ pipe.kept
  /\ LET s == Stop(pipe)
     IN Becomes(NewLink(s.monitorConnected, s.monitorSuspended))

OnResumeRequested ==
  /\ pipe.kept
  /\ pipe.suspended
  /\ \E inits, listens, reached, opens, opensAgain \in BOOLEAN :
       Becomes(Start(pipe, inits, listens, reached, opens, opensAgain))

CheckConnection ==
  /\ ~config.server /\ pipe.kept /\ pipe.autoReconnect
  /\ pipe.socket \in {"none", "unconnected"}
  /\ Becomes([pipe EXCEPT !.socket = "connecting"])

OnConnected ==
  /\ pipe.socket = "connecting"
  /\ \E opens \in BOOLEAN :
       Becomes(OnSocketConnected([pipe EXCEPT !.socket = "connected"], opens))

OnErrorOccurred ==
  /\ pipe.socket = "connecting"
  /\ Becomes([pipe EXCEPT !.socket = "unconnected"])

\* A new connection takes the place of the one there may be.
OnNewConnection ==
  /\ pipe.listening
  /\ \E opens \in BOOLEAN :
       Becomes(OnSocketConnected([pipe EXCEPT !.socket = "connected"], opens))

OnDisconnected ==
  /\ pipe.socket = "connected"
  /\ Becomes([OnSocketDisconnected(pipe) EXCEPT
                !.socket = IF config.server THEN "none" ELSE "unconnected"])

\* A chunk that has been deciphered, and has a valid MAVLink frame in it or
\* need not have one; without one only a warning is counted.
InspectPlain ==
  /\ pipe.connected
  /\ Becomes([ClearFailureState(pipe) EXCEPT
                !.timeoutReported = @ /\ ~config.validateMavlink,
                !.failures = 0])

\* A chunk that cannot be deciphered, or a message that cannot be enciphered.
CipherFails ==
  /\ pipe.connected
  /\ config.enabled
  /\ Becomes(HandleFailure(pipe))

\* No valid data for too long, since the connection or since the last.
OnWatchdogTick ==
  /\ pipe.watchdog
  /\ pipe.connected /\ ~pipe.timeoutReported
  /\ Becomes(HandleFailure([pipe EXCEPT !.timeoutReported = TRUE]))

Init ==
  /\ config \in Configs
  /\ pipe = NewLink(FALSE, FALSE)

Next ==
  \/ Connect \/ Disconnect \/ OnResumeRequested
  \/ CheckConnection \/ OnConnected \/ OnErrorOccurred
  \/ OnNewConnection \/ OnDisconnected
  \/ InspectPlain \/ CipherFails \/ OnWatchdogTick

\* The reconnection timer runs.
Spec == Init /\ [][Next]_vars /\ WF_vars(CheckConnection)

-----------------------------------------------------------------------------
(* Properties.                                                             *)

\* The streak stays within the limit.
TypeOK ==
  /\ config \in Configs
  /\ pipe \in Pipes

\* The state has its type and the layers agree, whatever ends or replaces a
\* connection and at whichever layer it is noticed: link, pipe and monitor are
\* connected together, the socket with them, and the watchdog and the crypto
\* sessions belong to a connection.  Without fail_on_error sessions that cannot
\* be opened leave a connection that carries nothing.
LayersAgree ==
  /\ TypeOK
  /\ pipe.linkConnected = pipe.connected
  /\ pipe.monitorConnected = pipe.connected
  /\ pipe.connected => pipe.socket = "connected"
  /\ pipe.watchdog = (pipe.connected /\ config.validateMavlink)
  /\ config.failOnError =>
       /\ pipe.connected = (pipe.socket = "connected")
       /\ pipe.sessions = (pipe.connected /\ config.enabled)

\* A pipe is suspended by exactly MaxFailures failures with no valid data
\* between them, across however many connections, and the user sees it
\* (maxConsecutiveFailures, TngCryptoConfig.h:74).
SuspensionIsEarned ==
  pipe.kept =>
    /\ pipe.suspended <=> pipe.failures = MaxFailures
    /\ pipe.monitorSuspended = pipe.suspended

\* While a pipe is suspended nothing connects it again but the user
\* (EncryptedTcpPipe.h:32).  That takes a limit above one: the failure of the
\* first connection comes while start is still on its way.
SuspendedStaysDown ==
  pipe.suspended /\ MaxFailures > 1 =>
    pipe.socket = "none" /\ ~pipe.listening /\ ~pipe.autoReconnect

\* A suspension is earned, and lasts until the user ends it.
Suspension == SuspensionIsEarned /\ SuspendedStaysDown

\* A client that has not had a session tries again and again to get one,
\* however its attempts end, until it is suspended.
Unserved ==
  /\ pipe.started /\ ~config.server
  /\ ~pipe.suspended /\ ~pipe.ended
  /\ pipe.socket # "connected"

ClientKeepsTrying == Unserved ~> ~Unserved \/ pipe.socket = "connecting"

\* "Within the limit: drop the current connection only and retry after a
\* back-off" (EncryptedTcpPipe.cpp:221, in Korean).
FailuresAreRetried ==
  [][pipe'.failures = pipe.failures + 1 /\ ~pipe'.suspended =>
       pipe'.autoReconnect \/ pipe'.listening]_vars

=============================================================================
