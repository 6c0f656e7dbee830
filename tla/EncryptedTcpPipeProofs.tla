------------------------ MODULE EncryptedTcpPipeProofs ------------------------
(***************************************************************************)
(* Proofs about EncryptedTcpPipe: link, pipe, socket, crypto sessions and  *)
(* monitor agree, and a suspension is earned and lasts, for every          *)
(* configuration and every limit above one.  With a limit of one the first *)
(* failure may come while start is still on its way, which then switches   *)
(* the reconnection on again, and more failures follow than the limit is.  *)
(***************************************************************************)
EXTENDS EncryptedTcpPipe, TLAPS

LimitAboveOne == MaxFailures > 1

\* Link, pipe, socket and monitor, and the counts, whatever the sessions.
Layered(s) ==
  /\ s \in Pipes
  /\ s.linkConnected = s.connected
  /\ s.monitorConnected = s.connected
  /\ s.connected => s.socket = "connected"
  /\ s.watchdog = (s.connected /\ config.validateMavlink)
  /\ s.failureStreak = s.failures
  /\ s.monitorSuspended = s.suspended

\* The objects of a link between two steps.
Good(s) ==
  /\ Layered(s)
  /\ config.failOnError =>
       /\ s.connected = (s.socket = "connected")
       /\ s.sessions = (s.connected /\ config.enabled)
  /\ s.suspended <=> s.failures = MaxFailures
  /\ s.suspended => s.socket = "none" /\ ~s.listening /\ ~s.autoReconnect

\* The socket is up, and a failure would be counted.
Up(s) ==
  /\ Layered(s)
  /\ s.socket = "connected"
  /\ ~s.suspended /\ s.failures < MaxFailures

IInv ==
  /\ config \in Configs
  /\ IF pipe.kept THEN Good(pipe)
     ELSE \E m \in BOOLEAN : pipe = NewLink(FALSE, m)

-----------------------------------------------------------------------------
(* The functions of the link's objects.                                    *)

\* A session ends, if there was one.
LEMMA SessionEnds ==
  ASSUME NEW s \in Pipes, s.linkConnected = s.connected,
         s.monitorConnected = s.connected
  PROVE  LET r == OnSocketDisconnected(s)
         IN  /\ r \in Pipes
             /\ ~r.connected /\ ~r.linkConnected /\ ~r.monitorConnected
             /\ ~r.watchdog /\ ~r.sessions
             /\ r.autoReconnect => s.autoReconnect
             /\ r.kept = s.kept /\ r.started = s.started /\ r.socket = s.socket
             /\ r.listening = s.listening
             /\ r.failureStreak = s.failureStreak /\ r.failures = s.failures
             /\ r.suspended = s.suspended
             /\ r.monitorSuspended = s.monitorSuspended
<1> DEFINE closed == [s EXCEPT !.watchdog = FALSE, !.sessions = FALSE]
           over   == [closed EXCEPT !.connected = FALSE, !.autoReconnect = FALSE]
           all    == [over EXCEPT !.linkConnected = FALSE,
                                  !.monitorConnected = FALSE, !.ended = TRUE]
           r      == OnSocketDisconnected(s)
<1>1. /\ closed \in Pipes
      /\ ~closed.watchdog /\ ~closed.sessions
      /\ closed.connected = s.connected
      /\ closed.linkConnected = s.linkConnected
      /\ closed.monitorConnected = s.monitorConnected
      /\ closed.autoReconnect = s.autoReconnect
      /\ closed.kept = s.kept /\ closed.started = s.started
      /\ closed.socket = s.socket
      /\ closed.listening = s.listening
      /\ closed.failureStreak = s.failureStreak /\ closed.failures = s.failures
      /\ closed.suspended = s.suspended
      /\ closed.monitorSuspended = s.monitorSuspended
  BY DEF Pipes
<1>2. CASE s.connected
  <2>1. r = [closed EXCEPT !.connected = FALSE, !.autoReconnect = FALSE,
                           !.linkConnected = FALSE, !.monitorConnected = FALSE,
                           !.ended = TRUE]
    BY <1>2 DEF OnSocketDisconnected
  <2> HIDE DEF closed
  <2>2. r = all
    BY <1>1, <2>1 DEF Pipes
  <2> HIDE DEF r
  <2>3. /\ over \in Pipes
        /\ ~over.watchdog /\ ~over.sessions /\ ~over.connected
        /\ ~over.autoReconnect
        /\ over.kept = s.kept /\ over.started = s.started /\ over.socket = s.socket
        /\ over.listening = s.listening
        /\ over.failureStreak = s.failureStreak /\ over.failures = s.failures
        /\ over.suspended = s.suspended
        /\ over.monitorSuspended = s.monitorSuspended
    BY <1>1 DEF Pipes
  <2> HIDE DEF over
  <2>4. /\ all \in Pipes
        /\ ~all.watchdog /\ ~all.sessions /\ ~all.connected
        /\ ~all.autoReconnect /\ ~all.linkConnected /\ ~all.monitorConnected
        /\ all.kept = s.kept /\ all.started = s.started /\ all.socket = s.socket
        /\ all.listening = s.listening
        /\ all.failureStreak = s.failureStreak /\ all.failures = s.failures
        /\ all.suspended = s.suspended
        /\ all.monitorSuspended = s.monitorSuspended
    BY <2>3 DEF Pipes
  <2> HIDE DEF all
  <2>5. OnSocketDisconnected(s) = all
    BY <2>2 DEF r
  <2> QED BY <2>4, <2>5
<1>3. CASE ~s.connected
  <2>1. OnSocketDisconnected(s) = closed
    BY <1>3 DEF OnSocketDisconnected
  <2> HIDE DEF closed, r
  <2>2. ~closed.connected /\ ~closed.linkConnected /\ ~closed.monitorConnected
    BY <1>1, <1>3
  <2> QED BY <1>1, <2>1, <2>2
<1> QED BY <1>2, <1>3 DEF Pipes

\* A failure ends the connection, or everything.
LEMMA FailureHandled ==
  ASSUME config \in Configs, NEW s, Up(s)
  PROVE  /\ Good(HandleFailure(s))
         /\ HandleFailure(s).kept = s.kept /\ HandleFailure(s).started = s.started
         /\ HandleFailure(s).failures \in {s.failures, s.failures + 1}
<1> DEFINE failed == [s EXCEPT !.failureStreak = @ + 1, !.failures = @ + 1]
           last == DisconnectFromServer([failed EXCEPT !.suspended = TRUE,
                                                       !.monitorSuspended = TRUE])
           closed == [failed EXCEPT !.socket = "none"]
<1>1. CASE ~config.failOnError
  BY <1>1, PipeAssumption DEF HandleFailure, Up, Good, Layered, Pipes
<1>2. /\ failed \in Pipes /\ failed.kept = s.kept /\ failed.started = s.started
      /\ failed.connected = s.connected /\ failed.linkConnected = s.connected
      /\ failed.monitorConnected = s.connected
      /\ failed.failureStreak = failed.failures
      /\ ~failed.suspended /\ ~failed.monitorSuspended
      /\ failed.socket = "connected"
      /\ failed.failures = s.failures + 1
  <2>1. /\ s \in Pipes /\ s.failureStreak = s.failures
        /\ s.failures < MaxFailures /\ ~s.suspended /\ ~s.monitorSuspended
        /\ s.linkConnected = s.connected /\ s.monitorConnected = s.connected
        /\ s.socket = "connected"
    BY DEF Up, Layered
  <2>2. s.failures \in Nat /\ s.failures + 1 \in 0 .. MaxFailures
    BY <2>1, PipeAssumption DEF Pipes
  <2> QED BY <2>1, <2>2 DEF Pipes
<1>3. HandleFailure(s) =
        IF ~config.failOnError THEN s
        ELSE IF failed.failureStreak >= MaxFailures
        THEN OnSocketDisconnected(last)
        ELSE DropActiveConnection(failed)
  BY DEF HandleFailure
<1> HIDE DEF failed
<1>4. CASE config.failOnError /\ failed.failureStreak >= MaxFailures
  <2>1. /\ last \in Pipes /\ last.kept = s.kept /\ last.started = s.started
        /\ last.connected = s.connected /\ last.linkConnected = s.connected
        /\ last.monitorConnected = s.connected
        /\ last.failureStreak = failed.failures /\ last.failures = failed.failures
        /\ last.suspended /\ last.monitorSuspended
        /\ last.socket = "none" /\ ~last.listening /\ ~last.autoReconnect
    BY <1>2 DEF Pipes, Sockets, DisconnectFromServer
  <2>2. failed.failures = MaxFailures
    BY <1>2, <1>4, PipeAssumption DEF Pipes
  <2> HIDE DEF last
  <2> DEFINE r == OnSocketDisconnected(last)
  <2>3. /\ r \in Pipes /\ r.kept = s.kept /\ r.started = s.started
        /\ ~r.connected /\ ~r.linkConnected /\ ~r.monitorConnected
        /\ ~r.watchdog /\ ~r.sessions /\ ~r.autoReconnect /\ ~r.listening
        /\ r.socket = "none" /\ r.suspended /\ r.monitorSuspended
        /\ r.failureStreak = MaxFailures /\ r.failures = MaxFailures
        /\ r.failures = failed.failures
    BY <2>1, <2>2, SessionEnds
  <2>4. HandleFailure(s) = r
    BY <1>3, <1>4
  <2> HIDE DEF r
  <2>5. Good(r)
    BY <2>3, Zenon DEF Good, Layered, Pipes
  <2> QED BY <1>2, <2>3, <2>4, <2>5
<1>5. CASE config.failOnError /\ ~(failed.failureStreak >= MaxFailures)
  <2>1. /\ closed \in Pipes /\ closed.kept = s.kept /\ closed.started = s.started
        /\ closed.connected = s.connected /\ closed.linkConnected = s.connected
        /\ closed.monitorConnected = s.connected
        /\ closed.failureStreak = closed.failures
        /\ closed.failures = failed.failures
        /\ ~closed.suspended /\ ~closed.monitorSuspended
        /\ closed.socket = "none"
    BY <1>2 DEF Pipes, Sockets
  <2>2. failed.failures # MaxFailures
    BY <1>2, <1>5, PipeAssumption DEF Pipes
  <2>3. DropActiveConnection(failed) = OnSocketDisconnected(closed)
    BY <1>2 DEF DropActiveConnection
  <2> HIDE DEF closed
  <2> DEFINE r == OnSocketDisconnected(closed)
  <2>4. /\ r \in Pipes /\ r.kept = s.kept /\ r.started = s.started
        /\ ~r.connected /\ ~r.linkConnected /\ ~r.monitorConnected
        /\ ~r.watchdog /\ ~r.sessions
        /\ r.socket = "none" /\ ~r.suspended /\ ~r.monitorSuspended
        /\ r.failureStreak = r.failures /\ r.failures # MaxFailures
        /\ r.failures = failed.failures
    BY <2>1, <2>2, SessionEnds
  <2>5. HandleFailure(s) = r
    BY <1>3, <1>5, <2>3
  <2> HIDE DEF r
  <2>6. Good(r)
    BY <2>4, Zenon DEF Good, Layered, Pipes
  <2> QED BY <1>2, <2>4, <2>5, <2>6
<1> QED BY <1>1, <1>4, <1>5

\* A connection is announced, or fails.
LEMMA Connected ==
  ASSUME config \in Configs, NEW s, Up(s), NEW opens \in BOOLEAN
  PROVE  /\ Good(OnSocketConnected(s, opens))
         /\ OnSocketConnected(s, opens).kept = s.kept
         /\ OnSocketConnected(s, opens).started = s.started
         /\ OnSocketConnected(s, opens).failures \in {s.failures, s.failures + 1}
<1>1. CASE config.enabled /\ ~(s.ready /\ opens)
  <2> DEFINE unopened == [s EXCEPT !.sessions = FALSE]
  <2>1. /\ Up(unopened) /\ unopened.kept = s.kept /\ unopened.started = s.started
        /\ unopened.failures = s.failures
    BY DEF Up, Layered, Pipes
  <2> HIDE DEF unopened
  <2>2. OnSocketConnected(s, opens) = HandleFailure(unopened)
    BY <1>1 DEF OnSocketConnected, unopened
  <2> QED BY <2>1, <2>2, FailureHandled
<1>2. CASE ~(config.enabled /\ ~(s.ready /\ opens))
  <2> DEFINE carried == [s EXCEPT !.sessions = config.enabled, !.connected = TRUE]
             told == [carried EXCEPT !.linkConnected = TRUE,
                                     !.monitorConnected = TRUE]
             r == [told EXCEPT !.watchdog = @ \/ config.validateMavlink,
                               !.timeoutReported = @ /\ ~config.validateMavlink]
  <2>1. OnSocketConnected(s, opens) = r
    BY <1>2 DEF OnSocketConnected, Up, Layered, Pipes
  <2>2. /\ s \in Pipes /\ s.failureStreak = s.failures
        /\ s.failures # MaxFailures /\ ~s.suspended /\ ~s.monitorSuspended
        /\ s.watchdog => config.validateMavlink
        /\ s.socket = "connected"
    BY PipeAssumption DEF Up, Layered, Pipes
  <2>3. config.enabled \in BOOLEAN /\ config.validateMavlink \in BOOLEAN
    BY DEF Configs
  <2>4. /\ carried \in Pipes /\ carried.kept = s.kept /\ carried.started = s.started
        /\ carried.connected
        /\ carried.sessions = config.enabled
        /\ carried.watchdog = s.watchdog
        /\ carried.failureStreak = s.failureStreak
        /\ carried.failures = s.failures
        /\ ~carried.suspended /\ ~carried.monitorSuspended
        /\ carried.socket = "connected"
    BY <2>2, <2>3 DEF Pipes
  <2> HIDE DEF carried
  <2>5. /\ told \in Pipes /\ told.kept = s.kept /\ told.started = s.started
        /\ told.connected
        /\ told.linkConnected /\ told.monitorConnected
        /\ told.sessions = config.enabled
        /\ told.watchdog = s.watchdog
        /\ told.failureStreak = s.failureStreak /\ told.failures = s.failures
        /\ ~told.suspended /\ ~told.monitorSuspended
        /\ told.socket = "connected"
    BY <2>4 DEF Pipes
  <2> HIDE DEF told
  <2>6. /\ r \in Pipes /\ r.kept = s.kept /\ r.started = s.started /\ r.connected
        /\ r.linkConnected /\ r.monitorConnected
        /\ r.sessions = config.enabled
        /\ r.watchdog = config.validateMavlink
        /\ r.failureStreak = s.failureStreak /\ r.failures = s.failures
        /\ ~r.suspended /\ ~r.monitorSuspended
        /\ r.socket = "connected"
    <3>1. /\ (told.watchdog \/ config.validateMavlink) = config.validateMavlink
          /\ (told.timeoutReported /\ ~config.validateMavlink) \in BOOLEAN
      BY <2>2, <2>3, <2>5
    <3>2. r = [told EXCEPT !.watchdog = config.validateMavlink,
                           !.timeoutReported = @ /\ ~config.validateMavlink]
      BY <2>5, <3>1 DEF Pipes
    <3> DEFINE reported == told.timeoutReported /\ ~config.validateMavlink
    <3>3. r = [told EXCEPT !.watchdog = config.validateMavlink,
                           !.timeoutReported = reported]
      BY <3>2
    <3>4. reported \in BOOLEAN
      OBVIOUS
    <3> HIDE DEF r, reported
    <3> QED BY <2>3, <2>5, <3>3, <3>4 DEF Pipes
  <2> HIDE DEF r
  <2>7. Good(r)
    BY <2>2, <2>3, <2>6, Zenon DEF Good, Layered, Pipes
  <2> QED BY <2>1, <2>6, <2>7
<1> QED BY <1>1, <1>2

\* Valid data makes the failures forgotten.
LEMMA FailuresForgotten ==
  ASSUME config \in Configs, NEW s, Good(s), s.connected
  PROVE  LET r == [ClearFailureState(s) EXCEPT
                     !.timeoutReported = @ /\ ~config.validateMavlink,
                     !.failures = 0]
         IN  Good(r) /\ r.kept = s.kept
<1> DEFINE cleared == ClearFailureState(s)
           r == [cleared EXCEPT
                   !.timeoutReported = @ /\ ~config.validateMavlink,
                   !.failures = 0]
<1>1. /\ s \in Pipes /\ s.socket = "connected"
      /\ s.linkConnected /\ s.monitorConnected
      /\ s.watchdog = config.validateMavlink
      /\ config.failOnError => s.sessions = config.enabled
      /\ ~s.suspended /\ ~s.monitorSuspended
  BY DEF Good, Layered, Pipes, Configs
<1>2. /\ cleared \in Pipes /\ cleared.kept = s.kept /\ cleared.connected
      /\ cleared.socket = "connected"
      /\ cleared.linkConnected /\ cleared.monitorConnected
      /\ cleared.watchdog = config.validateMavlink
      /\ cleared.sessions = s.sessions
      /\ ~cleared.suspended /\ ~cleared.monitorSuspended
      /\ cleared.failureStreak = 0
  <2>1. (s.monitorSuspended /\ ~s.suspended) = FALSE
    BY <1>1
  <2>2. cleared = [s EXCEPT !.failureStreak = 0, !.suspended = FALSE,
                            !.monitorSuspended = FALSE]
    BY <1>1, <2>1 DEF ClearFailureState, Pipes
  <2> HIDE DEF cleared
  <2>3. 0 \in 0 .. MaxFailures
    BY PipeAssumption
  <2> QED BY <1>1, <2>2, <2>3 DEF Pipes
<1> HIDE DEF cleared
<1>3. /\ r \in Pipes /\ r.kept = s.kept /\ r.connected
      /\ r.socket = "connected" /\ r.linkConnected /\ r.monitorConnected
      /\ r.watchdog = config.validateMavlink
      /\ r.sessions = s.sessions
      /\ ~r.suspended /\ ~r.monitorSuspended
      /\ r.failureStreak = 0 /\ r.failures = 0
  BY <1>2, PipeAssumption DEF Configs, Pipes
<1> HIDE DEF r
<1>4. MaxFailures # 0
  BY PipeAssumption
<1>5. Good(r)
  BY <1>1, <1>3, <1>4, Zenon DEF Good, Layered, Pipes, Configs
<1> QED BY <1>3, <1>5 DEF r, cleared

\* A link that is not connected, as start and the end of stop find it.
Down(s) ==
  /\ s \in Pipes
  /\ ~s.connected /\ ~s.linkConnected /\ ~s.monitorConnected
  /\ ~s.watchdog /\ s.socket = "none"
  /\ config.failOnError => ~s.sessions

\* With nothing counted it is as it should be.
LEMMA DownIsGood ==
  ASSUME config \in Configs, NEW s, Down(s), ~s.suspended, ~s.monitorSuspended,
         s.failureStreak = 0, s.failures = 0
  PROVE  Good(s)
<1>1. MaxFailures # 0
  BY PipeAssumption
<1> QED BY <1>1, Zenon DEF Down, Good, Layered, Pipes, Configs

\* stop leaves it so.
LEMMA Stopped ==
  ASSUME NEW s, Down(s)
  PROVE  /\ Down(Stop(s)) /\ Stop(s).kept = s.kept
<1> DEFINE off == [s EXCEPT !.connected = FALSE, !.started = FALSE,
                            !.watchdog = FALSE, !.monitorConnected = FALSE,
                            !.ready = FALSE, !.sessions = FALSE]
<1>1. CASE ~s.started
  BY <1>1 DEF Stop, Down
<1>2. CASE s.started
  <2>1. Stop(s) = DisconnectFromServer(off)
    BY <1>2 DEF Stop
  <2>2. /\ off \in Pipes /\ off.kept = s.kept
        /\ ~off.connected /\ ~off.monitorConnected /\ ~off.linkConnected
        /\ ~off.watchdog /\ ~off.sessions
    BY DEF Down, Pipes
  <2> HIDE DEF off
  <2>3. /\ Down(DisconnectFromServer(off))
        /\ DisconnectFromServer(off).kept = s.kept
    BY <2>2 DEF DisconnectFromServer, Down, Pipes, Sockets
  <2> QED BY <2>1, <2>3
<1> QED BY <1>1, <1>2

\* start, from a link that is down.
LEMMA Started ==
  ASSUME LimitAboveOne, config \in Configs, NEW s, Down(s),
         NEW inits \in BOOLEAN, NEW listens \in BOOLEAN, NEW reached \in BOOLEAN,
         NEW opens \in BOOLEAN, NEW opensAgain \in BOOLEAN
  PROVE  LET r == Start(s, inits, listens, reached, opens, opensAgain)
         IN  Good(r) /\ r.kept = s.kept /\ (r.connected => r.started)
<1> DEFINE stopped == Stop(s)
           calm  == [stopped EXCEPT !.failureStreak = 0, !.suspended = FALSE,
                                    !.monitorSuspended = FALSE]
           reset == [calm EXCEPT !.failures = 0, !.ended = FALSE]
           begun == [reset EXCEPT !.started = TRUE, !.ready = config.enabled]
           up    == DisconnectFromServer(begun)
<1>1. Down(stopped) /\ stopped.kept = s.kept
  BY Stopped
<1>2. Start(s, inits, listens, reached, opens, opensAgain) =
        IF config.enabled /\ ~inits THEN reset
        ELSE IF config.server THEN [up EXCEPT !.listening = listens]
        ELSE StartClient(up, reached, opens, opensAgain)
  <2> DEFINE all == [stopped EXCEPT !.failureStreak = 0, !.suspended = FALSE,
                                    !.monitorSuspended = FALSE,
                                    !.failures = 0, !.ended = FALSE]
  <2>1. all = reset
    <3> HIDE DEF stopped
    <3> QED BY <1>1 DEF Down, Pipes
  <2>2. Start(s, inits, listens, reached, opens, opensAgain) =
          IF config.enabled /\ ~inits THEN all
          ELSE LET late == DisconnectFromServer(
                             [all EXCEPT !.started = TRUE,
                                         !.ready = config.enabled])
               IN  IF config.server THEN [late EXCEPT !.listening = listens]
                   ELSE StartClient(late, reached, opens, opensAgain)
    BY DEF Start
  <2> HIDE DEF all, stopped
  <2> QED BY <2>1, <2>2
<1> HIDE DEF stopped
<1>3. /\ Down(reset) /\ reset.kept = s.kept
      /\ ~reset.suspended /\ ~reset.monitorSuspended
      /\ reset.failureStreak = 0 /\ reset.failures = 0
  <2>1. 0 \in 0 .. MaxFailures
    BY PipeAssumption
  <2>2. /\ Down(calm) /\ calm.kept = s.kept
        /\ ~calm.suspended /\ ~calm.monitorSuspended
        /\ calm.failureStreak = 0
    BY <1>1, <2>1 DEF Down, Pipes
  <2> HIDE DEF calm
  <2> QED BY <2>1, <2>2 DEF Down, Pipes
<1> HIDE DEF reset
<1>4. /\ Down(begun) /\ begun.kept = s.kept /\ begun.started
      /\ ~begun.suspended /\ ~begun.monitorSuspended
      /\ begun.failureStreak = 0 /\ begun.failures = 0
  BY <1>3 DEF Down, Pipes, Configs
<1> HIDE DEF begun
<1>5. /\ Down(up) /\ up.kept = s.kept /\ up.started
      /\ ~up.suspended /\ ~up.monitorSuspended
      /\ up.failureStreak = 0 /\ up.failures = 0
  BY <1>4 DEF DisconnectFromServer, Down, Pipes, Sockets
<1> HIDE DEF up
<1>6. CASE config.enabled /\ ~inits
  BY <1>2, <1>3, <1>6, DownIsGood DEF Down
<1>7. CASE ~(config.enabled /\ ~inits) /\ config.server
  <2> DEFINE r == [up EXCEPT !.listening = listens]
  <2>1. /\ Down(r) /\ r.kept = s.kept /\ r.started
        /\ ~r.suspended /\ ~r.monitorSuspended
        /\ r.failureStreak = 0 /\ r.failures = 0
    BY <1>5 DEF Down, Pipes
  <2> QED BY <1>2, <1>7, <2>1, DownIsGood
<1>8. CASE ~(config.enabled /\ ~inits) /\ ~config.server
  <2> DEFINE socket == IF reached THEN "connected" ELSE "unconnected"
             tried  == [up EXCEPT !.autoReconnect = TRUE, !.socket = socket]
             seen   == IF reached THEN OnSocketConnected(tried, opens) ELSE tried
             on     == [seen EXCEPT !.autoReconnect = TRUE]
             r      == IF on.socket = "connected"
                       THEN OnSocketConnected(on, opensAgain) ELSE on
  <2>1. Start(s, inits, listens, reached, opens, opensAgain) = r
    BY <1>2, <1>8 DEF StartClient
  <2>2. /\ tried \in Pipes /\ tried.kept = s.kept /\ tried.started
        /\ tried.socket = socket
        /\ ~tried.connected /\ ~tried.linkConnected /\ ~tried.monitorConnected
        /\ ~tried.watchdog
        /\ config.failOnError => ~tried.sessions
        /\ ~tried.suspended /\ ~tried.monitorSuspended
        /\ tried.failureStreak = 0 /\ tried.failures = 0
    BY <1>5 DEF Down, Pipes, Sockets
  <2>3. socket # "connected" <=> ~reached
    OBVIOUS
  <2>4. 0 # MaxFailures /\ 0 < MaxFailures /\ 0 + 1 < MaxFailures
    BY PipeAssumption DEF LimitAboveOne
  <2> HIDE DEF tried, socket
  <2>5. Good(seen) /\ seen.kept = s.kept /\ seen.started
      /\ seen.failures < MaxFailures
    <3>1. CASE reached
      <4>1. Up(tried)
        BY <2>2, <2>3, <2>4, <3>1, Zenon DEF Up, Layered, Pipes, Configs
      <4> QED BY <2>2, <2>4, <3>1, <4>1, Connected
    <3>2. CASE ~reached
      <4>1. Good(tried)
        BY <2>2, <2>3, <2>4, <3>2, Zenon DEF Good, Layered, Pipes, Configs
      <4> QED BY <2>2, <2>4, <3>2, <4>1
    <3> QED BY <3>1, <3>2
  <2> HIDE DEF seen
  <2>6. /\ seen \in Pipes /\ ~seen.suspended /\ ~seen.monitorSuspended
        /\ seen.failures # MaxFailures
        /\ seen.failureStreak = seen.failures
        /\ seen.linkConnected = seen.connected
        /\ seen.monitorConnected = seen.connected
        /\ seen.connected => seen.socket = "connected"
        /\ seen.watchdog = (seen.connected /\ config.validateMavlink)
        /\ config.failOnError =>
             /\ seen.connected = (seen.socket = "connected")
             /\ seen.sessions = (seen.connected /\ config.enabled)
    <3>1. seen.failures # MaxFailures
      BY <2>5, PipeAssumption DEF Good, Layered, Pipes
    <3> QED BY <2>5, <3>1 DEF Good, Layered
  <2>7. /\ on \in Pipes /\ on.kept = s.kept /\ on.started
        /\ ~on.suspended /\ ~on.monitorSuspended
        /\ on.socket = seen.socket /\ on.sessions = seen.sessions
        /\ on.connected = seen.connected /\ on.watchdog = seen.watchdog
        /\ on.linkConnected = seen.linkConnected
        /\ on.monitorConnected = seen.monitorConnected
        /\ on.failures = seen.failures
        /\ on.failureStreak = seen.failureStreak
    BY <2>5, <2>6 DEF Pipes
  <2> HIDE DEF on
  <2>8. Layered(on)
    BY <2>6, <2>7, Zenon DEF Layered, Pipes
  <2>9. CASE on.socket = "connected"
    <3>1. Up(on)
      BY <2>5, <2>7, <2>8, <2>9 DEF Up
    <3> QED BY <2>1, <2>7, <2>9, <3>1, Connected
  <2>10. CASE on.socket # "connected"
    <3>1. Good(on)
      BY <2>6, <2>7, <2>8, <2>10, Zenon DEF Good
    <3> QED BY <2>1, <2>7, <2>10, <3>1
  <2> QED BY <2>9, <2>10
<1> QED BY <1>6, <1>7, <1>8

-----------------------------------------------------------------------------
(* The steps.                                                              *)

\* What a step on a kept link starts from.
LEMMA KeptIsGood ==
  ASSUME IInv, pipe.kept
  PROVE  /\ config \in Configs /\ pipe \in Pipes /\ Good(pipe)
         /\ ~pipe.suspended => pipe.failures < MaxFailures
         /\ pipe.socket = "connected" => Up(pipe)
<1>1. config \in Configs /\ Good(pipe)
  BY DEF IInv
<1>2. pipe \in Pipes /\ (~pipe.suspended => pipe.failures < MaxFailures)
  BY <1>1, PipeAssumption DEF Good, Layered, Pipes
<1> QED BY <1>1, <1>2 DEF Good, Up

\* Nothing is up before the link is kept.
LEMMA NewIsDown ==
  ASSUME IInv, ~pipe.kept
  PROVE  /\ Down(pipe) /\ ~pipe.sessions /\ ~pipe.listening /\ pipe.socket = "none"
         /\ ~pipe.suspended /\ pipe.failures = 0
<1>1. PICK m \in BOOLEAN : pipe = NewLink(FALSE, m)
  BY DEF IInv
<1>2. 0 \in 0 .. MaxFailures
  BY PipeAssumption
<1> QED BY <1>1, <1>2 DEF NewLink, Down, Pipes, Sockets

\* A new link is not kept yet.
LEMMA Initially == Init => IInv
<1> SUFFICES ASSUME Init PROVE IInv
  OBVIOUS
<1>1. ~pipe.kept /\ pipe = NewLink(FALSE, FALSE)
  BY DEF Init, NewLink
<1> QED BY <1>1 DEF Init, IInv

\* A step that leaves the objects of the link as they should be.
LEMMA StaysGood ==
  ASSUME NEW s, config \in Configs, Good(s), s.kept, Becomes(s)
  PROVE  IInv'
<1>1. pipe' = s /\ config' = config
  BY DEF Becomes
<1>2. Good(pipe)'
  BY <1>1 DEF Good, Layered, Pipes
<1> QED BY <1>1, <1>2 DEF IInv, Configs

\* A link is made and started, and kept if it has started.
LEMMA ConnectKeeps ==
  ASSUME LimitAboveOne, IInv, Connect
  PROVE  IInv'
<1>1. PICK inits \in BOOLEAN, listens \in BOOLEAN, reached \in BOOLEAN,
           opens \in BOOLEAN, opensAgain \in BOOLEAN :
        LET s == Start(pipe, inits, listens, reached, opens, opensAgain)
        IN  Becomes(IF s.started THEN [s EXCEPT !.kept = TRUE]
                    ELSE NewLink(s.monitorConnected, s.monitorSuspended))
  BY DEF Connect
<1> DEFINE s == Start(pipe, inits, listens, reached, opens, opensAgain)
           kept == [s EXCEPT !.kept = TRUE]
<1>2. config \in Configs /\ Down(pipe)
  BY NewIsDown DEF IInv, Connect
<1>3. Good(s) /\ (s.connected => s.started)
  BY <1>2, Started
<1>4. Becomes(IF s.started THEN kept
              ELSE NewLink(s.monitorConnected, s.monitorSuspended))
  BY <1>1
<1> HIDE DEF s
<1>5. CASE s.started
  <2>1. Good(kept) /\ kept.kept
    BY <1>3 DEF Good, Layered, Pipes
  <2> HIDE DEF kept
  <2> QED BY <1>2, <1>4, <1>5, <2>1, StaysGood
<1>6. CASE ~s.started
  <2>1. s.monitorConnected \in BOOLEAN /\ s.monitorSuspended \in BOOLEAN
    BY <1>3 DEF Good, Layered, Pipes
  <2>2. /\ pipe' = NewLink(s.monitorConnected, s.monitorSuspended)
        /\ config' = config
    BY <1>4, <1>6 DEF Becomes
  <2>3. s.monitorConnected = FALSE
    BY <1>3, <1>6 DEF Good, Layered
  <2> QED BY <1>2, <2>1, <2>2, <2>3 DEF IInv, NewLink
<1> QED BY <1>5, <1>6

\* A link that is suspended is started again.
LEMMA ResumeKeeps ==
  ASSUME LimitAboveOne, IInv, OnResumeRequested
  PROVE  IInv'
<1>1. PICK inits \in BOOLEAN, listens \in BOOLEAN, reached \in BOOLEAN,
           opens \in BOOLEAN, opensAgain \in BOOLEAN :
        Becomes(Start(pipe, inits, listens, reached, opens, opensAgain))
  BY DEF OnResumeRequested
<1>2. config \in Configs /\ Good(pipe) /\ pipe.kept /\ pipe.suspended
  BY KeptIsGood DEF OnResumeRequested
<1>3. Down(pipe)
  BY <1>2, Zenon DEF Good, Layered, Down, Pipes, Configs
<1> DEFINE s == Start(pipe, inits, listens, reached, opens, opensAgain)
<1>4. Becomes(s)
  BY <1>1
<1>5. Good(s) /\ s.kept
  <2>1. s.kept = pipe.kept
    <3>1. config \in Configs
      BY <1>2
    <3> QED BY <1>3, <3>1, Started
  <2>2. Good(s)
    BY <1>2, <1>3, Started
  <2> QED BY <1>2, <2>1, <2>2
<1> HIDE DEF s
<1> QED BY <1>2, <1>4, <1>5, StaysGood

\* The link is disconnected; a new one is down.
LEMMA DisconnectKeeps == ASSUME IInv, Disconnect PROVE IInv'
<1>1. config \in Configs /\ Good(pipe)
  BY KeptIsGood DEF Disconnect
<1> DEFINE s == Stop(pipe)
<1>2. /\ pipe' = NewLink(s.monitorConnected, s.monitorSuspended)
      /\ config' = config
  BY DEF Disconnect, Becomes
<1>3. s.monitorConnected = FALSE /\ s.monitorSuspended \in BOOLEAN
  <2>1. CASE ~pipe.started /\ ~pipe.connected
    BY <1>1, <2>1 DEF Stop, Good, Layered, Pipes
  <2>2. CASE ~(~pipe.started /\ ~pipe.connected)
    BY <1>1, <2>2 DEF Stop, DisconnectFromServer, Good, Layered, Pipes
  <2> QED BY <2>1, <2>2
<1> HIDE DEF s
<1> QED BY <1>1, <1>2, <1>3 DEF IInv, NewLink

\* The reconnection timer, and a connection that cannot be made.
LEMMA AttemptKeeps ==
  ASSUME IInv, CheckConnection \/ OnErrorOccurred
  PROVE  IInv'
<1>1. PICK socket \in {"connecting", "unconnected"} :
        /\ pipe.kept /\ pipe.socket # "connected"
        /\ pipe.socket = "none" => pipe.autoReconnect
        /\ Becomes([pipe EXCEPT !.socket = socket])
  BY NewIsDown DEF CheckConnection, OnErrorOccurred
<1> DEFINE s == [pipe EXCEPT !.socket = socket]
<1>2. /\ config \in Configs /\ Good(pipe)
  BY <1>1, KeptIsGood
<1>3. ~pipe.suspended /\ ~pipe.connected
  BY <1>1, <1>2 DEF Good, Layered
<1>4. Good(s) /\ s.kept
  BY <1>1, <1>2, <1>3 DEF Good, Layered, Pipes, Sockets
<1>5. Becomes(s)
  BY <1>1
<1> HIDE DEF s
<1> QED BY <1>2, <1>4, <1>5, StaysGood

\* A connection is there, of a client or at a server.
LEMMA ConnectionKeeps ==
  ASSUME IInv, OnConnected \/ OnNewConnection
  PROVE  IInv'
<1> DEFINE on == [pipe EXCEPT !.socket = "connected"]
<1>1. PICK opens \in BOOLEAN : Becomes(OnSocketConnected(on, opens))
  BY DEF OnConnected, OnNewConnection
<1>2. pipe.kept
  BY NewIsDown DEF OnConnected, OnNewConnection
<1>3. /\ config \in Configs /\ Good(pipe)
      /\ ~pipe.suspended => pipe.failures < MaxFailures
  BY <1>2, KeptIsGood
<1>4. ~pipe.suspended
  BY <1>3 DEF OnConnected, OnNewConnection, Good
<1>5. Up(on) /\ on.kept
  BY <1>2, <1>3, <1>4 DEF Good, Up, Layered, Pipes, Sockets
<1> HIDE DEF on
<1> DEFINE s == OnSocketConnected(on, opens)
<1>6. Good(s) /\ s.kept = on.kept
  BY <1>3, <1>5, Connected
<1>7. Becomes(s)
  BY <1>1
<1> HIDE DEF s
<1> QED BY <1>3, <1>5, <1>6, <1>7, StaysGood

\* The connection is lost.
LEMMA DisconnectionKeeps == ASSUME IInv, OnDisconnected PROVE IInv'
<1> DEFINE socket == IF config.server THEN "none" ELSE "unconnected"
           over   == OnSocketDisconnected(pipe)
           s      == [over EXCEPT !.socket = socket]
<1>1. pipe.kept
  BY NewIsDown DEF OnDisconnected
<1>2. config \in Configs /\ pipe \in Pipes /\ Good(pipe) /\ Up(pipe)
  BY <1>1, KeptIsGood DEF OnDisconnected
<1>3. /\ over \in Pipes /\ over.kept
      /\ ~over.connected /\ ~over.linkConnected /\ ~over.monitorConnected
      /\ ~over.watchdog /\ ~over.sessions
      /\ over.failureStreak = over.failures /\ over.failures # MaxFailures
      /\ ~over.suspended /\ ~over.monitorSuspended
  <2>1. /\ pipe.linkConnected = pipe.connected
        /\ pipe.monitorConnected = pipe.connected
        /\ pipe.failureStreak = pipe.failures /\ pipe.failures # MaxFailures
        /\ ~pipe.suspended /\ ~pipe.monitorSuspended
    BY <1>2, PipeAssumption DEF Up, Good, Layered, Pipes
  <2> QED BY <1>1, <1>2, <2>1, SessionEnds
<1>4. Becomes(s)
  BY DEF OnDisconnected
<1> HIDE DEF over
<1>5. /\ s \in Pipes /\ s.kept /\ s.socket = socket
      /\ ~s.connected /\ ~s.linkConnected /\ ~s.monitorConnected
      /\ ~s.watchdog /\ ~s.sessions
      /\ s.failureStreak = s.failures /\ s.failures # MaxFailures
      /\ ~s.suspended /\ ~s.monitorSuspended
  BY <1>3 DEF Pipes, Sockets
<1> HIDE DEF s
<1>6. Good(s)
  BY <1>2, <1>5, Zenon DEF Good, Layered, Pipes, Configs
<1> QED BY <1>2, <1>4, <1>5, <1>6, StaysGood

\* Valid data, data that cannot be deciphered, or none for too long.
LEMMA DataKeeps ==
  ASSUME IInv, InspectPlain \/ CipherFails \/ OnWatchdogTick
  PROVE  IInv'
<1>1. pipe.connected /\ pipe.kept
  BY NewIsDown DEF InspectPlain, CipherFails, OnWatchdogTick, Down
<1>2. config \in Configs /\ pipe \in Pipes /\ Good(pipe) /\ Up(pipe)
  BY <1>1, KeptIsGood DEF Good, Layered
<1>3. CASE InspectPlain
  <2> DEFINE s == [ClearFailureState(pipe) EXCEPT
                     !.timeoutReported = @ /\ ~config.validateMavlink,
                     !.failures = 0]
  <2>1. Becomes(s)
    BY <1>3 DEF InspectPlain
  <2>2. Good(s) /\ s.kept = pipe.kept
    BY <1>1, <1>2, FailuresForgotten
  <2> HIDE DEF s
  <2> QED BY <1>1, <1>2, <2>1, <2>2, StaysGood
<1>4. CASE CipherFails
  <2>1. Becomes(HandleFailure(pipe))
    BY <1>4 DEF CipherFails
  <2>2. Good(HandleFailure(pipe)) /\ HandleFailure(pipe).kept = pipe.kept
    BY <1>2, FailureHandled
  <2> QED BY <1>1, <1>2, <2>1, <2>2, StaysGood
<1>5. CASE OnWatchdogTick
  <2> DEFINE late == [pipe EXCEPT !.timeoutReported = TRUE]
  <2>1. Becomes(HandleFailure(late))
    BY <1>5 DEF OnWatchdogTick
  <2>2. Up(late) /\ late.kept = pipe.kept
    BY <1>2 DEF Up, Layered, Pipes
  <2> HIDE DEF late
  <2>3. Good(HandleFailure(late)) /\ HandleFailure(late).kept = late.kept
    BY <1>2, <2>2, FailureHandled
  <2> QED BY <1>1, <1>2, <2>1, <2>2, <2>3, StaysGood
<1> QED BY <1>3, <1>4, <1>5

-----------------------------------------------------------------------------
(* Theorems.                                                               *)

\* The invariant the others follow from.
THEOREM Invariance == ASSUME LimitAboveOne PROVE Spec => []IInv
<1>1. IInv /\ [Next]_vars => IInv'
  <2>1. IInv /\ UNCHANGED vars => IInv'
    BY DEF IInv, vars, Good, Layered
  <2> QED BY <2>1, LimitAboveOne, ConnectKeeps, ResumeKeeps, DisconnectKeeps,
             AttemptKeeps, ConnectionKeeps, DisconnectionKeeps, DataKeeps
          DEF Next
<1> QED BY <1>1, Initially, PTL DEF Spec

\* Link, pipe, socket, crypto sessions and monitor agree, whatever ends or
\* replaces a connection (EncryptedTcpPipe::onSocketConnected,
\* onSocketDisconnected, handleFailure).
THEOREM LayersAgreeHolds == ASSUME LimitAboveOne PROVE Spec => []LayersAgree
<1>1. IInv => LayersAgree
  <2> SUFFICES ASSUME IInv PROVE LayersAgree
    OBVIOUS
  <2>1. CASE pipe.kept
    BY <2>1, KeptIsGood, Zenon DEF Good, Layered, LayersAgree, TypeOK
  <2>2. CASE ~pipe.kept
    BY <2>2, NewIsDown, Zenon
       DEF IInv, Down, LayersAgree, TypeOK, Pipes, Configs
  <2> QED BY <2>1, <2>2
<1> QED BY <1>1, Invariance, PTL

\* The pipe is suspended by exactly max_consecutive_failures failures in a row,
\* the user sees it, and nothing connects it but the user
\* (EncryptedTcpPipe::handleFailure, clearFailureState).
THEOREM SuspensionHolds == ASSUME LimitAboveOne PROVE Spec => []Suspension
<1>1. IInv => Suspension
  <2> SUFFICES ASSUME IInv PROVE Suspension
    OBVIOUS
  <2>1. CASE pipe.kept
    BY <2>1, KeptIsGood
       DEF Good, Layered, Suspension, SuspensionIsEarned, SuspendedStaysDown
  <2>2. CASE ~pipe.kept
    BY <2>2, NewIsDown DEF Suspension, SuspensionIsEarned, SuspendedStaysDown
  <2> QED BY <2>1, <2>2
<1> QED BY <1>1, Invariance, PTL
===============================================================================
