---------------------------- MODULE StoreHeartbeat ----------------------------
(***************************************************************************)
(* Connection and heartbeat of the mongodb and the redis driver: a timer   *)
(* sends a ping and starts a grace timer; the answer of the ping clears    *)
(* the grace timer, an error or the grace timer closes the connection.     *)
(* The server may drop the connection, answer late or with an error, and   *)
(* the caller may disconnect, at any time.                                 *)
(***************************************************************************)
EXTENDS Naturals

CONSTANT
  MaxTroubles \* bound on failed and late answers

ASSUME BeatAssumption == MaxTroubles \in Nat

VARIABLES
  engine,     \* "mongodb" or "redis"
  heartbeat,  \* option heartbeat
  link,       \* the connection: none, opening, open or closed
  indexing,   \* mongodb creates its indexes, connect is not finished
  answered,   \* connect was answered
  interval,   \* heartbeatInterval is set
  grace,      \* the grace timer of the latest ping is set
  awaiting,   \* the latest ping is not answered
  closing,    \* client.close was called, its promise is pending
  told,       \* the last event the store emitted
  cause,      \* history: something happened that justifies a disconnect
  troubles    \* failed and late answers so far

beatVars == <<engine, heartbeat, link, indexing, answered, interval, grace, awaiting, closing, told,
              cause, troubles>>
Timers == <<grace, awaiting>>

-----------------------------------------------------------------------------
StopHeartbeat(on) == FALSE

\* Mongo.disconnect: the client is closed first, close() follows.
Mongodb_disconnect ==
  /\ interval' = StopHeartbeat(interval)
  /\ closing' = TRUE
  /\ UNCHANGED <<link, told>>

\* Redis.disconnect ends the client and tells it at once.
Redis_disconnect ==
  /\ interval' = StopHeartbeat(interval)
  /\ link' = "closed"
  /\ told' = "disconnect"
  /\ UNCHANGED closing

Disconnect == IF engine = "mongodb" THEN Mongodb_disconnect ELSE Redis_disconnect

Close_silent ==
  /\ link' = "closed"
  /\ UNCHANGED told
  /\ interval' = StopHeartbeat(interval)

\* Mongo.close: also the handler of the client's close event.
Close ==
  /\ link' = "closed"
  /\ told' = "disconnect"
  /\ interval' = StopHeartbeat(interval)

\* startHeartbeat
StartHeartbeat == interval' = heartbeat

-----------------------------------------------------------------------------
\* Connect, and the client reports to the handlers below.
Open ==
  /\ link = "none"
  /\ link' = "opening"
  /\ UNCHANGED <<engine, heartbeat, indexing, answered, interval, closing, told, cause, troubles>>
  /\ UNCHANGED Timers

\* The client is connected: mongodb goes on with the indexes, redis is ready.
Mongodb_connected ==
  /\ engine = "mongodb" /\ link = "opening"
  /\ link' = "open"
  /\ indexing' = TRUE
  /\ UNCHANGED <<engine, heartbeat, answered, interval, closing, told, cause, troubles>> /\ UNCHANGED Timers

\* finish: a failed index is only logged; connect is told although the connection
\* may be closed by now.
Mongodb_finish ==
  /\ indexing
  /\ indexing' = FALSE
  /\ told' = "connect"
  /\ answered' = TRUE
  /\ StartHeartbeat
  /\ UNCHANGED <<engine, heartbeat, link, closing, cause, troubles>> /\ UNCHANGED Timers

Redis_connected ==
  /\ engine = "redis" /\ link = "opening"
  /\ link' = "open"
  /\ told' = "connect"
  /\ answered' = TRUE
  /\ StartHeartbeat
  /\ UNCHANGED <<engine, heartbeat, indexing, closing, cause, troubles>> /\ UNCHANGED Timers

\* An error before the connection is there answers connect without an error.
Redis_error ==
  /\ engine = "redis" /\ link = "opening" /\ ~answered
  /\ answered' = TRUE
  /\ UNCHANGED <<engine, heartbeat, link, indexing, interval, closing, told, cause, troubles>>
  /\ UNCHANGED Timers

\* The caller disconnects.
Quit ==
  /\ link = "open"
  /\ ~closing
  /\ cause' = TRUE
  /\ Disconnect
  /\ UNCHANGED <<engine, heartbeat, indexing, answered, troubles>> /\ UNCHANGED Timers

\* client.close resolves.
Mongodb_closed ==
  /\ closing
  /\ closing' = FALSE
  /\ Close
  /\ UNCHANGED <<engine, heartbeat, indexing, answered, cause, troubles>> /\ UNCHANGED Timers

\* The server drops the connection: the close event of mongodb, the end event of redis.
Dropped ==
  /\ link = "open"
  /\ cause' = TRUE
  /\ IF engine = "mongodb" THEN Close /\ UNCHANGED closing ELSE Redis_disconnect
  /\ UNCHANGED <<engine, heartbeat, indexing, answered, troubles>> /\ UNCHANGED Timers

\* The interval: the grace period is half of it, so the earlier timer is over.
Tick ==
  /\ interval /\ ~grace
  /\ grace' = TRUE /\ awaiting' = TRUE
  /\ UNCHANGED <<engine, heartbeat, link, indexing, answered, interval, closing, told, cause, troubles>>

PingAnswered_timerStays(on) == on
PingAnswered(on) == FALSE

\* An answer in time clears the grace timer.
PingOk ==
  /\ awaiting /\ link = "open"
  /\ awaiting' = FALSE
  /\ grace' = PingAnswered(grace)
  /\ UNCHANGED <<engine, heartbeat, link, indexing, answered, interval, closing, told, cause, troubles>>

\* An error disconnects, whoever disconnected before.
PingError ==
  /\ awaiting
  /\ link = "closed" \/ troubles < MaxTroubles
  /\ troubles' = IF link = "closed" THEN troubles ELSE troubles + 1
  /\ awaiting' = FALSE
  /\ grace' = FALSE
  /\ cause' = TRUE
  /\ Disconnect
  /\ UNCHANGED <<engine, heartbeat, indexing, answered>>

\* The grace timer ends the connection; the answer of the ping is still to come.
GraceExpires ==
  /\ grace
  /\ awaiting => link # "open" \/ troubles < MaxTroubles
  /\ troubles' = IF awaiting /\ link = "open" THEN troubles + 1 ELSE troubles
  /\ grace' = FALSE
  /\ cause' = (cause \/ awaiting)
  /\ IF interval THEN Disconnect ELSE UNCHANGED <<link, told, interval, closing>>
  /\ UNCHANGED <<engine, heartbeat, indexing, answered, awaiting>>

-----------------------------------------------------------------------------
BeatInit ==
  /\ engine \in {"mongodb", "redis"} /\ heartbeat \in BOOLEAN
  /\ link = "none" /\ told = "nothing"
  /\ indexing = FALSE /\ answered = FALSE
  /\ interval = FALSE /\ grace = FALSE /\ awaiting = FALSE /\ closing = FALSE
  /\ cause = FALSE /\ troubles = 0

\* What the event loop and the driver get to.
Handlers ==
  \/ Mongodb_connected \/ Mongodb_finish \/ Redis_connected \/ Mongodb_closed
  \/ Tick \/ PingOk \/ PingError \/ GraceExpires

BeatNext == Open \/ Handlers \/ Redis_error \/ Quit \/ Dropped

-----------------------------------------------------------------------------
(* Properties *)

\* Type correctness of the connection.
BeatTypeOK ==
  /\ link \in {"none", "opening", "open", "closed"}
  /\ told \in {"nothing", "connect", "disconnect"}
  /\ {heartbeat, indexing, answered, interval, grace, awaiting, closing, cause} \subseteq BOOLEAN
  /\ troubles \in 0 .. MaxTroubles

\* The heartbeat never closes a connection whose pings are answered in time.
HealthyStaysOpen == link = "closed" => cause

\* A heartbeat on a closed connection, also one that began because the connection went
\* while the indexes were created, comes to an end: no timer goes on for ever, and the
\* last that listeners hear is that the connection is closed.
HeartbeatEnds ==
  <>[](link = "closed" => ~interval /\ ~grace /\ (heartbeat => told = "disconnect"))
=============================================================================
