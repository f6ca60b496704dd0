------------------------------- MODULE Heartbeat -------------------------------
(***************************************************************************)
(* The durations of one connection (client.h:41-43): m_deadline limits an  *)
(* attempt to CONNECT_TIMEOUT and a silence of the server to PING_TIMEOUT, *)
(* m_heartbeat_timer asks for a sign of life PING_INTERVAL after the last  *)
(* pong was handled.  A tick of the clock is a second.                     *)
(*                                                                         *)
(* Timers count down and go below zero while their handler waits for the   *)
(* thread that runs it; MaxLag bounds that wait, in the worker and in the  *)
(* main loop.  check_deadline runs whenever m_deadline has passed, which   *)
(* is what Connection!Supervised says of a session that start() began.     *)
(***************************************************************************)
EXTENDS Integers, Sequences

CONSTANTS
  CONNECT_TIMEOUT, PING_INTERVAL, PING_TIMEOUT,
  Endpoints,   \* addresses the host name resolves to
  MaxDelay,    \* how long a live server takes from a ping to the end of its pong
  MaxLag       \* how long a completion or an idle callback waits to be handled

ASSUME HeartbeatAssumption ==
  /\ CONNECT_TIMEOUT \in Nat \ {0}
  /\ PING_INTERVAL \in Nat \ {0}
  /\ PING_TIMEOUT \in Nat \ {0}
  /\ Endpoints \in Nat \ {0}
  /\ MaxDelay \in Nat
  /\ MaxLag \in Nat

VARIABLES
  phase,       \* "connecting"; "established", "failed" or "aborted" while the
               \* completion that says so waits; "connected"; "stopped"
  open,        \* m_socket.is_open()
  endpoint,    \* the one tried last
  deadline,    \* seconds until m_deadline expires
  armed,       \* FALSE: m_deadline expires at pos_infin
  heartbeat,   \* seconds until m_heartbeat_timer expires
  beating,     \* start_ping waits for it
  pings,       \* pings not answered, by age
  pongs,       \* pongs queued for the main loop, by age
  waiting,     \* for how long the completion of `phase` has waited
  alive,       \* the server answers
  attempt,     \* history: seconds since the last async_connect
  connecting,  \* history: seconds since connect() without a connection
  silence      \* history: seconds since start_read ran last

timerVars == <<deadline, armed, heartbeat, beating>>
cycleVars == <<pings, pongs>>
clockVars == <<attempt, connecting, silence>>
vars == <<phase, open, endpoint, timerVars, cycleVars, waiting, alive, clockVars>>

CompletionWaits == phase \in {"established", "failed", "aborted"}
Reading == phase = "connected"

(* start() has just resolved the host name.                                *)
Init ==
  /\ phase = "connecting" /\ open = TRUE /\ endpoint = 1
  /\ deadline = CONNECT_TIMEOUT /\ armed = TRUE
  /\ heartbeat = 0 /\ beating = FALSE
  /\ pings = <<>> /\ pongs = <<>>
  /\ waiting = 0 /\ alive = TRUE
  /\ attempt = 0 /\ connecting = 0 /\ silence = 0

-----------------------------------------------------------------------------
(* Pieces of Client shared by the handlers.                                *)

(* m_deadline.expires_from_now(seconds)                                    *)
Expire(seconds) == deadline' = seconds /\ armed' = TRUE

MutStartRead == Expire(CONNECT_TIMEOUT) /\ silence' = 0

(* start_read(): whatever was read, the server has been heard of.          *)
StartRead == Expire(PING_TIMEOUT) /\ silence' = 0

(* disconnect() in the worker: timers cancelled, the socket closed.        *)
Stop ==
  /\ phase' = "stopped" /\ open' = FALSE /\ beating' = FALSE
  /\ UNCHANGED <<endpoint, deadline, armed, heartbeat, cycleVars, waiting, alive, clockVars>>

(* The completion that will end an attempt or a connection is queued.      *)
Complete(p) == phase' = p /\ waiting' = 0

MutAttempt(i) ==
  /\ phase' = "connecting" /\ open' = TRUE /\ endpoint' = i
  /\ attempt' = 0
  /\ UNCHANGED <<deadline, armed>>

(* connect(endpoint_iter) with an endpoint left.                           *)
Attempt(i) ==
  /\ phase' = "connecting" /\ open' = TRUE /\ endpoint' = i
  /\ Expire(CONNECT_TIMEOUT)
  /\ attempt' = 0

-----------------------------------------------------------------------------
(* The worker.                                                             *)

(* handle_connect without error on a socket that is still open.            *)
HandleConnected ==
  /\ phase = "established" /\ open
  /\ phase' = "connected"
  /\ StartRead
  /\ pings' = Append(pings, 0) /\ connecting' = 0
  /\ UNCHANGED <<open, endpoint, heartbeat, beating, pongs, waiting, alive, attempt>>

MutHandleConnectFailed ==
  /\ phase = "failed" \/ (phase = "established" /\ ~open)
  /\ endpoint <= Endpoints
  /\ Attempt(endpoint + 1)
  /\ UNCHANGED <<heartbeat, beating, cycleVars, waiting, alive, connecting, silence>>

(* handle_connect with an error, or after check_deadline closed the socket.*)
HandleConnectFailed ==
  /\ phase = "failed" \/ (phase = "established" /\ ~open)
  /\ \/ /\ endpoint < Endpoints
        /\ Attempt(endpoint + 1)
        /\ UNCHANGED <<heartbeat, beating, cycleVars, waiting, alive, connecting, silence>>
     \/ endpoint = Endpoints /\ Stop

MutReadErrorReadsOn ==
  /\ phase = "aborted" /\ phase' = "connected"
  /\ StartRead
  /\ UNCHANGED <<open, endpoint, heartbeat, beating, cycleVars, waiting, alive, attempt, connecting>>

(* handle_read with an error.                                              *)
HandleReadError == phase = "aborted" /\ Stop

(* handle_read of a pong: the main loop will handle it.                    *)
ReadPong ==
  /\ Reading /\ alive /\ pings # <<>>
  /\ pings' = Tail(pings)
  /\ pongs' = Append(pongs, 0)
  /\ StartRead
  /\ UNCHANGED <<phase, open, endpoint, heartbeat, beating, waiting, alive, attempt, connecting>>

(* handle_read of anything else that ends in a '}', a part of a response,  *)
(* too: async_read_until has found its delimiter.  Twice in one second     *)
(* would change nothing.                                                   *)
ReadOther ==
  /\ Reading /\ alive /\ silence > 0
  /\ StartRead
  /\ UNCHANGED <<phase, open, endpoint, heartbeat, beating, cycleVars, waiting, alive,
                 attempt, connecting>>

MutWriteRearms ==
  /\ beating /\ heartbeat <= 0 /\ Reading
  /\ beating' = FALSE
  /\ pings' = Append(pings, 0)
  /\ Expire(PING_TIMEOUT)
  /\ UNCHANGED <<phase, open, endpoint, heartbeat, pongs, waiting, alive, clockVars>>

MutPingRestartsTimer ==
  /\ beating /\ heartbeat <= 0 /\ Reading
  /\ heartbeat' = PING_INTERVAL
  /\ pings' = Append(pings, 0)
  /\ UNCHANGED <<phase, open, endpoint, deadline, armed, beating, pongs, waiting, alive, clockVars>>

(* start_ping: a ping is sent, or fails on a closed connection and ends it.*)
StartPing ==
  /\ beating /\ heartbeat <= 0
  /\ \/ /\ Reading
        /\ beating' = FALSE
        /\ pings' = Append(pings, 0)
        /\ UNCHANGED <<phase, open, endpoint, deadline, armed, heartbeat, pongs, waiting,
                       alive, clockVars>>
     \/ phase = "aborted" /\ Stop

(* check_deadline finds m_deadline passed: the socket is closed, what was  *)
(* outstanding on it is aborted.                                           *)
CheckDeadline ==
  /\ armed /\ deadline <= 0 /\ phase # "stopped"
  /\ armed' = FALSE
  /\ open' = FALSE
  /\ CASE phase = "connecting" -> Complete("failed")
       [] phase = "connected"  -> Complete("aborted")
       [] OTHER                -> UNCHANGED <<phase, waiting>>
  /\ UNCHANGED <<endpoint, deadline, heartbeat, beating, cycleVars, alive, clockVars>>

-----------------------------------------------------------------------------
(* The main loop.                                                          *)

(* handle_ping: the timer starts anew; if start_ping was still waiting for *)
(* it, that wait ends at once, and pings.                                  *)
HandlePing ==
  /\ phase \in {"connected", "aborted"} /\ pongs # <<>>
  /\ pongs' = Tail(pongs)
  /\ heartbeat' = PING_INTERVAL /\ beating' = TRUE
  /\ pings' = IF beating /\ Reading THEN Append(pings, 0) ELSE pings
  /\ UNCHANGED <<phase, open, endpoint, deadline, armed, waiting, alive, clockVars>>

(* The user clicks Disconnect.                                             *)
Disconnect == Reading /\ Stop

-----------------------------------------------------------------------------
(* Network and clock.                                                      *)

EnvUnchanged == UNCHANGED <<open, endpoint, timerVars, cycleVars, clockVars>>

(* async_connect ends by itself.                                           *)
ConnectEnds ==
  /\ phase = "connecting"
  /\ \E p \in {"established", "failed"} : Complete(p)
  /\ UNCHANGED alive /\ EnvUnchanged

(* The server closes or resets the connection.                             *)
ConnectionLost ==
  /\ Reading /\ Complete("aborted")
  /\ UNCHANGED alive /\ EnvUnchanged

(* The server, or the way to it, falls silent for good.                    *)
ServerDies ==
  /\ Reading /\ alive
  /\ alive' = FALSE
  /\ UNCHANGED <<phase, waiting>> /\ EnvUnchanged

(* Nothing has waited for as long as it may.                               *)
NothingUrgent ==
  /\ armed => deadline > -MaxLag
  /\ CompletionWaits => waiting < MaxLag
  /\ beating => heartbeat > -MaxLag
  /\ \A i \in DOMAIN pongs : pongs[i] < MaxLag
  /\ alive /\ Reading => \A i \in DOMAIN pings : pings[i] < MaxDelay

Older(ages) == [i \in DOMAIN ages |-> ages[i] + 1]

(* A second passes.                                                        *)
Tick ==
  /\ phase # "stopped" /\ NothingUrgent
  /\ deadline' = IF armed THEN deadline - 1 ELSE deadline
  /\ heartbeat' = IF beating THEN heartbeat - 1 ELSE heartbeat
  /\ pings' = IF alive /\ Reading THEN Older(pings) ELSE pings
  /\ pongs' = Older(pongs)
  /\ waiting' = IF CompletionWaits THEN waiting + 1 ELSE waiting
  /\ attempt' = IF phase \in {"connecting", "established", "failed"} THEN attempt + 1 ELSE attempt
  /\ connecting' =
       IF phase \in {"connecting", "established", "failed"} THEN connecting + 1 ELSE connecting
  /\ silence' = IF Reading THEN silence + 1 ELSE silence
  /\ UNCHANGED <<phase, open, endpoint, armed, beating, alive>>

-----------------------------------------------------------------------------
Worker ==
  \/ HandleConnected \/ HandleConnectFailed \/ HandleReadError \/ StartPing \/ CheckDeadline

Next ==
  \/ Worker \/ ReadPong \/ ReadOther \/ HandlePing \/ Disconnect
  \/ ConnectEnds \/ ConnectionLost \/ ServerDies \/ Tick

Spec == Init /\ [][Next]_vars

(* Time passes, both threads run, a live server answers.                   *)
FairSpec ==
  Spec /\ WF_vars(Tick) /\ WF_vars(Worker) /\ WF_vars(HandlePing) /\ WF_vars(ReadPong)

-----------------------------------------------------------------------------
(* Properties.                                                             *)

TypeOK ==
  /\ phase \in {"connecting", "established", "failed", "connected", "aborted", "stopped"}
  /\ open \in BOOLEAN /\ armed \in BOOLEAN /\ beating \in BOOLEAN /\ alive \in BOOLEAN
  /\ endpoint \in 1..Endpoints
  /\ deadline \in Int /\ heartbeat \in Int
  /\ pings \in Seq(Nat) /\ pongs \in Seq(Nat)
  /\ waiting \in Nat /\ attempt \in Nat /\ connecting \in Nat /\ silence \in Nat

(* What the three durations leave for the answer and for both threads.     *)
Slack == PING_INTERVAL + MaxLag + MaxLag + MaxDelay < PING_TIMEOUT

(* The deadline never closes a connection whose server answers in time,    *)
(* although only pings keep an idle one alive and the next ping waits for  *)
(* the main loop to handle the pong before it.                             *)
HealthyKept == [][Slack /\ alive /\ Reading => open' \/ phase' = "stopped"]_vars

(* A server that has fallen silent is found out in PING_TIMEOUT: no ping   *)
(* sent to it meanwhile puts the deadline off.                             *)
SilenceNoticed == Reading => silence <= PING_TIMEOUT + MaxLag

(* connect() is connected or given up after a CONNECT_TIMEOUT for each     *)
(* endpoint, whichever of them hang, are refused or are timed out in the   *)
(* moment they succeed.                                                    *)
AttemptsEnd == connecting <= endpoint * (CONNECT_TIMEOUT + MaxLag + MaxLag)

(* A connection has one ping, one pong or one wait for the next ping: the  *)
(* heart goes on beating, and beats once.                                  *)
OneCycle == Reading => Len(pings) + Len(pongs) + (IF beating THEN 1 ELSE 0) = 1

(* Time is never held up by what has to be handled before it goes on: a    *)
(* dead server is left in the end.                                         *)
DeadServerLeft == ~alive ~> phase = "stopped"
=============================================================================
