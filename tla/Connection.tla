------------------------------ MODULE Connection ------------------------------
(***************************************************************************)
(* The life of the connection to XBMC: Client's connect, supervise and     *)
(* disconnect logic (client.cc) and the part of the preferences dialog     *)
(* and of the main window that drives it and shows it.                     *)
(*                                                                         *)
(* Two threads share the Client without a lock: the GTK main loop (user,   *)
(* idle callbacks) and the worker that runs the io_service (completions).  *)
(* A handler tests m_stopped when it starts and runs on afterwards, so its *)
(* test and its body are two steps, as are the flags and the teardown of   *)
(* disconnect(), and m_stopped = false and the attempt in connect(): the   *)
(* other thread may run in between.                                        *)
(*                                                                         *)
(* Responses are abstracted to their kind.  What they carry, the browser's *)
(* request of handle_connect and the dialog box of signal_conn_error are   *)
(* left out: none of them changes the state below.                         *)
(***************************************************************************)
EXTENDS Integers, Sequences, FiniteSets

CONSTANTS
  MaxConnects,    \* bound: calls of Client::connect(), start()'s included
  MaxEndpoints,   \* bound: addresses a host name resolves to
  MaxIdle         \* bound: idle callbacks queued when the user clicks again

ASSUME ConnectionAssumption ==
  /\ MaxConnects \in Nat \ {0}
  /\ MaxEndpoints \in Nat \ {0}
  /\ MaxIdle \in Nat \ {0}

VARIABLES
  m_stopped, m_connected,
  player,         \* m_state # STATE_NOPLAYER
  socket,         \* m_socket: "closed", "open" or "connected"
  connecting,     \* endpoint of the outstanding async_connect, 0 if none
  reads,          \* outstanding async_read_until
  deadline,       \* m_deadline: "armed", "running", "passed" or "never"
  deadlineWait,   \* check_deadline is waiting on m_deadline
  heartbeatWait,  \* start_ping is waiting on m_heartbeat_timer
  asked,          \* requests the server has not answered, pings excepted
  pings,          \* pings the server has not answered
  ready,          \* completions the io_service has queued, in order
  ioPc,           \* worker: "idle", "run" (the handler of ready's head), "closing"
  idle,           \* the main loop's queue of idle callbacks
  mainPc,         \* "new", "resolving", "idle", "closing", "aborted"
  dialog,         \* preferences: "none", or the button that is sensitive
  uiConnected,    \* the widgets that need a connection are sensitive
  calls           \* calls of connect() so far

stateVars == <<m_stopped, m_connected, player>>
socketVars == <<socket, connecting, reads, asked, pings>>
timerVars == <<deadline, deadlineWait, heartbeatWait>>
uiVars == <<dialog, uiConnected>>
vars == <<stateVars, socketVars, timerVars, ready, ioPc, idle, mainPc, uiVars, calls>>

Requests == {"players", "items", "props"}
Messages == Requests \cup {"refused", "pong"}

(* A completion: its handler, the bound endpoint_iter, the message read.   *)
Done(kind) == [kind |-> kind, iter |-> 0, msg |-> "none"]
ConnectDone(kind, i) == [kind |-> kind, iter |-> i, msg |-> "none"]
MessageRead(m) == [kind |-> "message", iter |-> 0, msg |-> m]
Completion ==
  {Done(k) : k \in {"readError", "writeError", "ping", "deadline"}}
    \cup {ConnectDone(k, i) : k \in {"connected", "connectError"}, i \in 1..MaxEndpoints}
    \cup {MessageRead(m) : m \in Messages}

(* n times the completion of kind k.                                       *)
Repeat(k, n) == [i \in 1..n |-> Done(k)]

Init ==
  /\ m_stopped = TRUE /\ m_connected = FALSE /\ player = FALSE
  /\ socket = "closed" /\ connecting = 0 /\ reads = 0
  /\ asked = {} /\ pings = 0
  /\ deadline = "never" /\ deadlineWait = FALSE /\ heartbeatWait = FALSE
  /\ ready = <<>> /\ ioPc = "idle"
  /\ idle = <<>> /\ mainPc = "new"
  /\ dialog = "none" /\ uiConnected = FALSE
  /\ calls = 0

-----------------------------------------------------------------------------
(* Pieces of Client shared by the handlers.                                *)

(* Completions that closing the socket posts: what it aborts.              *)
AbortedBySocketClose ==
  (IF connecting > 0 THEN <<ConnectDone("connectError", connecting)>> ELSE <<>>)
    \o Repeat("readError", reads)

(* Setting or cancelling m_deadline ends check_deadline's wait: bound      *)
(* without its error code, the handler runs all the same.                  *)
WokenByDeadline == IF deadlineWait THEN <<Done("deadline")>> ELSE <<>>

WokenByHeartbeat == IF heartbeatWait THEN <<Done("ping")>> ELSE <<>>

(* m_socket.close()                                                        *)
CloseSocket ==
  /\ socket' = "closed" /\ connecting' = 0 /\ reads' = 0
  /\ asked' = {} /\ pings' = 0

(* disconnect(), first part: the flags.                                    *)
StopFlags == m_stopped' = TRUE /\ m_connected' = FALSE /\ player' = FALSE

MutTeardownForgetsSocket ==
  /\ UNCHANGED socketVars
  /\ deadlineWait' = FALSE /\ heartbeatWait' = FALSE
  /\ ready' = ready \o WokenByDeadline \o WokenByHeartbeat
  /\ idle' = Append(idle, "gone")
  /\ UNCHANGED deadline

MutTeardownUnannounced ==
  /\ CloseSocket
  /\ deadlineWait' = FALSE /\ heartbeatWait' = FALSE
  /\ ready' = ready \o AbortedBySocketClose \o WokenByDeadline \o WokenByHeartbeat
  /\ UNCHANGED <<deadline, idle>>

(* disconnect(), second part: the socket, the timers, the idle callback.   *)
Teardown ==
  /\ CloseSocket
  /\ deadlineWait' = FALSE /\ heartbeatWait' = FALSE
  /\ ready' = ready \o AbortedBySocketClose \o WokenByDeadline \o WokenByHeartbeat
  /\ idle' = Append(idle, "gone")
  /\ UNCHANGED deadline

(* write(value) of a request that is not a ping: dropped when stopped; it  *)
(* reaches the server, or its completion reports an error.                 *)
Write(r) ==
  \/ m_stopped /\ UNCHANGED <<asked, ready>>
  \/ ~m_stopped /\ socket = "connected" /\ asked' = asked \cup {r} /\ UNCHANGED ready
  \/ ~m_stopped /\ ready' = Append(ready, Done("writeError")) /\ UNCHANGED asked

(* connect(endpoint_iter) with an endpoint left, `before` being what this  *)
(* handler has queued already: async_connect opens a closed socket; on one *)
(* that is connecting or connected it fails at once.                       *)
Attempt(i, closed, before) ==
  /\ deadline' = "armed"
  /\ IF closed
     THEN /\ socket' = "open" /\ connecting' = i
          /\ ready' = before
     ELSE /\ UNCHANGED <<socket, connecting>>
          /\ ready' = Append(before, ConnectDone("connectError", i))

-----------------------------------------------------------------------------
(* The main thread.                                                        *)

(* Client::connect() up to the resolver; start() calls it once.            *)
BeginConnect ==
  /\ calls < MaxConnects
  /\ calls' = calls + 1
  /\ m_stopped' = FALSE
  /\ mainPc' = "resolving"
  /\ UNCHANGED <<m_connected, player, socketVars, timerVars, ready, ioPc, idle, uiVars>>

Start == mainPc = "new" /\ BeginConnect

ClickConnect == mainPc = "idle" /\ dialog = "connect" /\ BeginConnect

(* The resolver answers with endpoints i..MaxEndpoints.  Only start() goes *)
(* on to wait on the deadline and to create the worker.                    *)
Resolved ==
  /\ mainPc = "resolving"
  /\ \E i \in 1..MaxEndpoints :
       Attempt(i, socket = "closed", ready \o WokenByDeadline)
  /\ deadlineWait' = (calls = 1)
  /\ mainPc' = "idle"
  /\ UNCHANGED <<stateVars, reads, asked, pings, heartbeatWait, ioPc, idle,
                 uiVars, calls>>

(* The resolver throws: nothing on the way up to main() catches it.        *)
ResolveFails ==
  /\ mainPc = "resolving"
  /\ mainPc' = "aborted"
  /\ UNCHANGED <<stateVars, socketVars, timerVars, ready, ioPc, idle, uiVars, calls>>

ConstructConnectionPage == dialog' = IF m_connected THEN "disconnect" ELSE "connect"

(* The preferences open on the connection page, or it is selected again.   *)
OpenDialog ==
  /\ mainPc = "idle" /\ dialog = "none"
  /\ ConstructConnectionPage
  /\ UNCHANGED <<stateVars, socketVars, timerVars, ready, ioPc, idle, mainPc,
                 uiConnected, calls>>

(* They are closed, or another page is selected: its buttons are deleted,  *)
(* yet stay bound to the client's signals until the dialog goes (a change  *)
(* of the connection meanwhile is undefined behaviour, left out).          *)
CloseDialog ==
  /\ mainPc = "idle" /\ dialog # "none"
  /\ dialog' = "none"
  /\ UNCHANGED <<stateVars, socketVars, timerVars, ready, ioPc, idle, mainPc,
                 uiConnected, calls>>

ClickDisconnect ==
  /\ mainPc = "idle" /\ dialog = "disconnect"
  /\ Len(idle) < MaxIdle
  /\ StopFlags
  /\ mainPc' = "closing"
  /\ UNCHANGED <<socketVars, timerVars, ready, ioPc, idle, uiVars, calls>>

MainTeardown ==
  /\ mainPc = "closing"
  /\ Teardown
  /\ mainPc' = "idle"
  /\ UNCHANGED <<stateVars, ioPc, uiVars, calls>>

(* set_connection_dependent_widgets of the main window.                    *)
SetConnectionWidgets(connected) == uiConnected' = connected

(* signal_connect and signal_disconnect: main window and open dialog.      *)
ShowConnection(connected) ==
  /\ SetConnectionWidgets(connected)
  /\ dialog' = IF dialog = "none" THEN "none"
               ELSE IF connected THEN "disconnect" ELSE "connect"

(* The next idle callback is m.                                            *)
Dispatch(m) ==
  /\ mainPc = "idle" /\ idle # <<>> /\ Head(idle) = m
  /\ idle' = Tail(idle)
  /\ UNCHANGED <<mainPc, ioPc, calls, socket, connecting, reads, deadline, deadlineWait>>

(* handle_get_active_players: is there a player?                           *)
OnPlayers ==
  /\ Dispatch("players")
  /\ player' \in {TRUE, player}
  /\ Write("items")
  /\ UNCHANGED <<m_stopped, m_connected, pings, heartbeatWait, uiVars>>

(* handle_connect_get_items with a player: its properties are asked for.   *)
OnItemsPlayer ==
  /\ Dispatch("items") /\ player
  /\ Write("props")
  /\ UNCHANGED <<stateVars, pings, heartbeatWait, uiVars>>

(* The handshake ends: ID_CONNECT_GET_PROPERTIES, or no player.            *)
HandshakeDone ==
  /\ Dispatch("props") \/ (Dispatch("items") /\ ~player)
  /\ m_connected' = TRUE
  /\ player' \in (IF Head(idle) = "props" THEN {TRUE, player} ELSE {player})
  /\ ShowConnection(TRUE)
  /\ UNCHANGED <<m_stopped, asked, ready, pings, heartbeatWait>>

(* An error response: nothing is sent in its place.                        *)
OnRefused ==
  /\ Dispatch("refused")
  /\ UNCHANGED <<stateVars, asked, pings, ready, heartbeatWait, uiVars>>

(* handle_ping: m_heartbeat_timer starts anew.                             *)
OnPong ==
  /\ Dispatch("pong")
  /\ ready' = ready \o WokenByHeartbeat
  /\ heartbeatWait' = TRUE
  /\ UNCHANGED <<stateVars, asked, pings, uiVars>>

(* disconnect_in_main_loop                                                 *)
OnGone ==
  /\ Dispatch("gone")
  /\ ShowConnection(FALSE)
  /\ UNCHANGED <<stateVars, asked, pings, ready, heartbeatWait>>

-----------------------------------------------------------------------------
(* The worker.                                                             *)

(* Every handler starts with `if (m_stopped) return`.                      *)
HandlerEnter ==
  /\ mainPc # "aborted"
  /\ ioPc = "idle" /\ ready # <<>>
  /\ IF m_stopped
     THEN ready' = Tail(ready) /\ UNCHANGED ioPc
     ELSE ioPc' = "run" /\ UNCHANGED ready
  /\ UNCHANGED <<stateVars, socketVars, timerVars, idle, mainPc, uiVars, calls>>

Running(kind) == mainPc # "aborted" /\ ioPc = "run" /\ Head(ready).kind = kind

(* start_read() in the handler of ready's head, which queues `after` next: *)
(* only a connected socket can be read.                                    *)
StartRead(after) ==
  LET before == Tail(ready) \o WokenByDeadline
  IN /\ deadline' = "armed" /\ deadlineWait' = FALSE
     /\ IF socket = "connected"
        THEN reads' = reads + 1 /\ ready' = before \o after
        ELSE UNCHANGED reads /\ ready' = before \o <<Done("readError")>> \o after

MutPastTheLastEndpoint(i) ==
  /\ Attempt(i + 1, TRUE, Tail(ready) \o AbortedBySocketClose \o WokenByDeadline)
  /\ deadlineWait' = FALSE
  /\ reads' = 0 /\ asked' = {} /\ pings' = 0
  /\ ioPc' = "idle"
  /\ UNCHANGED stateVars

(* connect(++endpoint_iter) from handle_connect: with an endpoint left the *)
(* socket is closed here, whether the handler found or made it so.         *)
NextEndpoint(i) ==
  LET before == Tail(ready) \o AbortedBySocketClose
  IN IF i < MaxEndpoints
     THEN /\ Attempt(i + 1, TRUE, before \o WokenByDeadline)
          /\ deadlineWait' = FALSE
          /\ reads' = 0 /\ asked' = {} /\ pings' = 0
          /\ ioPc' = "idle"
          /\ UNCHANGED stateVars
     ELSE /\ StopFlags
          /\ CloseSocket
          /\ ready' = before
          /\ ioPc' = "closing"
          /\ UNCHANGED <<deadline, deadlineWait>>

(* handle_connect without error: read, ask for the players, ping.  The     *)
(* writes return at once when disconnect() ran since the test; one         *)
(* completion stands for those of all the writes that fail.                *)
HandleConnected ==
  /\ Running("connected") /\ socket # "closed"
  /\ \/ m_stopped /\ StartRead(<<>>) /\ UNCHANGED <<asked, pings>>
     \/ /\ ~m_stopped /\ socket = "connected"
        /\ StartRead(<<>>)
        /\ asked' = asked \cup {"players"} /\ pings' = pings + 1
     \/ ~m_stopped /\ StartRead(<<Done("writeError")>>) /\ UNCHANGED <<asked, pings>>
  /\ ioPc' = "idle"
  /\ UNCHANGED <<stateVars, socket, connecting, heartbeatWait, idle, mainPc,
                 uiVars, calls>>

(* handle_connect with an error, or finding the socket closed: by          *)
(* check_deadline ("Connect timed out") or by the other thread.            *)
HandleConnectFailed ==
  /\ \/ Running("connectError")
     \/ Running("connected") /\ socket = "closed"
  /\ NextEndpoint(Head(ready).iter)
  /\ UNCHANGED <<heartbeatWait, idle, mainPc, uiVars, calls>>

(* handle_json: the main loop will handle the message.                     *)
HandleJson(m) == idle' = Append(idle, m)

MutReadPerDocument ==
  /\ Running("message")
  /\ HandleJson(Head(ready).msg)
  /\ deadline' = "armed" /\ deadlineWait' = FALSE
  /\ reads' = reads + 2 /\ ready' = Tail(ready) \o WokenByDeadline
  /\ ioPc' = "idle"
  /\ UNCHANGED <<stateVars, socket, connecting, asked, pings, heartbeatWait,
                 mainPc, uiVars, calls>>

(* handle_read without error.                                              *)
HandleMessage ==
  /\ Running("message")
  /\ HandleJson(Head(ready).msg)
  /\ StartRead(<<>>)
  /\ ioPc' = "idle"
  /\ UNCHANGED <<stateVars, socket, connecting, asked, pings, heartbeatWait,
                 mainPc, uiVars, calls>>

(* disconnect() in a handler, to be completed by WorkerTeardown.           *)
WorkerDisconnects ==
  /\ StopFlags
  /\ ready' = Tail(ready)
  /\ ioPc' = "closing"
  /\ UNCHANGED <<socketVars, timerVars, idle, mainPc, uiVars, calls>>

(* handle_read with an error.                                              *)
HandleReadError == Running("readError") /\ WorkerDisconnects

(* handle_write with an error.                                             *)
HandleWriteError == Running("writeError") /\ WorkerDisconnects

WorkerTeardown ==
  /\ mainPc # "aborted"
  /\ ioPc = "closing"
  /\ Teardown
  /\ ioPc' = "idle"
  /\ UNCHANGED <<stateVars, mainPc, uiVars, calls>>

MutPingRestartsTimer ==
  /\ Running("ping") /\ ~m_stopped /\ socket = "connected"
  /\ pings' = pings + 1
  /\ heartbeatWait' = TRUE /\ ready' = Tail(ready) \o WokenByHeartbeat
  /\ ioPc' = "idle"
  /\ UNCHANGED <<stateVars, socket, connecting, reads, asked, deadline,
                 deadlineWait, idle, mainPc, uiVars, calls>>

(* start_ping: tests m_stopped again in write().                           *)
HandlePing ==
  /\ Running("ping")
  /\ \/ m_stopped /\ UNCHANGED pings /\ ready' = Tail(ready)
     \/ /\ ~m_stopped /\ socket = "connected"
        /\ pings' = pings + 1 /\ ready' = Tail(ready)
     \/ ~m_stopped /\ ready' = Append(Tail(ready), Done("writeError")) /\ UNCHANGED pings
  /\ ioPc' = "idle"
  /\ UNCHANGED <<stateVars, socket, connecting, reads, asked, timerVars, idle,
                 mainPc, uiVars, calls>>

MutCancelledWaitEnds ==
  /\ Running("deadline")
  /\ IF deadline = "passed"
     THEN /\ CloseSocket
          /\ ready' = Tail(ready) \o AbortedBySocketClose
          /\ deadline' = "never" /\ deadlineWait' = TRUE
     ELSE /\ ready' = Tail(ready)
          /\ UNCHANGED <<socketVars, deadline, deadlineWait>>
  /\ ioPc' = "idle"
  /\ UNCHANGED <<stateVars, heartbeatWait, idle, mainPc, uiVars, calls>>

MutDeadlineClosesNothing ==
  /\ Running("deadline")
  /\ ready' = Tail(ready)
  /\ deadline' = IF deadline = "passed" THEN "never" ELSE deadline
  /\ deadlineWait' = TRUE
  /\ ioPc' = "idle"
  /\ UNCHANGED <<stateVars, socketVars, heartbeatWait, idle, mainPc, uiVars, calls>>

(* check_deadline: a deadline that passed closes the socket; it waits      *)
(* again in either case.                                                   *)
HandleDeadline ==
  /\ Running("deadline")
  /\ IF deadline = "passed"
     THEN /\ CloseSocket
          /\ ready' = Tail(ready) \o AbortedBySocketClose
          /\ deadline' = "never"
     ELSE /\ ready' = Tail(ready)
          /\ UNCHANGED <<socketVars, deadline>>
  /\ deadlineWait' = TRUE
  /\ ioPc' = "idle"
  /\ UNCHANGED <<stateVars, heartbeatWait, idle, mainPc, uiVars, calls>>

-----------------------------------------------------------------------------
(* Network and clock.                                                      *)

EnvUnchanged == UNCHANGED <<stateVars, ioPc, idle, mainPc, uiVars, calls>>

Established ==
  /\ mainPc # "aborted" /\ connecting > 0
  /\ socket' = "connected" /\ connecting' = 0
  /\ ready' = Append(ready, ConnectDone("connected", connecting))
  /\ UNCHANGED <<reads, asked, pings, timerVars>> /\ EnvUnchanged

Unreachable ==
  /\ mainPc # "aborted" /\ connecting > 0
  /\ connecting' = 0
  /\ ready' = Append(ready, ConnectDone("connectError", connecting))
  /\ UNCHANGED <<socket, reads, asked, pings, timerVars>> /\ EnvUnchanged

(* The server answers a request, or refuses it; an outstanding read ends.  *)
(* (So it does for a notification or one of the browser's answers: a read  *)
(* more, which leaves the state below as it was but for a deadline set     *)
(* anew.  They are left out.)                                              *)
Reply ==
  /\ mainPc # "aborted" /\ reads > 0
  /\ reads' = reads - 1
  /\ \/ \E r \in asked : \E m \in {r, "refused"} :
          /\ asked' = asked \ {r}
          /\ ready' = Append(ready, MessageRead(m))
          /\ UNCHANGED pings
     \/ /\ pings > 0 /\ pings' = pings - 1
        /\ ready' = Append(ready, MessageRead("pong"))
        /\ UNCHANGED asked
  /\ UNCHANGED <<socket, connecting, timerVars>> /\ EnvUnchanged

(* The server closes or resets the connection.                             *)
PeerCloses ==
  /\ mainPc # "aborted" /\ reads > 0
  /\ reads' = 0 /\ asked' = {} /\ pings' = 0
  /\ ready' = ready \o Repeat("readError", reads)
  /\ UNCHANGED <<socket, connecting, timerVars>> /\ EnvUnchanged

(* The deadline comes nearer, then passes; setting it anew starts over.    *)
DeadlineTicks ==
  /\ mainPc # "aborted"
  /\ \/ /\ deadline = "armed" /\ deadline' = "running"
        /\ UNCHANGED <<ready, deadlineWait>>
     \/ /\ deadline = "running" /\ deadline' = "passed"
        /\ ready' = ready \o WokenByDeadline
        /\ deadlineWait' = FALSE
  /\ UNCHANGED <<socketVars, heartbeatWait>> /\ EnvUnchanged

HeartbeatPasses ==
  /\ mainPc # "aborted" /\ heartbeatWait
  /\ heartbeatWait' = FALSE
  /\ ready' = Append(ready, Done("ping"))
  /\ UNCHANGED <<socketVars, deadline, deadlineWait>> /\ EnvUnchanged

-----------------------------------------------------------------------------
User == Start \/ ClickConnect \/ ClickDisconnect \/ OpenDialog \/ CloseDialog

MainLoop ==
  \/ Resolved \/ ResolveFails \/ MainTeardown
  \/ OnPlayers \/ OnItemsPlayer \/ HandshakeDone \/ OnRefused \/ OnPong \/ OnGone

Worker ==
  \/ HandlerEnter \/ HandleConnected \/ HandleConnectFailed \/ HandleMessage
  \/ HandleReadError \/ HandleWriteError \/ WorkerTeardown \/ HandlePing \/ HandleDeadline

Network == Established \/ Unreachable \/ Reply \/ PeerCloses
Clock == DeadlineTicks \/ HeartbeatPasses

Next == User \/ MainLoop \/ Worker \/ Network \/ Clock

(* Both threads run and time passes; users and network owe nothing.        *)
Fairness ==
  WF_vars(MainLoop) /\ WF_vars(Worker) /\ WF_vars(DeadlineTicks) /\ WF_vars(HeartbeatPasses)

Spec == Init /\ [][Next]_vars
FairSpec == Spec /\ Fairness

-----------------------------------------------------------------------------
(* Properties.                                                             *)

FlagsOK ==
  /\ m_stopped \in BOOLEAN /\ m_connected \in BOOLEAN /\ player \in BOOLEAN
  /\ deadlineWait \in BOOLEAN /\ heartbeatWait \in BOOLEAN /\ uiConnected \in BOOLEAN

TypeOK ==
  /\ FlagsOK
  /\ socket \in {"closed", "open", "connected"}
  /\ connecting \in 0..MaxEndpoints
  /\ reads \in Nat /\ pings \in Nat
  /\ asked \subseteq Requests
  /\ deadline \in {"armed", "running", "passed", "never"}
  /\ ready \in Seq(Completion)
  /\ ioPc \in {"idle", "run", "closing"}
  /\ idle \in Seq(Messages \cup {"gone"})
  /\ mainPc \in {"new", "resolving", "idle", "closing", "aborted"}
  /\ dialog \in {"none", "connect", "disconnect"}
  /\ calls \in 0..MaxConnects

(* A ping cycle (a ping or its pong under way, or the timer between the    *)
(* two) is only ever started by a call of connect(), however pongs,        *)
(* cancelled timers, disconnects and new connections interleave: a session *)
(* that is never reconnected does not flood the server with pings.         *)
PingCycles ==
  pings + (IF heartbeatWait THEN 1 ELSE 0)
  + Cardinality({i \in DOMAIN ready : ready[i].kind = "ping" \/ ready[i].msg = "pong"})
  + Cardinality({i \in DOMAIN idle : idle[i] = "pong"})
PingsBounded == PingCycles <= calls

(* Each call of connect() has one thing under way at most, an attempt, a   *)
(* read or the completion of either, through timeouts, aborts, failures    *)
(* and the overlapping attempts of a second click: a connection that is    *)
(* never made again does not read twice at once into the one               *)
(* m_input_buffer.                                                         *)
Chains ==
  reads + (IF connecting > 0 THEN 1 ELSE 0)
  + Cardinality({i \in DOMAIN ready :
      ready[i].kind \in {"connected", "connectError", "message", "readError"}})
OneChainPerCall == Chains <= calls

(* check_deadline is waiting, or queued to run and wait again.             *)
DeadlineIn(s) == \E i \in DOMAIN s : s[i].kind = "deadline"
DeadlineWatched == deadlineWait \/ DeadlineIn(ready)

(* From start() to the first disconnect() the deadline is enforced, no     *)
(* matter how often it is set anew while check_deadline runs.              *)
Supervised ==
  calls = 1 /\ ~m_stopped /\ mainPc \in {"idle", "closing"} => DeadlineWatched

(* CONNECT_TIMEOUT and PING_TIMEOUT (client.h:41-43) are limits on every   *)
(* attempt ("Connect timed out", client.cc:152) and every connection.      *)
SupervisedAlways == ~m_stopped /\ mainPc \in {"idle", "closing"} => DeadlineWatched

(* Neither thread has anything left to do.                                 *)
Quiet == ready = <<>> /\ ioPc = "idle" /\ idle = <<>> /\ mainPc = "idle"

(* disconnect() wins over a handler that was past its test of m_stopped:   *)
(* once both threads are through, the socket is closed, nothing connects   *)
(* and nothing reads.  (A wait on either timer may be left: a late pong    *)
(* starts m_heartbeat_timer again, check_deadline may wait once more.)     *)
StoppedClosed == m_stopped /\ Quiet => socket = "closed" /\ connecting = 0 /\ reads = 0

(* The user interface never goes on showing a connection that is gone.     *)
ShownConnected == uiConnected /\ Quiet => m_connected /\ ~m_stopped

(* With a server that need not answer, no attempt and no read hangs        *)
(* forever, and a stopped client comes to rest.                            *)
NothingHangs ==
  /\ \A i \in 1..MaxEndpoints : connecting = i ~> connecting # i
  /\ reads > 0 ~> reads = 0
  /\ m_stopped /\ calls > 0 ~> Quiet
=============================================================================
