------------------------------- MODULE Session -------------------------------
(***************************************************************************)
(* One session with XBMC as the GTK main loop sees it: the handshake, the  *)
(* mirror of the player's state that Client keeps from responses and       *)
(* notifications, the timer that advances the progress bar in between, and *)
(* what MainWindow shows of it (client.cc, main-window.cc).                *)
(*                                                                         *)
(* Framing, sockets and reconnects are the business of FrameReader and of  *)
(* Connection; here messages arrive in the order the server sent them.     *)
(* The worker's disconnect() runs beside the main loop: its flags and the  *)
(* rest are two steps.  XBMC is external: it answers in order, and         *)
(* announces a change before it answers anything asked later.  A message   *)
(* carries a snapshot of the server, of which a handler reads its part.    *)
(* The player mirrored is player 1, which every request names; XBMC has    *)
(* others (music, pictures), and announces what they do by the same        *)
(* methods, with another playerid, which Client does not read.  A player   *)
(* plays at speed 1 or pauses at 0: winding, of which no method that       *)
(* Client listens to tells, is left out.                                   *)
(***************************************************************************)
EXTENDS Integers, SequencesExt

CONSTANTS
  MaxChanges,   \* bound: changes of the players that no request asked for
  MaxClicks,    \* bound: requests the user makes
  MaxItems,     \* bound: items of the server's playlist
  PlaylistIds   \* the playlists a player may use

ASSUME SessionAssumption ==
  /\ MaxChanges \in Nat /\ MaxClicks \in Nat /\ MaxItems \in Nat \ {0}
  /\ PlaylistIds \subseteq Nat /\ PlaylistIds # {}

VARIABLES
  player,               \* server: "none", "playing" or "paused"
  list,                 \* server: the number of items in its playlist
  toServer, toClient,   \* requests and messages under way, in order
  m_stopped, m_connected, m_state, m_playlistid,
  rows,                 \* rows of m_playlist_model
  seekers,              \* live timeout sources of auto_seek_timeout_handler
  m_autoSeekConnection, \* the one of them disconnect() would remove
  buttons,              \* the player's buttons are sensitive
  image,                \* what the play/pause button shows
  label,                \* m_primaryLabel
  errors,               \* the user was shown an error of the server
  closing,              \* disconnect() has set the flags and is not through
  foreign,              \* history: another player announced something since player 1
                        \* did, or had its properties read
  changes, clicks

serverVars == <<player, list>>
stateVars == <<m_stopped, m_connected, m_state, m_playlistid, rows>>
timerVars == <<seekers, m_autoSeekConnection>>
uiVars == <<buttons, image, label>>
boundVars == <<changes, clicks>>
vars == <<serverVars, toServer, toClient, stateVars, timerVars, uiVars, errors, closing,
          foreign, boundVars>>

States == {"PLAY", "PAUSE", "STOP", "NOPLAYER"}
Players == {"none", "playing", "paused"}
Timers == 1..2          \* more than are ever live
Queries == {"players", "connectItems", "connectProperties", "onPlayItems", "onPlayProperties"}
Properties == {"connectProperties", "onPlayProperties"}
PlayerCommands == {"playPause", "stop", "skip"}     \* skip: GoPrevious and GoNext
RemoteCommands == {"input"}                         \* Input.Up, Input.Select and so on
PlaylistCommands == {"clear", "add", "open"}
Commands == PlayerCommands \cup RemoteCommands \cup PlaylistCommands
Notifications == {"OnPlay", "OnPause", "OnStop"}
Others == {"OtherPlay", "OtherPause", "OtherStop"}      \* the same, of another player
Message == [id : Queries \cup Notifications \cup Others \cup {"error", "gone"},
            player : Players, list : 0..MaxItems]

(* What the server says at this moment.                                    *)
Say(id) == [id |-> id, player |-> player, list |-> list]

(* handle_connect has just asked for the active players.                   *)
Init ==
  /\ player \in Players /\ list \in 0..MaxItems
  /\ toServer = <<"players">> /\ toClient = <<>>
  /\ m_stopped = FALSE /\ m_connected = FALSE
  /\ m_state = "NOPLAYER" /\ m_playlistid = -1 /\ rows = 0
  /\ seekers = {} /\ m_autoSeekConnection = 0
  /\ buttons = FALSE /\ image = "play" /\ label = "disconnected"
  /\ errors = FALSE /\ closing = FALSE /\ foreign = FALSE
  /\ changes = 0 /\ clicks = 0

-----------------------------------------------------------------------------
(* Pieces shared by the handlers.                                          *)

(* write(): dropped once stopped.  Pings and the browser's requests are    *)
(* left out: their responses change nothing below.                         *)
Write(requests) == toServer' = IF m_stopped THEN toServer ELSE toServer \o requests

MutStartSeeking ==
  \E t \in Timers \ seekers : seekers' = seekers \cup {t} /\ m_autoSeekConnection' = t

(* m_autoSeekConnection.disconnect(), and a new connection in its place.   *)
StopSeeking == seekers' = seekers \ {m_autoSeekConnection} /\ UNCHANGED m_autoSeekConnection

StartSeeking ==
  LET kept == seekers \ {m_autoSeekConnection}
  IN \E t \in Timers \ kept : seekers' = kept \cup {t} /\ m_autoSeekConnection' = t

(* set_playpause_dependent_widgets                                         *)
SetPlayPauseWidgets(state) ==
  /\ buttons' = (state \in {"PLAY", "PAUSE"})
  /\ image' = IF state = "PLAY" THEN "pause" ELSE "play"

(* get_active_iter takes the row m_playlistid - 1, if there is one.        *)
ActiveRowExists == m_playlistid' - 1 \in 0..rows' - 1

(* refresh_player, once the state of this step is set.                     *)
RefreshPlayer ==
  /\ SetPlayPauseWidgets(m_state')
  /\ label' = IF m_playlistid' < 0 THEN "nothingPlaying"
              ELSE IF ActiveRowExists THEN "item" ELSE "invalidIter"

(* PlaylistModel::populate replaces the rows by the playlist's items.      *)
Populate(items) == rows' = items

(* handle_get_items: an empty playlist comes without "items".              *)
GetItems(m) == IF m.list > 0 THEN Populate(m.list) ELSE UNCHANGED rows

MutPlaysAtAnySpeed(m) ==
  IF m.player = "none" THEN UNCHANGED <<m_state, m_playlistid, timerVars>>
  ELSE m_state' = "PLAY" /\ m_playlistid' \in PlaylistIds /\ StartSeeking

MutPlaylistIdAsRow(m) ==
  IF m.player = "none" THEN UNCHANGED <<m_state, m_playlistid, timerVars>>
  ELSE /\ m_state' = IF m.player = "playing" THEN "PLAY" ELSE "PAUSE"
       /\ \E p \in PlaylistIds : m_playlistid' = p - 1
       /\ StartSeeking

(* handle_get_properties                                                   *)
GetProperties(m) ==
  \/ /\ m.player = "none"
     /\ UNCHANGED <<m_state, m_playlistid, timerVars>>
  \/ /\ m.player = "playing"
     /\ m_state' = "PLAY" /\ m_playlistid' \in PlaylistIds
     /\ StartSeeking
  \/ /\ m.player = "paused"
     /\ m_state' = "PAUSE" /\ m_playlistid' \in PlaylistIds
     /\ UNCHANGED timerVars

-----------------------------------------------------------------------------
(* handle_json_idle, one action per message.                               *)

Dispatch(id) ==
  /\ toClient # <<>> /\ Head(toClient).id = id
  /\ toClient' = Tail(toClient)
  /\ UNCHANGED <<serverVars, m_stopped, closing, foreign, boundVars>>

(* Any player that is active will do, be it not the one asked later.       *)
HandleGetActivePlayers ==
  /\ Dispatch("players")
  /\ \E otherActive \in BOOLEAN :
       m_state' = IF Head(toClient).player # "none" \/ otherActive THEN "STOP" ELSE m_state
  /\ Write(<<"connectItems">>)
  /\ UNCHANGED <<m_connected, m_playlistid, rows, timerVars, uiVars, errors>>

MutConnected == m_connected' = TRUE /\ UNCHANGED uiVars

(* m_connected = true and signal_connect.                                  *)
Connected == m_connected' = TRUE /\ RefreshPlayer

MutHandleConnectGetItems ==
  /\ Dispatch("connectItems")
  /\ GetItems(Head(toClient))
  /\ IF m_state # "NOPLAYER"
     THEN Write(<<"connectProperties">>)
     ELSE UNCHANGED toServer
  /\ UNCHANGED <<m_connected, m_state, m_playlistid, timerVars, uiVars, errors>>

HandleConnectGetItems ==
  /\ Dispatch("connectItems")
  /\ GetItems(Head(toClient))
  /\ UNCHANGED <<m_state, m_playlistid, timerVars, errors>>
  /\ IF m_state # "NOPLAYER"
     THEN Write(<<"connectProperties">>) /\ UNCHANGED <<m_connected, uiVars>>
     ELSE UNCHANGED toServer /\ Connected

HandleConnectProperties ==
  /\ Dispatch("connectProperties")
  /\ GetProperties(Head(toClient))
  /\ UNCHANGED <<toServer, rows, errors>>
  /\ Connected

HandleOnPlay ==
  /\ Dispatch("OnPlay") \/ Dispatch("OtherPlay")
  /\ m_state' = "PLAY"
  /\ Write(<<"onPlayItems">>)
  /\ UNCHANGED <<m_connected, m_playlistid, rows, timerVars, uiVars, errors>>

MutHandleOnPlayItems ==
  /\ Dispatch("onPlayItems")
  /\ GetItems(Head(toClient))
  /\ UNCHANGED <<toServer, m_connected, m_state, m_playlistid, timerVars, uiVars, errors>>

HandleOnPlayItems ==
  /\ Dispatch("onPlayItems")
  /\ GetItems(Head(toClient))
  /\ Write(<<"onPlayProperties">>)
  /\ UNCHANGED <<m_connected, m_state, m_playlistid, timerVars, uiVars, errors>>

HandleOnPlayProperties ==
  /\ Dispatch("onPlayProperties")
  /\ GetProperties(Head(toClient))
  /\ UNCHANGED <<toServer, m_connected, rows, errors>>
  /\ RefreshPlayer

HandleOnPause ==
  /\ Dispatch("OnPause") \/ Dispatch("OtherPause")
  /\ m_state' = "PAUSE"
  /\ StopSeeking
  /\ SetPlayPauseWidgets("PAUSE")
  /\ UNCHANGED <<toServer, m_connected, m_playlistid, rows, label, errors>>

HandleOnStop ==
  /\ Dispatch("OnStop") \/ Dispatch("OtherStop")
  /\ m_state' = "STOP"
  /\ StopSeeking
  /\ UNCHANGED <<toServer, m_connected, m_playlistid, rows, errors>>
  /\ RefreshPlayer

(* signal_remote_error, whichever request was refused.                     *)
HandleError ==
  /\ Dispatch("error")
  /\ errors' = TRUE
  /\ UNCHANGED <<toServer, m_connected, m_state, m_playlistid, rows, timerVars, uiVars>>

(* disconnect_in_main_loop                                                 *)
HandleGone ==
  /\ Dispatch("gone")
  /\ rows' = 0
  /\ label' = "disconnected"
  /\ SetPlayPauseWidgets(m_state)
  /\ UNCHANGED <<toServer, m_connected, m_state, m_playlistid, timerVars, errors>>

(* auto_seek_timeout_handler: in any other state than PLAY the source ends *)
(* itself; in PLAY only m_elapsed and the progress bar advance.            *)
Seek ==
  /\ seekers # {} /\ m_state # "PLAY"
  /\ \E t \in seekers : seekers' = seekers \ {t}
  /\ UNCHANGED <<serverVars, toServer, toClient, stateVars, m_autoSeekConnection,
                 uiVars, errors, closing, foreign, boundVars>>

(* disconnect(), first part: the flags.  What the worker had not queued in *)
(* the main loop by then is lost.                                          *)
Disconnect ==
  /\ ~m_stopped
  /\ m_stopped' = TRUE /\ m_connected' = FALSE
  /\ m_state' = "NOPLAYER" /\ m_playlistid' = -1
  /\ closing' = TRUE
  /\ toServer' = <<>>
  /\ \E n \in 0..Len(toClient) : toClient' = SubSeq(toClient, 1, n)
  /\ UNCHANGED <<serverVars, rows, timerVars, uiVars, errors, foreign, boundVars>>

(* disconnect(), the rest: the timer, the callback disconnect_in_main_loop,*)
(* queued before what a worker past its test of m_stopped hands over yet.  *)
Teardown ==
  /\ closing /\ closing' = FALSE
  /\ StopSeeking
  /\ \E i \in 1..Len(toClient) + 1 : toClient' = InsertAt(toClient, i, Say("gone"))
  /\ UNCHANGED <<serverVars, toServer, stateVars, uiVars, errors, foreign, boundVars>>

-----------------------------------------------------------------------------
(* The user: buttons of player, remote and playlist, the browser's rows.   *)
Click(requests) ==
  /\ clicks < MaxClicks /\ clicks' = clicks + 1
  /\ Write(requests)
  /\ UNCHANGED <<serverVars, toClient, stateVars, timerVars, uiVars, errors, closing, foreign, changes>>

ClickPlayer == buttons /\ \E c \in PlayerCommands : Click(<<c>>)

(* The remote's and the playlist's buttons are sensitive while connected.  *)
ClickRemote == m_connected /\ \E c \in RemoteCommands : Click(<<c>>)

ClickClear == m_connected /\ Click(<<"clear">>)

(* Client::open of a file                                                  *)
OpenFile == Click(<<"clear", "add", "open">>)

-----------------------------------------------------------------------------
(* XBMC.                                                                   *)

Announce(p) ==
  LET id == CASE p = "playing" -> "OnPlay" [] p = "paused" -> "OnPause" [] p = "none" -> "OnStop"
  IN /\ player' = p
     /\ toClient' = Append(toClient, [id |-> id, player |-> p, list |-> list])
     /\ foreign' = FALSE

(* Another remote, the next item of the playlist, the end of the film.     *)
ServerChanges ==
  /\ ~m_stopped /\ changes < MaxChanges /\ changes' = changes + 1
  /\ \/ Announce("playing")
     \/ player = "playing" /\ Announce("paused")
     \/ player # "none" /\ Announce("none")
  /\ UNCHANGED <<list, toServer, stateVars, timerVars, uiVars, errors, closing, clicks>>

(* Music or pictures, of which player 1 knows nothing.                     *)
OtherPlayerChanges ==
  /\ ~m_stopped /\ changes < MaxChanges /\ changes' = changes + 1
  /\ \E id \in Others : toClient' = Append(toClient, Say(id))
  /\ foreign' = TRUE
  /\ UNCHANGED <<serverVars, toServer, stateVars, timerVars, uiVars, errors, closing, clicks>>

Serve(request) ==
  /\ toServer # <<>> /\ Head(toServer) = request
  /\ toServer' = Tail(toServer)
  /\ UNCHANGED <<stateVars, timerVars, uiVars, errors, closing, boundVars>>

(* The properties of a player there is not are refused, or come empty.     *)
ServeQuery ==
  \E q \in Queries :
    /\ Serve(q)
    /\ \/ toClient' = Append(toClient, Say(q))
       \/ /\ q \in Properties /\ player = "none"
          /\ toClient' = Append(toClient, Say("error"))
    /\ foreign' = (foreign /\ ~(q \in Properties /\ player # "none"))
    /\ UNCHANGED serverVars

(* Skipping ends at the end of the playlist; Input.Select may play a film. *)
ServePlayer ==
  /\ \/ Serve("playPause") /\ player = "playing" /\ Announce("paused")
     \/ Serve("playPause") /\ player = "paused" /\ Announce("playing")
     \/ Serve("stop") /\ player # "none" /\ Announce("none")
     \/ Serve("skip") /\ player # "none" /\ \E p \in {"playing", "none"} : Announce(p)
     \/ Serve("input") /\ Announce("playing")
     \/ Serve("open") /\ Announce("playing")
  /\ UNCHANGED list

ServeRefused ==
  /\ \E c \in PlayerCommands : Serve(c)
  /\ player = "none"
  /\ toClient' = Append(toClient, Say("error"))
  /\ UNCHANGED <<serverVars, foreign>>

(* What is not announced by a method that Client listens to.               *)
ServeSilently ==
  /\ \/ Serve("clear") /\ list' = 0
     \/ Serve("input") /\ UNCHANGED list
     \/ Serve("add") /\ list' = IF list < MaxItems THEN list + 1 ELSE list
  /\ UNCHANGED <<player, toClient, foreign>>

-----------------------------------------------------------------------------
MainLoop ==
  \/ HandleGetActivePlayers \/ HandleConnectGetItems \/ HandleConnectProperties
  \/ HandleOnPlay \/ HandleOnPlayItems \/ HandleOnPlayProperties
  \/ HandleOnPause \/ HandleOnStop \/ HandleError \/ HandleGone

User == ClickPlayer \/ ClickRemote \/ ClickClear \/ OpenFile
Server == ServeQuery \/ ServePlayer \/ ServeRefused \/ ServeSilently

Next == MainLoop \/ Seek \/ Disconnect \/ Teardown \/ User \/ Server
        \/ ServerChanges \/ OtherPlayerChanges

Spec == Init /\ [][Next]_vars

(* The main loop runs, the worker gets through, the server answers.        *)
FairSpec == Spec /\ WF_vars(MainLoop) /\ WF_vars(Teardown) /\ WF_vars(Server)

-----------------------------------------------------------------------------
(* Properties.                                                             *)

ServerOK == player \in Players /\ list \in 0..MaxItems

QueuesOK == toServer \in Seq(Queries \cup Commands) /\ toClient \in Seq(Message)

FlagsOK ==
  /\ m_stopped \in BOOLEAN /\ m_connected \in BOOLEAN
  /\ buttons \in BOOLEAN /\ errors \in BOOLEAN /\ closing \in BOOLEAN
  /\ foreign \in BOOLEAN

MirrorOK ==
  /\ m_state \in States /\ m_playlistid \in PlaylistIds \cup {-1} /\ rows \in 0..MaxItems
  /\ image \in {"play", "pause"}
  /\ label \in {"disconnected", "nothingPlaying", "item", "invalidIter"}

TimersOK == seekers \subseteq Timers /\ m_autoSeekConnection \in Timers \cup {0}

BoundsOK == changes \in 0..MaxChanges /\ clicks \in 0..MaxClicks

TypeOK == ServerOK /\ QueuesOK /\ FlagsOK /\ MirrorOK /\ TimersOK /\ BoundsOK

(* Play announced twice, properties answered twice, pauses in between: the *)
(* progress bar is never advanced by two timers at once.                   *)
OneSeekTimer == Cardinality(seekers) <= 1

Quiet == toServer = <<>> /\ toClient = <<>> /\ ~closing

(* m_state is what the server's player is in.                              *)
Agrees ==
  CASE player = "playing" -> m_state = "PLAY" /\ seekers # {}
    [] player = "paused" -> m_state = "PAUSE"
    [] player = "none" -> m_state \in {"STOP", "NOPLAYER"}

(* Once nothing is under way the mirror is exact, whatever was announced   *)
(* while the handshake or the refresh of OnPlay was still running.  What   *)
(* other players announce is taken for player 1's and leads it astray, but *)
(* only until player 1 announces something, or its properties are read.    *)
InSync == ~m_stopped /\ ~foreign /\ Quiet => Agrees

(* And so is the window: the buttons work and show what they would do.     *)
ShownInSync ==
  ~m_stopped /\ ~foreign /\ Quiet =>
    /\ buttons <=> m_state \in {"PLAY", "PAUSE"}
    /\ image = "pause" <=> m_state = "PLAY"

(* The handshake ends, or the user has been told why not.                  *)
HandshakeEnds == <>(m_connected \/ m_stopped \/ errors)

(* When the changes stop, the mirror becomes exact and stays so.           *)
Converges == <>[](m_stopped \/ foreign \/ (Agrees /\ (seekers # {} => m_state = "PLAY")))

(* "Disconnected." (main-window.cc:432): no connection is reported then,   *)
(* by which the preferences offer Disconnect and no Connect, or at the     *)
(* least no player is followed any more by the auto-seek timer.            *)
ShownDisconnected ==
  label = "disconnected" /\ m_stopped /\ Quiet => ~m_connected \/ seekers = {}
=============================================================================
