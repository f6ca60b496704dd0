------------------------------- MODULE Progress -------------------------------
(***************************************************************************)
(* The time of the film: the server's position, the seconds Client counts  *)
(* of its own between two answers (m_elapsed, client.cc), and what the     *)
(* progress label and scale of MainWindow show (main-window.cc, util.cc).  *)
(*                                                                         *)
(* The client asks for the time only after OnPlay and in the handshake;    *)
(* in between a GLib timeout adds a second each second, counted from the   *)
(* moment the one before was handled.  Session shows that there is one     *)
(* such timer at most, so here it is a countdown.  The answer of GetItems, *)
(* which comes before each GetProperties, is part of the time a request    *)
(* may wait to be served; the mirror of the rest of the player is left to  *)
(* Session.                                                                *)
(***************************************************************************)
EXTENDS Integers, Sequences

CONSTANTS
  SECOND,       \* ticks of the clock in a second
  Totals,       \* the lengths of items, in seconds
  Rests,        \* how much of them is left where they start and after a seek
  MaxDelay,     \* ticks from what the server says to its handling in the main loop
  MaxLag,       \* ticks by which a GLib timeout may come late
  MaxLate,      \* bound: ticks of lateness between two answers
  MaxChanges    \* bound: what players, users and other remotes change

ASSUME ProgressAssumption ==
  /\ SECOND \in Nat \ {0}
  /\ Rests \subseteq Nat /\ Totals \subseteq Nat
  /\ \A rest \in Rests, t \in Totals : rest <= t
  /\ MaxDelay \in Nat /\ MaxLag \in Nat /\ MaxLate \in Nat /\ MaxChanges \in Nat

VARIABLES
  player,       \* server: "none", "playing" or "paused"
  position,     \* server: ticks of the item played
  total,        \* server: its length in seconds
  asked,        \* GetProperties requests under way
  toClient,     \* messages under way, in order
  m_state, m_elapsed, m_totalTime,
  itemActive,   \* m_playlistid >= 0
  seeking,      \* the auto-seek timeout is connected
  due,          \* ticks until it is dispatched
  label,        \* m_progressLabel: the two times, or empty
  upper, value, \* m_progressScale: its range's end and its value
  late,         \* history: lateness of the timeout since the last answer
  sought,       \* history: a seek since the server last told the time
  changes

serverVars == <<player, position, total>>
timeVars == <<m_elapsed, m_totalTime>>
seekerVars == <<seeking, due>>
uiVars == <<label, upper, value>>
historyVars == <<late, sought>>
vars == <<serverVars, asked, toClient, m_state, timeVars, itemActive, seekerVars, uiVars,
          historyVars, changes>>

Notifications == {"OnPlay", "OnPause", "OnStop"}
Empty == <<>>

-----------------------------------------------------------------------------
(* util.cc.                                                                *)

Time(hours, minutes, seconds) == [hours |-> hours, minutes |-> minutes, seconds |-> seconds]

(* Util::json_time_to_seconds: XBMC's time object.                         *)
JsonTimeToSeconds(time) == time.hours * 60 * 60 + time.minutes * 60 + time.seconds

(* Util::seconds_to_short_time: the three numbers it prints.               *)
SecondsToShortTime(seconds) ==
  Time(seconds \div 3600, (seconds % 3600) \div 60, (seconds % 3600) % 60)

-----------------------------------------------------------------------------
(* What XBMC says of a number of seconds, and of the player now.           *)
ServerTime(seconds) == Time(seconds \div 3600, (seconds \div 60) % 60, seconds % 60)

Say(id, p, pos, t) ==
  [id |-> id, player |-> p, time |-> ServerTime(pos \div SECOND),
   totaltime |-> ServerTime(t), age |-> 0]

(* The handshake is waiting for the time, if there is a player.            *)
Init ==
  /\ player \in {"none", "playing", "paused"}
  /\ total \in Totals /\ \E rest \in Rests : position = (total - rest) * SECOND
  /\ asked = IF player = "none" THEN 0 ELSE 1
  /\ toClient = <<>>
  /\ m_state = IF player = "none" THEN "NOPLAYER" ELSE "STOP"
  /\ m_elapsed = 0 /\ m_totalTime = 0 /\ itemActive = FALSE
  /\ seeking = FALSE /\ due = 0
  /\ label = Empty /\ upper = 0 /\ value = 0
  /\ late = 0 /\ sought = FALSE /\ changes = 0

-----------------------------------------------------------------------------
(* What the window shows.                                                  *)

Clamped(v, bound) == IF v > bound THEN bound ELSE v

(* m_progressScale: set_range, then set_value, which keeps to the range.   *)
ShowScale(elapsed, end) == upper' = end /\ value' = Clamped(elapsed, end)

(* m_progressLabel->set_text of the two times.                             *)
ShowTimes(elapsed, end) ==
  label' = <<SecondsToShortTime(elapsed), SecondsToShortTime(end)>>

(* on_client_seek                                                          *)
OnClientSeek(elapsed, end) == ShowScale(elapsed, end) /\ ShowTimes(elapsed, end)

(* set_playpause_dependent_widgets                                         *)
Dependent(state) == IF state \in {"PLAY", "PAUSE"} THEN label ELSE Empty

(* refresh_player, once the state of this step is set; with an active item *)
(* it writes over what set_playpause_dependent_widgets cleared.            *)
RefreshPlayer ==
  IF itemActive'
  THEN ShowTimes(m_elapsed', m_totalTime') /\ ShowScale(m_elapsed', m_totalTime')
  ELSE label' = Dependent(m_state') /\ UNCHANGED <<upper, value>>

-----------------------------------------------------------------------------
(* The main loop.                                                          *)

MutAutoSeek ==
  /\ seeking /\ due <= 0
  /\ IF m_state = "PLAY"
     THEN /\ m_elapsed' = m_elapsed + 1
          /\ OnClientSeek(m_elapsed, m_totalTime)
          /\ due' = SECOND /\ late' = late - due
          /\ UNCHANGED seeking
     ELSE seeking' = FALSE /\ UNCHANGED <<m_elapsed, due, late, uiVars>>
  /\ UNCHANGED <<serverVars, asked, toClient, m_state, m_totalTime, itemActive, sought, changes>>

(* auto_seek_timeout_handler: one second more, or the source ends itself.  *)
AutoSeek ==
  /\ seeking /\ due <= 0
  /\ IF m_state = "PLAY"
     THEN /\ m_elapsed' = m_elapsed + 1
          /\ OnClientSeek(m_elapsed', m_totalTime)
          /\ due' = SECOND /\ late' = late - due
          /\ UNCHANGED seeking
     ELSE seeking' = FALSE /\ UNCHANGED <<m_elapsed, due, late, uiVars>>
  /\ UNCHANGED <<serverVars, asked, toClient, m_state, m_totalTime, itemActive, sought, changes>>

Dispatch(id) ==
  /\ toClient # <<>> /\ Head(toClient).id = id
  /\ toClient' = Tail(toClient)
  /\ UNCHANGED <<serverVars, changes>>

MutGetPropertiesOneBefore(m) ==
  /\ m_elapsed' = JsonTimeToSeconds(m.time) - 1 /\ m_totalTime' = JsonTimeToSeconds(m.totaltime)
  /\ late' = 0 /\ UNCHANGED sought
  /\ \/ m.player = "none" /\ UNCHANGED <<m_state, itemActive, seekerVars>>
     \/ /\ m.player = "playing" /\ m_state' = "PLAY" /\ itemActive' = TRUE
        /\ seeking' = TRUE /\ due' = SECOND
     \/ m.player = "paused" /\ m_state' = "PAUSE" /\ itemActive' = TRUE /\ UNCHANGED seekerVars

(* handle_get_properties.  Of no player there is no time: its members are  *)
(* missing and count as zero.                                              *)
GetProperties(m) ==
  /\ m_elapsed' = JsonTimeToSeconds(m.time) /\ m_totalTime' = JsonTimeToSeconds(m.totaltime)
  /\ late' = 0 /\ UNCHANGED sought
  /\ \/ m.player = "none" /\ UNCHANGED <<m_state, itemActive, seekerVars>>
     \/ /\ m.player = "playing" /\ m_state' = "PLAY" /\ itemActive' = TRUE
        /\ seeking' = TRUE /\ due' = SECOND
     \/ m.player = "paused" /\ m_state' = "PAUSE" /\ itemActive' = TRUE /\ UNCHANGED seekerVars

(* ID_CONNECT_GET_PROPERTIES and ID_ONPLAY_GET_PROPERTIES alike: both end  *)
(* in refresh_player.                                                      *)
HandleProperties ==
  /\ Dispatch("properties")
  /\ GetProperties(Head(toClient))
  /\ RefreshPlayer
  /\ UNCHANGED asked

(* An error instead of an answer.                                          *)
HandleError ==
  /\ Dispatch("error")
  /\ UNCHANGED <<asked, m_state, timeVars, itemActive, seekerVars, uiVars, historyVars>>

(* handle_on_play, and the answer of its GetItems.                         *)
HandleOnPlay ==
  /\ Dispatch("OnPlay")
  /\ m_state' = "PLAY" /\ asked' = asked + 1
  /\ UNCHANGED <<timeVars, itemActive, seekerVars, uiVars, historyVars>>

MutOnPauseKeepsTimer ==
  /\ Dispatch("OnPause")
  /\ seeking' = seeking
  /\ UNCHANGED <<m_state, asked, timeVars, itemActive, due, uiVars, historyVars>>

HandleOnPause ==
  /\ Dispatch("OnPause")
  /\ m_state' = "PAUSE" /\ seeking' = FALSE
  /\ UNCHANGED <<asked, timeVars, itemActive, due, uiVars, historyVars>>

(* on_client_stop: the label is cleared, and written again by              *)
(* refresh_player if there ever was an item.                               *)
HandleOnStop ==
  /\ Dispatch("OnStop")
  /\ m_state' = "STOP" /\ seeking' = FALSE
  /\ UNCHANGED <<asked, timeVars, itemActive, due, historyVars>>
  /\ RefreshPlayer

-----------------------------------------------------------------------------
(* XBMC, and the clock.                                                    *)

Change ==
  /\ changes < MaxChanges /\ changes' = changes + 1
  /\ UNCHANGED <<asked, m_state, timeVars, itemActive, seekerVars, uiVars, late>>

Announce(id, p, pos, t) ==
  /\ player' = p /\ position' = pos /\ total' = t
  /\ toClient' = Append(toClient, Say(id, p, pos, t))
  /\ UNCHANGED sought

(* An item starts, whatever was played before it, or is resumed.           *)
ServerPlays ==
  /\ Change
  /\ \/ \E t \in Totals, rest \in Rests :
          Announce("OnPlay", "playing", (t - rest) * SECOND, t)
     \/ player = "paused" /\ Announce("OnPlay", "playing", position, total)

ServerPauses == Change /\ player = "playing" /\ Announce("OnPause", "paused", position, total)

ServerStops == Change /\ player # "none" /\ Announce("OnStop", "none", position, total)

(* A seek on the server, of which the client is told by Player.OnSeek and  *)
(* takes no notice.                                                        *)
ServerSeeks ==
  /\ Change /\ player # "none"
  /\ \E rest \in Rests : position' = (total - rest) * SECOND
  /\ sought' = TRUE
  /\ UNCHANGED <<player, total, toClient>>

(* The properties of a player there is not are refused, or come empty.     *)
ServeProperties ==
  /\ asked > 0 /\ asked' = asked - 1
  /\ \/ /\ player # "none" /\ sought' = FALSE
        /\ toClient' = Append(toClient, Say("properties", player, position, total))
     \/ /\ player = "none" /\ UNCHANGED sought
        /\ \E id \in {"properties", "error"} : toClient' = Append(toClient, Say(id, player, 0, 0))
  /\ UNCHANGED <<serverVars, m_state, timeVars, itemActive, seekerVars, uiVars, late, changes>>

(* Nothing has waited for as long as it may, and the item goes on.         *)
NothingUrgent ==
  /\ \A i \in DOMAIN toClient : toClient[i].age < MaxDelay
  /\ seeking => due > -MaxLag /\ (due <= 0 => late - due < MaxLate)
  /\ player = "playing" => position < total * SECOND

Tick ==
  /\ NothingUrgent
  /\ position' = IF player = "playing" THEN position + 1 ELSE position
  /\ due' = IF seeking THEN due - 1 ELSE due
  /\ toClient' = [i \in DOMAIN toClient |-> [toClient[i] EXCEPT !.age = @ + 1]]
  /\ UNCHANGED <<player, total, asked, m_state, timeVars, itemActive, seeking, uiVars,
                 historyVars, changes>>

-----------------------------------------------------------------------------
Next ==
  \/ AutoSeek \/ HandleProperties \/ HandleError \/ HandleOnPlay \/ HandleOnPause
  \/ HandleOnStop \/ ServerPlays \/ ServerPauses \/ ServerStops \/ ServerSeeks
  \/ ServeProperties \/ Tick

Spec == Init /\ [][Next]_vars

-----------------------------------------------------------------------------
(* Properties.                                                             *)

TimeRecords == [hours : Nat, minutes : Nat, seconds : Nat]

ServerOK == player \in {"none", "playing", "paused"} /\ position \in Nat /\ total \in Totals

Message == [id : Notifications \cup {"properties", "error"},
            player : {"none", "playing", "paused"},
            time : TimeRecords, totaltime : TimeRecords, age : Nat]

ClientOK ==
  /\ m_state \in {"PLAY", "PAUSE", "STOP", "NOPLAYER"}
  /\ m_elapsed \in Nat /\ m_totalTime \in Nat
  /\ itemActive \in BOOLEAN /\ seeking \in BOOLEAN /\ due \in Int

WindowOK == label \in {Empty} \cup (TimeRecords \X TimeRecords) /\ upper \in Nat /\ value \in Nat

TypeOK ==
  /\ ServerOK /\ ClientOK /\ WindowOK
  /\ asked \in Nat /\ toClient \in Seq(Message)
  /\ late \in Nat /\ sought \in BOOLEAN /\ changes \in 0..MaxChanges

Quiet == asked = 0 /\ toClient = <<>>

(* What the client's count lacks of the server's position, in ticks.       *)
Behind == position - m_elapsed * SECOND

(* With nothing under way and no seek since the last answer, the client's  *)
(* count is never ahead of a film that plays, and behind it only by the    *)
(* second that XBMC rounds off, the second that is being counted, the      *)
(* delay of the one answer the count started from and the lateness of the  *)
(* timeout, which adds up.  One that is paused it may have passed by what  *)
(* the pause took to be known.                                             *)
Follows ==
  Quiet /\ ~sought /\ player # "none" =>
    /\ Behind >= (IF player = "paused" THEN -MaxDelay ELSE 0)
    /\ Behind < 2 * SECOND + MaxDelay + late + MaxLag

(* What the label reads, in seconds.                                       *)
Read(time) == time.hours * 3600 + time.minutes * 60 + time.seconds
Proper(time) == time.minutes < 60 /\ time.seconds < 60

(* A label that is not empty reads as the client's two times, and so does  *)
(* the scale as far as it goes, whichever of the timeout, the answers and  *)
(* the notifications wrote them last: the window has no older time.        *)
ShownTime ==
  /\ label # Empty =>
       /\ Proper(label[1]) /\ Read(label[1]) = m_elapsed
       /\ Proper(label[2]) /\ Read(label[2]) = m_totalTime
  /\ itemActive => upper = m_totalTime /\ value = Clamped(m_elapsed, m_totalTime)
=============================================================================
