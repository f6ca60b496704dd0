---------------------------- MODULE Progress_proofs ----------------------------
(***************************************************************************)
(* Progress for every length of a second, of a film, of delays and lags:   *)
(* the conversions of util.cc undo one another, the window's label and     *)
(* scale are never older than the client's count, and the count follows    *)
(* the film, however answers and notifications cross on the wire.          *)
(***************************************************************************)
EXTENDS Progress, SequenceTheorems, TLAPS

(* Without an item the label is empty and no timeout writes it.            *)
NoItemNoTimes == ~itemActive => label = Empty /\ ~seeking

IInv == TypeOK /\ ShownTime /\ NoItemNoTimes

(* Division with a remainder.                                              *)
LEMMA Division ==
  ASSUME NEW n \in Nat, NEW d \in {60, 3600}
  PROVE  n \div d \in Nat /\ n % d \in 0..(d - 1) /\ n = d * (n \div d) + (n % d)
<1>1. CASE d = 60 BY <1>1
<1>2. CASE d = 3600 BY <1>2
<1> QED BY <1>1, <1>2

(* Hours, minutes and seconds are proper, and add up again.                *)
LEMMA ShortTimeReads ==
  ASSUME NEW n \in Nat
  PROVE  /\ SecondsToShortTime(n) \in TimeRecords
         /\ Proper(SecondsToShortTime(n)) /\ Read(SecondsToShortTime(n)) = n
<1> DEFINE h == n \div 3600
           r == n % 3600
           m == r \div 60
           s == r % 60
<1>1. h \in Nat /\ r \in 0..3599 /\ n = 3600 * h + r
  BY Division
<1> SecondsToShortTime(n) = [hours |-> h, minutes |-> m, seconds |-> s]
  BY DEF SecondsToShortTime, Time
<1> HIDE DEF h, r
<1>2. m \in Nat /\ s \in 0..59 /\ r = 60 * m + s
  BY <1>1, Division
<1> HIDE DEF m, s
<1>3. m < 60 BY <1>1, <1>2
<1> QED BY <1>1, <1>2, <1>3 DEF TimeRecords, Proper, Read

(* A number has one quotient by 3600.                                      *)
LEMMA SameQuotient ==
  ASSUME NEW h \in Nat, NEW k \in Nat, NEW r \in Nat, NEW a \in Nat, r < 3600, a < 3600,
         3600 * h + r = 3600 * k + a
  PROVE  h = k
OBVIOUS

(* What the server says of its seconds is what the client makes of it.     *)
LEMMA ServerTimeReads ==
  ASSUME NEW n \in Nat
  PROVE  ServerTime(n) \in TimeRecords /\ JsonTimeToSeconds(ServerTime(n)) = n
<1> DEFINE q == n \div 60
           h == n \div 3600
           m == q % 60
           s == n % 60
<1>1. ServerTime(n) = [hours |-> h, minutes |-> m, seconds |-> s]
  BY DEF ServerTime, Time
<1>2. q \in Nat /\ s \in 0..59 /\ n = 60 * q + s
  BY Division
<1> DEFINE r == n % 3600
           k == q \div 60
<1>3. h \in Nat /\ r \in 0..3599 /\ n = 3600 * h + r
  BY Division
<1> HIDE DEF q, h, s, r
<1>4. k \in Nat /\ m \in 0..59 /\ q = 60 * k + m
  BY <1>2, Division
<1> HIDE DEF m, k
<1>5. h = k
  <2> DEFINE a == 60 * m + s
  <2>1. a \in Nat /\ a < 3600 /\ n = 3600 * k + a BY <1>2, <1>4
  <2>2. r \in Nat /\ r < 3600 /\ n = 3600 * h + r BY <1>3
  <2> HIDE DEF a
  <2>3. 3600 * h + r = 3600 * k + a BY <2>1, <2>2
  <2> QED BY <1>3, <1>4, <2>1, <2>2, <2>3, SameQuotient
<1> QED BY <1>1, <1>2, <1>3, <1>4, <1>5 DEF TimeRecords, JsonTimeToSeconds

(* Util: a time that XBMC sends is printed as it was sent.                 *)
THEOREM TimeRoundTrip ==
  ASSUME NEW h \in Nat, NEW m \in 0..59, NEW s \in 0..59
  PROVE  SecondsToShortTime(JsonTimeToSeconds(Time(h, m, s))) = Time(h, m, s)
<1> DEFINE n == h * 3600 + m * 60 + s
<1>1. JsonTimeToSeconds(Time(h, m, s)) = n /\ n \in Nat
  BY DEF JsonTimeToSeconds, Time
<1>2. n \div 3600 = h /\ n % 3600 = m * 60 + s
  OBVIOUS
<1>3. (m * 60 + s) \div 60 = m /\ (m * 60 + s) % 60 = s
  OBVIOUS
<1> HIDE DEF n
<1> QED BY <1>1, <1>2, <1>3 DEF SecondsToShortTime, Time

(* A time of the server is never negative.                                 *)
LEMMA JsonTimeNat == ASSUME NEW t \in TimeRecords PROVE JsonTimeToSeconds(t) \in Nat
BY DEF TimeRecords, JsonTimeToSeconds

(* What the server says is a message.                                      *)
LEMMA SayMessage ==
  ASSUME NEW id \in Notifications \cup {"properties", "error"},
         NEW p \in {"none", "playing", "paused"}, NEW pos \in Nat, NEW t \in Nat
  PROVE  Say(id, p, pos, t) \in Message
<1>1. pos \div SECOND \in Nat BY ProgressAssumption
<1>2. ServerTime(pos \div SECOND) \in TimeRecords /\ ServerTime(t) \in TimeRecords
  BY <1>1, ServerTimeReads
<1> QED BY <1>2 DEF Say, Message

(* Where an item starts, and where a seek leads, is a position.            *)
LEMMA StartPosition ==
  ASSUME NEW t \in Nat, NEW rest \in Nat, rest <= t
  PROVE  (t - rest) * SECOND \in Nat
<1>1. t - rest \in Nat /\ SECOND \in Nat BY ProgressAssumption
<1> QED BY <1>1

-----------------------------------------------------------------------------
(* Steps.                                                                  *)

(* A message handled is a message, and so are those behind it.             *)
LEMMA HeadMessage ==
  ASSUME NEW id, toClient \in Seq(Message), Dispatch(id)
  PROVE  Head(toClient) \in Message /\ toClient' \in Seq(Message)
BY HeadTailProperties DEF Dispatch

(* What the label and the scale show of two numbers of seconds.            *)
LEMMA SeekShown ==
  ASSUME NEW e \in Nat, NEW t \in Nat, OnClientSeek(e, t)
  PROVE  /\ WindowOK' /\ upper' = t /\ value' = Clamped(e, t)
         /\ Proper(label'[1]) /\ Read(label'[1]) = e
         /\ Proper(label'[2]) /\ Read(label'[2]) = t
<1>1. label' = <<SecondsToShortTime(e), SecondsToShortTime(t)>>
  BY DEF OnClientSeek, ShowTimes
<1>2. upper' = t /\ value' = Clamped(e, t)
  BY DEF OnClientSeek, ShowScale
<1>3. /\ SecondsToShortTime(e) \in TimeRecords /\ SecondsToShortTime(t) \in TimeRecords
      /\ Proper(SecondsToShortTime(e)) /\ Read(SecondsToShortTime(e)) = e
      /\ Proper(SecondsToShortTime(t)) /\ Read(SecondsToShortTime(t)) = t
  BY ShortTimeReads
<1> QED BY <1>1, <1>2, <1>3 DEF WindowOK, Clamped

(* refresh_player leaves the window with the client's times, or without    *)
(* any.                                                                    *)
LEMMA RefreshShows ==
  ASSUME m_elapsed' \in Nat, m_totalTime' \in Nat, WindowOK, ~itemActive' => label = Empty,
         RefreshPlayer
  PROVE  WindowOK' /\ ShownTime' /\ (~itemActive' => label' = Empty)
<1>1. CASE itemActive'
  <2>1. OnClientSeek(m_elapsed', m_totalTime')
    BY <1>1 DEF RefreshPlayer, OnClientSeek
  <2> QED BY <1>1, <2>1, SeekShown DEF ShownTime
<1>2. CASE ~itemActive'
  <2>1. label' = Empty /\ UNCHANGED <<upper, value>>
    BY <1>2 DEF RefreshPlayer, Dependent
  <2> QED BY <1>2, <2>1 DEF ShownTime, WindowOK
<1> QED BY <1>1, <1>2

(* The handshake starts with an empty window.                              *)
LEMMA InitIInv == Init => IInv
<1> SUFFICES ASSUME Init PROVE IInv
  OBVIOUS
<1>1. ServerOK
  <2>1. PICK rest \in Rests : position = (total - rest) * SECOND BY DEF Init
  <2>2. total \in Nat /\ rest \in Nat /\ rest <= total
    BY <2>1, ProgressAssumption DEF Init
  <2> QED BY <2>1, <2>2, StartPosition DEF ServerOK, Init
<1>2. ClientOK
  <2>1. /\ m_state \in {"NOPLAYER", "STOP"} /\ m_elapsed = 0 /\ m_totalTime = 0
        /\ itemActive = FALSE /\ seeking = FALSE /\ due = 0
    BY DEF Init
  <2>2. m_state \in {"PLAY", "PAUSE", "STOP", "NOPLAYER"} BY <2>1
  <2>3. m_elapsed \in Nat /\ m_totalTime \in Nat /\ due \in Int BY <2>1
  <2> QED BY <2>1, <2>2, <2>3 DEF ClientOK
<1>5. WindowOK BY DEF WindowOK, Init
<1>3. toClient \in Seq(Message) BY EmptySeq DEF Init
<1>4. TypeOK
  <2>1. asked \in Nat /\ late \in Nat /\ sought \in BOOLEAN BY DEF Init
  <2>2. changes \in 0..MaxChanges BY ProgressAssumption DEF Init
  <2> QED BY <1>1, <1>2, <1>3, <1>5, <2>1, <2>2 DEF TypeOK
<1> QED BY <1>4 DEF IInv, ShownTime, NoItemNoTimes, Init

(* auto_seek_timeout_handler shows the second it has counted.              *)
LEMMA AutoSeekStep == IInv /\ AutoSeek => IInv'
<1> SUFFICES ASSUME IInv, AutoSeek PROVE IInv'
  OBVIOUS
<1> USE DEF IInv, AutoSeek
<1>1. CASE m_state = "PLAY"
  <2>1. /\ m_elapsed' \in Nat /\ m_totalTime' = m_totalTime /\ m_totalTime \in Nat
        /\ late' \in Nat /\ due' \in Nat
    BY <1>1, ProgressAssumption DEF TypeOK, ClientOK, timeVars, seekerVars
  <2>2. OnClientSeek(m_elapsed', m_totalTime')
    BY <1>1, <2>1
  <2>3. /\ WindowOK' /\ upper' = m_totalTime' /\ value' = Clamped(m_elapsed', m_totalTime')
        /\ Proper(label'[1]) /\ Read(label'[1]) = m_elapsed'
        /\ Proper(label'[2]) /\ Read(label'[2]) = m_totalTime'
    BY <2>1, <2>2, SeekShown
  <2>4. TypeOK'
    BY <1>1, <2>1, <2>3 DEF TypeOK, ServerOK, ClientOK, serverVars
  <2>5. ShownTime' BY <2>3 DEF ShownTime
  <2>6. NoItemNoTimes' BY DEF NoItemNoTimes
  <2> QED BY <2>4, <2>5, <2>6
<1>2. CASE m_state # "PLAY"
  <2>1. TypeOK' BY <1>2 DEF TypeOK, ServerOK, ClientOK, WindowOK, serverVars, uiVars
  <2>2. ShownTime' BY <1>2 DEF ShownTime, uiVars
  <2>3. NoItemNoTimes' BY <1>2 DEF NoItemNoTimes, uiVars
  <2> QED BY <2>1, <2>2, <2>3
<1> QED BY <1>1, <1>2

(* The properties are both kept and shown, in one step.                    *)
LEMMA HandlePropertiesStep == IInv /\ HandleProperties => IInv'
<1> SUFFICES ASSUME IInv, HandleProperties PROVE IInv'
  OBVIOUS
<1> DEFINE m == Head(toClient)
<1>1. /\ m \in Message /\ toClient' \in Seq(Message)
      /\ UNCHANGED <<serverVars, changes>>
  BY HeadMessage DEF IInv, TypeOK, HandleProperties, Dispatch
<1>2. GetProperties(m) /\ RefreshPlayer /\ UNCHANGED asked
  BY DEF HandleProperties
<1> HIDE DEF m
<1>3. m_elapsed' \in Nat /\ m_totalTime' \in Nat
  BY <1>1, <1>2, JsonTimeNat DEF GetProperties, Message
<1>4. /\ m_state' \in {"PLAY", "PAUSE", "STOP", "NOPLAYER"}
      /\ itemActive' \in BOOLEAN /\ seeking' \in BOOLEAN /\ due' \in Int
      /\ late' = 0 /\ sought' = sought
  <2> ClientOK /\ SECOND \in Int BY ProgressAssumption DEF IInv, TypeOK
  <2>1. CASE m.player = "none"
    BY <1>2, <2>1 DEF GetProperties, ClientOK, seekerVars
  <2>2. CASE m.player = "playing"
    BY <1>2, <2>2 DEF GetProperties, ClientOK, seekerVars
  <2>3. CASE m.player = "paused"
    BY <1>2, <2>3 DEF GetProperties, ClientOK, seekerVars
  <2> QED BY <1>1, <2>1, <2>2, <2>3 DEF Message
<1>5. (~itemActive' => label = Empty) /\ (~itemActive' => ~seeking')
  BY <1>2 DEF GetProperties, IInv, NoItemNoTimes, seekerVars
<1>6. WindowOK' /\ ShownTime' /\ (~itemActive' => label' = Empty)
  BY <1>2, <1>3, <1>5, RefreshShows DEF IInv, TypeOK
<1>7. TypeOK'
  BY <1>1, <1>2, <1>3, <1>4, <1>6 DEF IInv, TypeOK, ServerOK, ClientOK, serverVars
<1> QED BY <1>5, <1>6, <1>7 DEF IInv, NoItemNoTimes

(* on_client_stop shows the times that stand.                              *)
LEMMA HandleOnStopStep == IInv /\ HandleOnStop => IInv'
<1> SUFFICES ASSUME IInv, HandleOnStop PROVE IInv'
  OBVIOUS
<1>1. toClient' \in Seq(Message) /\ UNCHANGED <<serverVars, changes>>
  BY HeadMessage DEF IInv, TypeOK, HandleOnStop, Dispatch
<1>2. /\ m_state' = "STOP" /\ seeking' = FALSE
      /\ UNCHANGED <<asked, m_elapsed, m_totalTime, itemActive, due, late, sought>>
      /\ RefreshPlayer
  BY DEF HandleOnStop, timeVars, historyVars
<1>3. WindowOK' /\ ShownTime' /\ (~itemActive' => label' = Empty)
  BY <1>2, RefreshShows DEF IInv, TypeOK, ClientOK, NoItemNoTimes
<1>4. TypeOK'
  BY <1>1, <1>2, <1>3 DEF IInv, TypeOK, ServerOK, ClientOK, serverVars
<1> QED BY <1>2, <1>3, <1>4 DEF IInv, NoItemNoTimes

(* The other messages leave times and window alone.                        *)
LEMMA OtherMessagesStep == IInv /\ (HandleError \/ HandleOnPlay \/ HandleOnPause) => IInv'
<1> SUFFICES ASSUME IInv, HandleError \/ HandleOnPlay \/ HandleOnPause PROVE IInv'
  OBVIOUS
<1>1. toClient' \in Seq(Message) /\ UNCHANGED <<serverVars, changes>>
  BY HeadMessage DEF IInv, TypeOK, HandleError, HandleOnPlay, HandleOnPause, Dispatch
<1>2. /\ m_state' \in {"PLAY", "PAUSE", "STOP", "NOPLAYER"}
      /\ asked' \in Nat /\ seeking' \in BOOLEAN /\ (seeking' => seeking)
      /\ UNCHANGED <<m_elapsed, m_totalTime, itemActive, due, label, upper, value, late, sought>>
  <2> ClientOK /\ asked \in Nat BY DEF IInv, TypeOK
  <2>1. CASE HandleError
    BY <2>1 DEF HandleError, ClientOK, timeVars, seekerVars, uiVars, historyVars
  <2>2. CASE HandleOnPlay
    BY <2>2 DEF HandleOnPlay, ClientOK, timeVars, seekerVars, uiVars, historyVars
  <2>3. CASE HandleOnPause
    BY <2>3 DEF HandleOnPause, ClientOK, timeVars, seekerVars, uiVars, historyVars
  <2> QED BY <2>1, <2>2, <2>3
<1>3. TypeOK'
  BY <1>1, <1>2 DEF IInv, TypeOK, ServerOK, ClientOK, WindowOK, serverVars
<1> QED BY <1>2, <1>3 DEF IInv, ShownTime, NoItemNoTimes

(* What the server does leaves the client alone.                           *)
LEMMA ServerStep ==
  ASSUME IInv, ServerOK', toClient' \in Seq(Message), sought' \in BOOLEAN,
         asked' \in Nat, changes' \in 0..MaxChanges,
         UNCHANGED <<m_state, timeVars, itemActive, seekerVars, uiVars, late>>
  PROVE  IInv'
<1> USE DEF IInv, timeVars, seekerVars, uiVars
<1>1. TypeOK' BY DEF TypeOK, ClientOK, WindowOK
<1>2. ShownTime' BY DEF ShownTime
<1>3. NoItemNoTimes' BY DEF NoItemNoTimes
<1> QED BY <1>1, <1>2, <1>3

(* An announcement is a message.                                           *)
LEMMA Announced ==
  ASSUME IInv, Change, NEW id \in Notifications, NEW p \in {"none", "playing", "paused"},
         NEW pos \in Nat, NEW t \in Totals, Announce(id, p, pos, t)
  PROVE  IInv'
<1>1. Say(id, p, pos, t) \in Message BY SayMessage, ProgressAssumption
<1>2. toClient' \in Seq(Message)
  BY <1>1, AppendProperties DEF Announce, IInv, TypeOK
<1>3. ServerOK' BY DEF Announce, ServerOK
<1> QED BY <1>2, <1>3, ServerStep, ProgressAssumption DEF Change, Announce, IInv, TypeOK

(* Items that start, pause and stop, and seeks.                            *)
LEMMA ChangeStep == IInv /\ (ServerPlays \/ ServerPauses \/ ServerStops \/ ServerSeeks) => IInv'
<1> SUFFICES ASSUME IInv, ServerPlays \/ ServerPauses \/ ServerStops \/ ServerSeeks
             PROVE  IInv'
  OBVIOUS
<1>1. /\ position \in Nat /\ total \in Totals /\ changes \in 0..MaxChanges
      /\ player \in {"none", "playing", "paused"}
      /\ {"OnPlay", "OnPause", "OnStop"} = Notifications
  BY DEF IInv, TypeOK, ServerOK, Notifications
<1>2. CASE ServerPlays
  <2>1. Change BY <1>2 DEF ServerPlays
  <2>2. CASE \E t \in Totals, rest \in Rests :
               Announce("OnPlay", "playing", (t - rest) * SECOND, t)
    <3>1. PICK t \in Totals, rest \in Rests :
            Announce("OnPlay", "playing", (t - rest) * SECOND, t)
      BY <2>2
    <3>2. t \in Nat /\ rest \in Nat /\ rest <= t BY ProgressAssumption
    <3>3. (t - rest) * SECOND \in Nat BY <3>2, StartPosition
    <3> QED BY <1>1, <2>1, <3>1, <3>2, <3>3, Announced
  <2>3. CASE Announce("OnPlay", "playing", position, total)
    BY <1>1, <2>1, <2>3, Announced
  <2> QED BY <1>2, <2>2, <2>3 DEF ServerPlays
<1>3. CASE ServerPauses
  <2>1. Change /\ Announce("OnPause", "paused", position, total) BY <1>3 DEF ServerPauses
  <2> QED BY <1>1, <2>1, Announced
<1>4. CASE ServerStops
  <2>1. Change /\ Announce("OnStop", "none", position, total) BY <1>4 DEF ServerStops
  <2> QED BY <1>1, <2>1, Announced
<1>5. CASE ServerSeeks
  <2>1. PICK rest \in Rests : position' = (total - rest) * SECOND BY <1>5 DEF ServerSeeks
  <2>2. rest \in Nat /\ total \in Nat /\ rest <= total BY <1>1, ProgressAssumption
  <2>3. position' \in Nat
    BY <2>1, <2>2, StartPosition
  <2> QED
    BY <1>1, <1>5, <2>3, ServerStep, ProgressAssumption
    DEF ServerSeeks, Change, IInv, TypeOK, ServerOK
<1> QED BY <1>2, <1>3, <1>4, <1>5

(* Properties are answered, or refused.                                    *)
LEMMA ServePropertiesStep == IInv /\ ServeProperties => IInv'
<1> SUFFICES ASSUME IInv, ServeProperties PROVE IInv'
  OBVIOUS
<1>1. /\ player \in {"none", "playing", "paused"} /\ position \in Nat /\ total \in Nat
      /\ toClient \in Seq(Message)
  BY ProgressAssumption DEF IInv, TypeOK, ServerOK
<1>2. toClient' \in Seq(Message)
  <2>1. CASE player # "none"
    <3>1. Say("properties", player, position, total) \in Message BY <1>1, SayMessage
    <3> QED BY <1>1, <2>1, <3>1, AppendProperties DEF ServeProperties
  <2>2. CASE player = "none"
    <3>1. PICK id \in {"properties", "error"} :
            toClient' = Append(toClient, Say(id, player, 0, 0))
      BY <2>2 DEF ServeProperties
    <3>2. Say(id, player, 0, 0) \in Message BY <1>1, SayMessage
    <3> QED BY <1>1, <3>1, <3>2, AppendProperties
  <2> QED BY <2>1, <2>2
<1>3. asked' \in Nat
  <2> asked \in Nat BY DEF IInv, TypeOK
  <2> QED BY DEF ServeProperties
<1>4. sought' \in BOOLEAN BY DEF ServeProperties, IInv, TypeOK
<1> QED BY <1>2, <1>3, <1>4, ServerStep DEF ServeProperties, IInv, TypeOK, ServerOK, serverVars

(* Messages age, the item goes on.                                         *)
LEMMA TickStep == IInv /\ Tick => IInv'
<1> SUFFICES ASSUME IInv, Tick PROVE IInv'
  OBVIOUS
<1> USE DEF IInv, Tick
<1>1. toClient' \in Seq(Message)
  <2>1. \A x \in Message : [x EXCEPT !.age = @ + 1] \in Message
    BY DEF Message
  <2>2. \A i \in 1..Len(toClient) : toClient[i] \in Message
    BY ElementOfSeq DEF TypeOK
  <2>3. DOMAIN toClient = 1..Len(toClient) /\ Len(toClient) \in Nat
    BY LenProperties DEF TypeOK
  <2> QED BY <2>1, <2>2, <2>3, IsASeq
<1>2. position' \in Nat /\ due' \in Int
  BY DEF TypeOK, ServerOK, ClientOK
<1>3. TypeOK'
  BY <1>1, <1>2
  DEF TypeOK, ServerOK, ClientOK, WindowOK, timeVars, uiVars, historyVars
<1>4. ShownTime' BY DEF ShownTime, timeVars, uiVars
<1>5. NoItemNoTimes' BY DEF NoItemNoTimes, uiVars
<1> QED BY <1>3, <1>4, <1>5

(* Every step keeps the invariant.                                         *)
LEMMA StepIInv == IInv /\ [Next]_vars => IInv'
<1> SUFFICES ASSUME IInv, [Next]_vars PROVE IInv'
  OBVIOUS
<1>1. CASE AutoSeek BY <1>1, AutoSeekStep
<1>2. CASE HandleProperties BY <1>2, HandlePropertiesStep
<1>3. CASE HandleError \/ HandleOnPlay \/ HandleOnPause BY <1>3, OtherMessagesStep
<1>4. CASE HandleOnStop BY <1>4, HandleOnStopStep
<1>5. CASE ServerPlays \/ ServerPauses \/ ServerStops \/ ServerSeeks BY <1>5, ChangeStep
<1>6. CASE ServeProperties BY <1>6, ServePropertiesStep
<1>7. CASE Tick BY <1>7, TickStep
<1>8. CASE UNCHANGED vars
  BY <1>8 DEF IInv, TypeOK, ServerOK, ClientOK, WindowOK, ShownTime, NoItemNoTimes, vars,
              serverVars, timeVars, seekerVars, uiVars, historyVars
<1> QED BY <1>1, <1>2, <1>3, <1>4, <1>5, <1>6, <1>7, <1>8 DEF Next

(* The invariant holds from the handshake on.                              *)
LEMMA Inductive == Spec => []IInv
<1>1. Init => IInv BY InitIInv
<1>2. IInv /\ [Next]_vars => IInv' BY StepIInv
<1> QED BY <1>1, <1>2, PTL DEF Spec

-----------------------------------------------------------------------------
(* The types hold for every length of a second, a film, delays and lags.   *)
THEOREM TypeCorrect == Spec => []TypeOK
<1>1. IInv => TypeOK BY DEF IInv
<1> QED BY <1>1, Inductive, PTL

(* Progress label and scale always show the client's count, or nothing.    *)
THEOREM WindowExact == Spec => []ShownTime
<1>1. IInv => ShownTime BY DEF IInv
<1> QED BY <1>1, Inductive, PTL
-----------------------------------------------------------------------------
(* The count: what is under way from the server.                           *)

(* A notification says what the player became, an error that there is      *)
(* none.                                                                   *)
FitsPlayer(m) ==
  /\ m.id = "OnPlay" => m.player = "playing"
  /\ m.id = "OnPause" => m.player = "paused"
  /\ m.id \in {"OnStop", "error"} => m.player = "none"

(* No item starts, and none is resumed, after message i.                   *)
NoPlayAfter(s, i) == \A j \in DOMAIN s : j > i => s[j].id # "OnPlay"

(* Messages in the order of what they tell of, up to the player p of now:  *)
(* an answer tells of the player the message before it told of, and only   *)
(* OnPlay makes one play that did not.                                     *)
InOrder(s, p) ==
  /\ \A i \in DOMAIN s : FitsPlayer(s[i])
  /\ \A i \in DOMAIN s : i + 1 \in DOMAIN s /\ s[i + 1].id \notin Notifications
                           => s[i + 1].player = s[i].player
  /\ s # <<>> => s[Len(s)].player = p
  /\ \A i \in DOMAIN s : NoPlayAfter(s, i) /\ s[i].player = "none" => p = "none"
  /\ \A i \in DOMAIN s : NoPlayAfter(s, i) /\ s[i].player = "paused" => p # "playing"
  /\ \A i \in DOMAIN s : s[i].player = "playing" /\ p = "paused"
                           => \E j \in DOMAIN s : j > i /\ s[j].id = "OnPause"

(* The timeout runs while the client believes the player plays; what it    *)
(* will hear next is the same, or a notification.                          *)
SeekerPlays ==
  seeking =>
    /\ m_state = "PLAY"
    /\ toClient = <<>> => player = "playing"
    /\ toClient # <<>> /\ toClient[1].id \notin Notifications => toClient[1].player = "playing"
    /\ -MaxLag <= due /\ due <= SECOND

Aged == \A i \in DOMAIN toClient : toClient[i].age <= MaxDelay

(* Ticks from the time a message tells to the position of now.             *)
Since(m) == position - JsonTimeToSeconds(m.time) * SECOND

(* The last answer under way, or none.                                     *)
LastAnswer(s, i) ==
  s[i].id = "properties" /\ \A j \in DOMAIN s : j > i => s[j].id # "properties"

NoAnswer(s) == \A i \in DOMAIN s : s[i].id # "properties"

(* The last answer under way is as old as the second it rounds off, and    *)
(* the time it has been under way.                                         *)
AnswerRecent ==
  \A i \in DOMAIN toClient :
    LastAnswer(toClient, i) => 0 <= Since(toClient[i]) /\ Since(toClient[i]) < SECOND + toClient[i].age

(* What the count lacks when the timeout's second is over, its lateness    *)
(* apart.                                                                  *)
Lacks == Behind + due - late

Counting(age) == SECOND - age <= Lacks /\ Lacks < 2 * SECOND + MaxDelay

(* With no answer under way the count goes on from the last one, until the *)
(* client has heard of a pause.                                            *)
CountRecent ==
  NoAnswer(toClient) =>
    /\ player = "playing" => seeking /\ Counting(0)
    /\ player = "paused" /\ seeking =>
         \E i \in DOMAIN toClient : toClient[i].id = "OnPause" /\ Counting(toClient[i].age)
    /\ player = "paused" /\ ~seeking =>
         -MaxDelay <= Behind /\ Behind < 2 * SECOND + MaxDelay + late + MaxLag

(* Of an item that plays or is paused the last start or resumption has led *)
(* to an answer.                                                           *)
Told == asked = 0 /\ player # "none" /\ ~sought /\ NoPlayAfter(toClient, 0)

Recent == Told => AnswerRecent /\ CountRecent

FollowInv == InOrder(toClient, player) /\ SeekerPlays /\ Aged /\ Recent

(* The queue without its head: what is left is in order, and what comes    *)
(* next continues what the head has said.                                  *)
LEMMA OrderTail ==
  ASSUME NEW s \in Seq(Message), s # <<>>, NEW p, InOrder(s, p)
  PROVE  /\ InOrder(Tail(s), p)
         /\ Tail(s) = <<>> => s[1].player = p
         /\ Tail(s) # <<>> /\ Tail(s)[1].id \notin Notifications => Tail(s)[1].player = s[1].player
         /\ NoPlayAfter(Tail(s), 0) /\ s[1].player = "none" => p = "none"
         /\ NoPlayAfter(Tail(s), 0) /\ s[1].player = "paused" => p # "playing"
         /\ s[1].player = "playing" /\ p = "paused"
              => \E j \in DOMAIN Tail(s) : Tail(s)[j].id = "OnPause"
<1> DEFINE r == Tail(s)
<1>1. /\ Len(s) \in Nat /\ Len(s) >= 1 /\ DOMAIN s = 1..Len(s)
      /\ Len(r) = Len(s) - 1 /\ DOMAIN r = 1..(Len(s) - 1)
      /\ \A i \in 1..(Len(s) - 1) : r[i] = s[i + 1]
      /\ r \in Seq(Message)
  OBVIOUS
<1>0. r = <<>> <=> Len(s) = 1
  <2>1. r = <<>> <=> Len(r) = 0 BY <1>1, EmptySeq
  <2> QED BY <1>1, <2>1
<1> HIDE DEF r
<1>2. \A i \in DOMAIN r : i + 1 \in DOMAIN s /\ r[i] = s[i + 1] BY <1>1
<1>3. \A j \in DOMAIN s : j > 1 => j - 1 \in DOMAIN r /\ r[j - 1] = s[j] BY <1>1
<1>4. ASSUME NEW i \in {0} \cup DOMAIN r, NoPlayAfter(r, i) PROVE NoPlayAfter(s, i + 1)
  <2> SUFFICES ASSUME NEW j \in DOMAIN s, j > i + 1 PROVE s[j].id # "OnPlay"
    BY DEF NoPlayAfter
  <2>1. j > 1 /\ j - 1 > i BY <1>1, <1>4
  <2>2. j - 1 \in DOMAIN r /\ r[j - 1] = s[j] BY <1>3, <2>1
  <2> QED BY <1>4, <2>1, <2>2 DEF NoPlayAfter
<1>5. \A i \in DOMAIN r : FitsPlayer(r[i]) BY <1>2 DEF InOrder
<1>6. ASSUME NEW i \in DOMAIN r, i + 1 \in DOMAIN r, r[i + 1].id \notin Notifications
      PROVE  r[i + 1].player = r[i].player
  BY <1>2, <1>6 DEF InOrder
<1>7. r # <<>> => r[Len(r)].player = p
  <2>1. r # <<>> => Len(s) - 1 \in DOMAIN r /\ (Len(s) - 1) + 1 = Len(s) BY <1>0, <1>1
  <2>2. s # <<>> /\ s[Len(s)].player = p BY DEF InOrder
  <2> QED BY <1>1, <1>2, <2>1, <2>2
<1>8. ASSUME NEW i \in DOMAIN r, NoPlayAfter(r, i)
      PROVE  (r[i].player = "none" => p = "none") /\ (r[i].player = "paused" => p # "playing")
  <2>1. i + 1 \in DOMAIN s /\ r[i] = s[i + 1] /\ NoPlayAfter(s, i + 1) BY <1>2, <1>4, <1>8
  <2> QED BY <2>1 DEF InOrder
<1>9. ASSUME NEW i \in DOMAIN r, r[i].player = "playing", p = "paused"
      PROVE  \E j \in DOMAIN r : j > i /\ r[j].id = "OnPause"
  <2>1. PICK j \in DOMAIN s : j > i + 1 /\ s[j].id = "OnPause" BY <1>2, <1>9 DEF InOrder
  <2>2. j > 1 /\ j - 1 > i BY <1>1, <2>1
  <2> QED BY <1>3, <2>1, <2>2
<1>10. InOrder(r, p) BY <1>5, <1>6, <1>7, <1>8, <1>9 DEF InOrder
<1>11. r = <<>> => s[1].player = p
  <2>1. s # <<>> /\ s[Len(s)].player = p BY DEF InOrder
  <2> QED BY <1>0, <2>1
<1>12. r # <<>> /\ r[1].id \notin Notifications => r[1].player = s[1].player
  <2>1. r # <<>> => 1 \in DOMAIN r BY <1>0, <1>1
  <2>2. 1 \in DOMAIN s /\ 1 + 1 = 2 BY <1>1
  <2>3. r # <<>> => 2 \in DOMAIN s /\ r[1] = s[2] BY <1>2, <2>1
  <2> QED BY <2>2, <2>3 DEF InOrder
<1>13. NoPlayAfter(r, 0) => NoPlayAfter(s, 1)
  <2>1. 0 + 1 = 1 OBVIOUS
  <2> QED BY <1>4, <2>1
<1>14. 1 \in DOMAIN s BY <1>1
<1>15. ASSUME s[1].player = "playing", p = "paused"
       PROVE  \E j \in DOMAIN r : r[j].id = "OnPause"
  <2>1. PICK j \in DOMAIN s : j > 1 /\ s[j].id = "OnPause" BY <1>14, <1>15 DEF InOrder
  <2> QED BY <1>3, <2>1
<1>16. /\ NoPlayAfter(r, 0) /\ s[1].player = "none" => p = "none"
       /\ NoPlayAfter(r, 0) /\ s[1].player = "paused" => p # "playing"
  BY <1>13, <1>14 DEF InOrder
<1> QED BY <1>10, <1>11, <1>12, <1>15, <1>16 DEF r

(* The server says what its player is, or becomes: by OnPlay from anything,*)
(* by OnPause when it played.                                              *)
LEMMA OrderAppend ==
  ASSUME NEW s \in Seq(Message), NEW m \in Message, NEW p, InOrder(s, p), FitsPlayer(m),
         \/ m.player = p
         \/ m.id = "OnPlay"
         \/ m.id = "OnPause" /\ p = "playing"
         \/ m.id = "OnStop"
  PROVE  InOrder(Append(s, m), m.player)
<1> DEFINE a == Append(s, m)
           q == m.player
<1>1. /\ Len(s) \in Nat /\ DOMAIN s = 1..Len(s) /\ Len(a) = Len(s) + 1
      /\ DOMAIN a = 1..(Len(s) + 1) /\ a[Len(s) + 1] = m
      /\ \A i \in 1..Len(s) : a[i] = s[i]
      /\ s = <<>> <=> Len(s) = 0
  OBVIOUS
<1> HIDE DEF a
<1>2. \A i \in DOMAIN s : i \in DOMAIN a /\ a[i] = s[i] /\ Len(s) + 1 > i BY <1>1
<1>3. \A i \in DOMAIN a : i = Len(s) + 1 \/ i \in DOMAIN s BY <1>1
<1>4. Len(s) + 1 \in DOMAIN a BY <1>1
<1>5. ASSUME NEW i \in DOMAIN s, NoPlayAfter(a, i) PROVE NoPlayAfter(s, i) /\ m.id # "OnPlay"
  BY <1>1, <1>2, <1>4, <1>5 DEF NoPlayAfter
<1>6. \A i \in DOMAIN a : FitsPlayer(a[i]) BY <1>1, <1>2, <1>3 DEF InOrder
<1>7. ASSUME NEW i \in DOMAIN a, i + 1 \in DOMAIN a, a[i + 1].id \notin Notifications
      PROVE  a[i + 1].player = a[i].player
  <2>1. i \in DOMAIN s BY <1>1, <1>7
  <2>2. CASE i + 1 \in DOMAIN s BY <1>2, <1>7, <2>1, <2>2 DEF InOrder
  <2>3. CASE i = Len(s)
    <3>1. m.id \notin Notifications BY <1>1, <1>7, <2>3
    <3>2. m.player = p BY <3>1 DEF Notifications
    <3>3. s # <<>> BY <1>1, <2>1
    <3>4. s[Len(s)].player = p BY <3>3 DEF InOrder
    <3> QED BY <1>1, <1>2, <2>1, <2>3, <3>2, <3>4
  <2> QED BY <1>1, <1>7, <2>1, <2>2, <2>3
<1>8. a # <<>> => a[Len(a)].player = q BY <1>1
<1>9. ASSUME NEW i \in DOMAIN a, NoPlayAfter(a, i), a[i].player = "none" PROVE q = "none"
  <2>1. CASE i = Len(s) + 1 BY <1>1, <1>9, <2>1
  <2>2. CASE i \in DOMAIN s
    <3>1. m.id # "OnPlay" /\ p = "none" BY <1>2, <1>5, <1>9, <2>2 DEF InOrder
    <3> QED BY <3>1 DEF FitsPlayer
  <2> QED BY <1>3, <2>1, <2>2
<1>10. ASSUME NEW i \in DOMAIN a, NoPlayAfter(a, i), a[i].player = "paused"
       PROVE  q # "playing"
  <2>1. CASE i = Len(s) + 1 BY <1>1, <1>10, <2>1
  <2>2. CASE i \in DOMAIN s
    <3>1. m.id # "OnPlay" /\ p # "playing" BY <1>2, <1>5, <1>10, <2>2 DEF InOrder
    <3> QED BY <3>1 DEF FitsPlayer
  <2> QED BY <1>3, <2>1, <2>2
<1>11. ASSUME NEW i \in DOMAIN a, a[i].player = "playing", q = "paused"
       PROVE  \E j \in DOMAIN a : j > i /\ a[j].id = "OnPause"
  <2>1. i \in DOMAIN s BY <1>1, <1>3, <1>11
  <2>2. CASE m.id = "OnPause" BY <1>1, <1>2, <1>4, <2>1, <2>2
  <2>3. CASE m.id # "OnPause"
    <3>1. p = "paused" BY <1>11, <2>3 DEF FitsPlayer
    <3>2. PICK j \in DOMAIN s : j > i /\ s[j].id = "OnPause"
      BY <1>2, <1>11, <2>1, <3>1 DEF InOrder
    <3> QED BY <1>2, <3>2
  <2> QED BY <2>2, <2>3
<1> QED BY <1>6, <1>7, <1>8, <1>9, <1>10, <1>11 DEF InOrder, a

(* Growing older changes no order.                                         *)
LEMMA OrderAged ==
  ASSUME NEW s \in Seq(Message), NEW t \in Seq(Message), NEW p, InOrder(s, p),
         DOMAIN t = DOMAIN s, Len(t) = Len(s),
         \A i \in DOMAIN s : t[i].id = s[i].id /\ t[i].player = s[i].player
  PROVE  InOrder(t, p)
<1>1. /\ Len(s) \in Nat /\ DOMAIN s = 1..Len(s) /\ (s = <<>> <=> Len(s) = 0)
      /\ (t = <<>> <=> Len(s) = 0)
  OBVIOUS
<1>2. \A i \in DOMAIN t : FitsPlayer(t[i]) BY DEF InOrder, FitsPlayer
<1>3. ASSUME NEW i \in DOMAIN t, i + 1 \in DOMAIN t, t[i + 1].id \notin Notifications
      PROVE  t[i + 1].player = t[i].player
  BY <1>3 DEF InOrder
<1>4. t # <<>> => t[Len(t)].player = p
  <2>1. t # <<>> => s # <<>> /\ Len(s) \in DOMAIN s BY <1>1
  <2> QED BY <2>1 DEF InOrder
<1>5. ASSUME NEW i \in DOMAIN t, NoPlayAfter(t, i)
      PROVE  (t[i].player = "none" => p = "none") /\ (t[i].player = "paused" => p # "playing")
  <2>1. NoPlayAfter(s, i) BY <1>5 DEF NoPlayAfter
  <2> QED BY <2>1 DEF InOrder
<1>6. ASSUME NEW i \in DOMAIN t, t[i].player = "playing", p = "paused"
      PROVE  \E j \in DOMAIN t : j > i /\ t[j].id = "OnPause"
  <2>1. \E j \in DOMAIN s : j > i /\ s[j].id = "OnPause" BY <1>6 DEF InOrder
  <2> QED BY <2>1
<1> QED BY <1>2, <1>3, <1>4, <1>5, <1>6 DEF InOrder

-----------------------------------------------------------------------------
(* The count: order and timeout, step by step.                             *)

Ordered == InOrder(toClient, player) /\ SeekerPlays /\ Aged

(* The numbers of a state.                                                 *)
LEMMA Numbers ==
  ASSUME IInv
  PROVE  /\ position \in Nat /\ m_elapsed \in Nat /\ late \in Nat /\ due \in Int
         /\ SECOND \in Nat /\ SECOND > 0 /\ MaxDelay \in Nat /\ MaxLag \in Nat
         /\ m_elapsed * SECOND \in Nat
BY ProgressAssumption DEF IInv, TypeOK, ServerOK, ClientOK

(* Times and ages of messages are numbers.                                 *)
LEMMA MessageNumbers ==
  ASSUME NEW m \in Message
  PROVE  m.age \in Nat /\ JsonTimeToSeconds(m.time) * SECOND \in Nat
<1>1. m.age \in Nat /\ m.time \in TimeRecords BY DEF Message
<1>2. JsonTimeToSeconds(m.time) \in Nat /\ SECOND \in Nat
  BY <1>1, JsonTimeNat, ProgressAssumption
<1> QED BY <1>1, <1>2

(* What is handled next, and what that says of what is left.               *)
LEMMA DispatchOrder ==
  ASSUME IInv, Ordered, NEW id, Dispatch(id)
  PROVE  /\ Head(toClient) = toClient[1] /\ 1 \in DOMAIN toClient /\ toClient # <<>>
         /\ toClient[1].id = id /\ toClient[1] \in Message
         /\ FitsPlayer(toClient[1]) /\ toClient[1].age <= MaxDelay
         /\ toClient' = Tail(toClient) /\ toClient \in Seq(Message)
         /\ player' = player /\ position' = position
         /\ InOrder(toClient', player') /\ Aged'
         /\ toClient' = <<>> => toClient[1].player = player
         /\ toClient' # <<>> /\ toClient'[1].id \notin Notifications
              => toClient'[1].player = toClient[1].player
         /\ NoPlayAfter(toClient', 0) /\ toClient[1].player = "none" => player = "none"
         /\ NoPlayAfter(toClient', 0) /\ toClient[1].player = "paused" => player # "playing"
         /\ toClient[1].player = "playing" /\ player = "paused"
              => \E j \in DOMAIN toClient' : toClient'[j].id = "OnPause"
<1>1. /\ toClient \in Seq(Message) /\ toClient # <<>> /\ toClient' = Tail(toClient)
      /\ player' = player /\ position' = position /\ Head(toClient).id = id
  BY DEF IInv, TypeOK, Dispatch, serverVars
<1>2. /\ Head(toClient) = toClient[1] /\ 1 \in DOMAIN toClient /\ toClient[1] \in Message
      /\ \A i \in DOMAIN Tail(toClient) :
           i + 1 \in DOMAIN toClient /\ Tail(toClient)[i] = toClient[i + 1]
  BY <1>1
<1>3. InOrder(toClient, player) /\ Aged BY DEF Ordered
<1>4. FitsPlayer(toClient[1]) BY <1>2, <1>3 DEF InOrder
<1>5. toClient[1].age <= MaxDelay BY <1>2, <1>3 DEF Aged
<1>6. Aged' BY <1>1, <1>2, <1>3 DEF Aged
<1>7. /\ InOrder(Tail(toClient), player)
      /\ Tail(toClient) = <<>> => toClient[1].player = player
      /\ Tail(toClient) # <<>> /\ Tail(toClient)[1].id \notin Notifications
           => Tail(toClient)[1].player = toClient[1].player
      /\ NoPlayAfter(Tail(toClient), 0) /\ toClient[1].player = "none" => player = "none"
      /\ NoPlayAfter(Tail(toClient), 0) /\ toClient[1].player = "paused" => player # "playing"
      /\ toClient[1].player = "playing" /\ player = "paused"
           => \E j \in DOMAIN Tail(toClient) : Tail(toClient)[j].id = "OnPause"
  BY <1>1, <1>3, OrderTail
<1> QED BY <1>1, <1>2, <1>4, <1>5, <1>6, <1>7

(* With a timeout that runs, no answer says other than that it plays.      *)
LEMMA SeekerHears ==
  ASSUME IInv, Ordered, seeking, NEW id \in {"properties", "error"}, Dispatch(id)
  PROVE  id = "properties" /\ toClient[1].player = "playing"
<1>1. toClient # <<>> /\ toClient[1].id = id /\ FitsPlayer(toClient[1]) BY DispatchOrder
<1>2. id \notin Notifications BY DEF Notifications
<1>3. toClient[1].player = "playing" BY <1>1, <1>2 DEF Ordered, SeekerPlays
<1> QED BY <1>1, <1>3 DEF FitsPlayer

(* A timeout that runs after a message has been handled has a player that  *)
(* plays, as far as that message knows.                                    *)
LEMMA SeekerGoesOn ==
  ASSUME IInv, Ordered, NEW id, Dispatch(id),
         seeking' => /\ m_state' = "PLAY" /\ toClient[1].player = "playing"
                     /\ -MaxLag <= due' /\ due' <= SECOND
  PROVE  Ordered'
<1>1. /\ player' = player /\ InOrder(toClient', player') /\ Aged'
      /\ toClient' = <<>> => toClient[1].player = player
      /\ toClient' # <<>> /\ toClient'[1].id \notin Notifications
           => toClient'[1].player = toClient[1].player
  BY DispatchOrder
<1>2. SeekerPlays' BY <1>1 DEF SeekerPlays
<1> QED BY <1>1, <1>2 DEF Ordered

LEMMA HandlersOrdered ==
  IInv /\ Ordered /\ (\/ HandleProperties \/ HandleError \/ HandleOnPlay
                      \/ HandleOnPause \/ HandleOnStop) => Ordered'
<1> SUFFICES ASSUME IInv, Ordered,
                    \/ HandleProperties \/ HandleError \/ HandleOnPlay
                    \/ HandleOnPause \/ HandleOnStop
             PROVE  Ordered'
  OBVIOUS
<1>0. /\ -MaxLag <= SECOND /\ SECOND <= SECOND
      /\ seeking => m_state = "PLAY" /\ -MaxLag <= due /\ due <= SECOND
  <2>1. seeking => m_state = "PLAY" /\ -MaxLag <= due /\ due <= SECOND
    BY DEF Ordered, SeekerPlays
  <2>2. MaxLag \in Nat /\ SECOND \in Nat BY Numbers
  <2> QED BY <2>1, <2>2
<1>1. CASE HandleProperties
  <2>1. Dispatch("properties") /\ GetProperties(Head(toClient)) BY <1>1 DEF HandleProperties
  <2>2. Head(toClient) = toClient[1] BY <2>1, DispatchOrder
  <2>3. seeking => toClient[1].player = "playing" BY <2>1, SeekerHears
  <2>4. GetProperties(toClient[1]) BY <2>1, <2>2
  <2>5. seeking' => /\ m_state' = "PLAY" /\ toClient[1].player = "playing"
                    /\ -MaxLag <= due' /\ due' <= SECOND
    <3>1. CASE toClient[1].player = "playing"
      BY <1>0, <2>4, <3>1 DEF GetProperties
    <3>2. CASE toClient[1].player # "playing"
      <4>1. ~seeking' BY <2>3, <2>4, <3>2 DEF GetProperties, seekerVars
      <4> QED BY <4>1
    <3> QED BY <3>1, <3>2
  <2> QED BY <2>1, <2>5, SeekerGoesOn
<1>2. CASE HandleError
  <2>1. Dispatch("error") /\ seeking' = seeking BY <1>2 DEF HandleError, seekerVars
  <2>2. ~seeking BY <2>1, SeekerHears
  <2> QED BY <2>1, <2>2, SeekerGoesOn
<1>3. CASE HandleOnPlay
  <2>1. Dispatch("OnPlay") /\ seeking' = seeking /\ due' = due /\ m_state' = "PLAY"
    BY <1>3 DEF HandleOnPlay, seekerVars
  <2>2. toClient[1].player = "playing" BY <2>1, DispatchOrder DEF FitsPlayer
  <2> QED BY <1>0, <2>1, <2>2, SeekerGoesOn
<1>4. CASE HandleOnPause
  <2>1. Dispatch("OnPause") /\ ~seeking' BY <1>4 DEF HandleOnPause
  <2> QED BY <2>1, SeekerGoesOn
<1>5. CASE HandleOnStop
  <2>1. Dispatch("OnStop") /\ ~seeking' BY <1>5 DEF HandleOnStop
  <2> QED BY <2>1, SeekerGoesOn
<1> QED BY <1>1, <1>2, <1>3, <1>4, <1>5

(* The timeout starts its next second.                                     *)
LEMMA AutoSeekOrdered ==
  ASSUME IInv, Ordered, AutoSeek
  PROVE  /\ Ordered' /\ seeking' /\ due' = SECOND /\ late' = late - due
         /\ m_elapsed' = m_elapsed + 1
         /\ UNCHANGED <<player, position, asked, toClient, sought>>
<1>1. seeking /\ m_state = "PLAY" BY DEF AutoSeek, Ordered, SeekerPlays
<1>2. /\ seeking' = seeking /\ due' = SECOND /\ late' = late - due /\ m_state' = m_state
      /\ m_elapsed' = m_elapsed + 1
      /\ player' = player /\ position' = position /\ asked' = asked /\ toClient' = toClient
      /\ sought' = sought
  BY <1>1 DEF AutoSeek, serverVars
<1>3. -MaxLag <= SECOND /\ SECOND <= SECOND
  <2> MaxLag \in Nat /\ SECOND \in Nat BY Numbers
  <2> QED OBVIOUS
<1>4. SeekerPlays' BY <1>1, <1>2, <1>3 DEF Ordered, SeekerPlays
<1>5. InOrder(toClient', player') /\ Aged' BY <1>2 DEF Ordered, Aged
<1> QED BY <1>1, <1>2, <1>4, <1>5 DEF Ordered

(* Server says something.                                                  *)
LEMMA SaidOrdered ==
  ASSUME IInv, Ordered, NEW m \in Message, FitsPlayer(m), m.age = 0,
         \/ m.id \notin Notifications /\ m.player = player
         \/ m.id = "OnPlay"
         \/ m.id = "OnPause" /\ player = "playing"
         \/ m.id = "OnStop",
         toClient' = Append(toClient, m), player' = m.player,
         UNCHANGED <<m_state, seeking, due>>
  PROVE  Ordered'
<1>1. toClient \in Seq(Message) BY DEF IInv, TypeOK
<1>2. InOrder(toClient', player')
  <2>1. InOrder(Append(toClient, m), m.player) BY <1>1, OrderAppend DEF Ordered
  <2> QED BY <2>1
<1>3. \A i \in DOMAIN toClient' :
        \/ toClient'[i] = m
        \/ i \in DOMAIN toClient /\ toClient'[i] = toClient[i]
  BY <1>1
<1>4. Aged' BY <1>3, ProgressAssumption DEF Ordered, Aged
<1>5. toClient' # <<>> BY <1>1
<1>6. toClient = <<>> => toClient'[1] = m BY <1>1
<1>7. toClient # <<>> => toClient'[1] = toClient[1] BY <1>1
<1>8. SeekerPlays'
  <2>1. CASE toClient = <<>>
    <3>1. seeking /\ m.id \notin Notifications => m.player = "playing"
      BY <2>1 DEF Ordered, SeekerPlays, Notifications
    <3> QED BY <1>5, <1>6, <2>1, <3>1 DEF Ordered, SeekerPlays
  <2>2. CASE toClient # <<>>
    BY <1>5, <1>7, <2>2 DEF Ordered, SeekerPlays
  <2> QED BY <2>1, <2>2
<1> QED BY <1>2, <1>4, <1>8 DEF Ordered

(* What the server says fits.                                              *)
LEMMA SayFits ==
  ASSUME NEW id \in Notifications \cup {"properties", "error"},
         NEW p \in {"none", "playing", "paused"}, NEW pos \in Nat, NEW t \in Nat
  PROVE  /\ Say(id, p, pos, t) \in Message /\ Say(id, p, pos, t).id = id
         /\ Say(id, p, pos, t).player = p /\ Say(id, p, pos, t).age = 0
<1>1. Say(id, p, pos, t) \in Message BY SayMessage
<1> QED BY <1>1 DEF Say

(* Server's notifications: what they leave alone, and what comes of them.  *)
LEMMA AnnounceOrdered ==
  ASSUME IInv, Ordered, Change, NEW id \in Notifications,
         NEW p \in {"none", "playing", "paused"}, NEW pos \in Nat, NEW t \in Nat,
         Announce(id, p, pos, t),
         \/ id = "OnPlay" /\ p = "playing"
         \/ id = "OnPause" /\ p = "paused" /\ player = "playing"
         \/ id = "OnStop" /\ p = "none"
  PROVE  /\ Ordered'
         /\ toClient' = Append(toClient, Say(id, p, pos, t)) /\ toClient \in Seq(Message)
         /\ Say(id, p, pos, t) \in Message /\ Say(id, p, pos, t).id = id
         /\ Say(id, p, pos, t).age = 0 /\ player' = p /\ position' = pos
         /\ UNCHANGED <<asked, seeking, due, m_elapsed, late, sought>>
<1> DEFINE m == Say(id, p, pos, t)
<1>1. m \in Message /\ m.id = id /\ m.player = p /\ m.age = 0 BY SayFits
<1>2. /\ toClient' = Append(toClient, m) /\ player' = p /\ position' = pos
      /\ m_state' = m_state /\ asked' = asked /\ seeking' = seeking /\ due' = due
      /\ m_elapsed' = m_elapsed /\ late' = late /\ sought' = sought
  BY DEF Announce, Change, seekerVars, timeVars
<1>3. toClient \in Seq(Message) BY DEF IInv, TypeOK
<1> HIDE DEF m
<1>4. FitsPlayer(m) BY <1>1 DEF FitsPlayer
<1>5. Ordered' BY <1>1, <1>2, <1>4, SaidOrdered
<1> QED BY <1>1, <1>2, <1>3, <1>5 DEF m

(* Server answers, of the player of now.                                   *)
LEMMA ServeOrdered ==
  ASSUME IInv, Ordered, ServeProperties
  PROVE  /\ Ordered' /\ player' = player
         /\ UNCHANGED <<position, seeking, due, m_elapsed, late>>
         /\ player # "none" =>
              toClient' = Append(toClient, Say("properties", player, position, total))
<1>1. /\ player' = player /\ position' = position /\ m_state' = m_state
      /\ seeking' = seeking /\ due' = due /\ m_elapsed' = m_elapsed /\ late' = late
  BY DEF ServeProperties, serverVars, timeVars, seekerVars
<1>2. /\ player \in {"none", "playing", "paused"} /\ position \in Nat /\ total \in Nat
  BY ProgressAssumption DEF IInv, TypeOK, ServerOK
<1>3. CASE player # "none"
  <2> DEFINE m == Say("properties", player, position, total)
  <2>1. m \in Message /\ m.id = "properties" /\ m.player = player /\ m.age = 0 BY <1>2, SayFits
  <2>2. toClient' = Append(toClient, m) BY <1>3 DEF ServeProperties
  <2> HIDE DEF m
  <2>3. FitsPlayer(m) /\ m.id \notin Notifications BY <2>1 DEF FitsPlayer, Notifications
  <2>4. Ordered' BY <1>1, <2>1, <2>2, <2>3, SaidOrdered
  <2> QED BY <1>1, <2>2, <2>4 DEF m
<1>4. CASE player = "none"
  <2>1. PICK id \in {"properties", "error"} :
          toClient' = Append(toClient, Say(id, player, 0, 0))
    BY <1>4 DEF ServeProperties
  <2> DEFINE m == Say(id, player, 0, 0)
  <2>2. m \in Message /\ m.id = id /\ m.player = player /\ m.age = 0
    <3>1. player \in {"none", "playing", "paused"} /\ 0 \in Nat BY <1>2
    <3>2. m \in Message BY <3>1, SayMessage
    <3> QED BY <3>2 DEF Say
  <2>3. toClient' = Append(toClient, m) BY <2>1
  <2> HIDE DEF m
  <2>4. FitsPlayer(m) /\ m.id \notin Notifications
    BY <1>4, <2>1, <2>2 DEF FitsPlayer, Notifications
  <2>5. Ordered' BY <1>1, <2>2, <2>3, <2>4, SaidOrdered
  <2> QED BY <1>1, <1>4, <2>5
<1> QED BY <1>3, <1>4

(* The clock: what is under way grows older by one tick.                   *)
LEMMA TickOrdered ==
  ASSUME IInv, Ordered, Tick
  PROVE  /\ Ordered' /\ DOMAIN toClient' = DOMAIN toClient
         /\ \A i \in DOMAIN toClient :
              /\ toClient[i] \in Message
              /\ toClient'[i].id = toClient[i].id /\ toClient'[i].time = toClient[i].time
              /\ toClient'[i].player = toClient[i].player
              /\ toClient'[i].age = toClient[i].age + 1
         /\ position' = (IF player = "playing" THEN position + 1 ELSE position)
         /\ due' = (IF seeking THEN due - 1 ELSE due)
         /\ UNCHANGED <<player, asked, seeking, m_elapsed, late, sought>>
<1>1. /\ player' = player /\ asked' = asked /\ seeking' = seeking /\ m_elapsed' = m_elapsed
      /\ late' = late /\ sought' = sought /\ m_state' = m_state
      /\ position' = (IF player = "playing" THEN position + 1 ELSE position)
      /\ due' = (IF seeking THEN due - 1 ELSE due)
  BY DEF Tick, timeVars, historyVars
<1>2. /\ toClient \in Seq(Message) /\ toClient' \in Seq(Message)
      /\ DOMAIN toClient' = DOMAIN toClient
  <2>1. IInv' BY StepIInv DEF Next
  <2> QED BY <2>1 DEF IInv, TypeOK, Tick
<1>3. \A i \in DOMAIN toClient : toClient[i] \in Message BY <1>2
<1>4. /\ Len(toClient') = Len(toClient) /\ (toClient' = <<>> <=> toClient = <<>>)
      /\ toClient # <<>> => 1 \in DOMAIN toClient
  <2>1. /\ Len(toClient) \in Nat /\ DOMAIN toClient = 1..Len(toClient)
        /\ Len(toClient') \in Nat /\ DOMAIN toClient' = 1..Len(toClient')
    BY <1>2, LenProperties
  <2>2. Len(toClient') = Len(toClient) BY <1>2, <2>1
  <2>3. /\ toClient = <<>> <=> Len(toClient) = 0
        /\ toClient' = <<>> <=> Len(toClient') = 0
    BY <1>2, EmptySeq
  <2> QED BY <2>1, <2>2, <2>3
<1>5. \A i \in DOMAIN toClient :
        /\ toClient'[i].id = toClient[i].id /\ toClient'[i].time = toClient[i].time
        /\ toClient'[i].player = toClient[i].player
        /\ toClient'[i].age = toClient[i].age + 1
  <2>1. \A x \in Message :
          LET y == [x EXCEPT !.age = @ + 1]
          IN  y.id = x.id /\ y.time = x.time /\ y.player = x.player /\ y.age = x.age + 1
    BY DEF Message
  <2>2. \A i \in DOMAIN toClient : toClient'[i] = [toClient[i] EXCEPT !.age = @ + 1]
    BY DEF Tick
  <2> QED BY <1>3, <2>1, <2>2
<1>6. InOrder(toClient', player')
  <2>1. InOrder(toClient, player) BY DEF Ordered
  <2> QED BY <1>1, <1>2, <1>4, <1>5, <2>1, OrderAged
<1>7. Aged'
  <2>1. \A i \in DOMAIN toClient : toClient[i].age < MaxDelay BY DEF Tick, NothingUrgent
  <2>2. \A i \in DOMAIN toClient : toClient[i].age \in Nat BY <1>3, MessageNumbers
  <2>3. \A i \in DOMAIN toClient : toClient[i].age + 1 <= MaxDelay
    BY <2>1, <2>2, ProgressAssumption
  <2> QED BY <1>2, <1>5, <2>3 DEF Aged
<1>8. seeking => -MaxLag <= due' /\ due' <= SECOND
  <2>1. seeking => due' = due - 1 /\ due > -MaxLag /\ due <= SECOND
    BY <1>1 DEF Tick, NothingUrgent, Ordered, SeekerPlays
  <2>2. due \in Int /\ MaxLag \in Nat /\ SECOND \in Nat BY Numbers
  <2> QED BY <2>1, <2>2
<1>9. SeekerPlays' BY <1>1, <1>4, <1>5, <1>8 DEF Ordered, SeekerPlays
<1> QED BY <1>1, <1>2, <1>3, <1>5, <1>6, <1>7, <1>9 DEF Ordered

-----------------------------------------------------------------------------
(* The count: what it lacks, step by step.                                 *)

(* The queue without its head: nothing else starts, and the answers left   *)
(* are the answers there were.                                             *)
LEMMA LeftAnswers ==
  ASSUME NEW s \in Seq(Message), s # <<>>
  PROVE  /\ s[1].id # "OnPlay" /\ NoPlayAfter(Tail(s), 0) => NoPlayAfter(s, 0)
         /\ \A i \in DOMAIN Tail(s) :
              /\ i + 1 \in DOMAIN s /\ Tail(s)[i] = s[i + 1]
              /\ LastAnswer(Tail(s), i) => LastAnswer(s, i + 1)
         /\ NoAnswer(Tail(s)) =>
              IF s[1].id = "properties" THEN LastAnswer(s, 1) ELSE NoAnswer(s)
<1> DEFINE r == Tail(s)
<1>1. /\ \A i \in DOMAIN r : i \in Nat /\ i >= 1 /\ i + 1 \in DOMAIN s /\ r[i] = s[i + 1]
      /\ \A j \in DOMAIN s : j \in Nat /\ (j = 1 \/ (j > 1 /\ j - 1 \in DOMAIN r /\ r[j - 1] = s[j]))
  OBVIOUS
<1> HIDE DEF r
<1>2. ASSUME s[1].id # "OnPlay", NoPlayAfter(r, 0) PROVE NoPlayAfter(s, 0)
  <2> SUFFICES ASSUME NEW j \in DOMAIN s PROVE s[j].id # "OnPlay"
    BY DEF NoPlayAfter
  <2>1. CASE j = 1 BY <1>2, <2>1
  <2>2. CASE j - 1 \in DOMAIN r /\ r[j - 1] = s[j]
    <3>1. j - 1 > 0 BY <1>1, <2>2
    <3> QED BY <1>2, <2>2, <3>1 DEF NoPlayAfter
  <2> QED BY <1>1, <2>1, <2>2
<1>3. ASSUME NEW i \in DOMAIN r, LastAnswer(r, i) PROVE LastAnswer(s, i + 1)
  <2>1. i \in Nat /\ i + 1 > 1 /\ s[i + 1].id = "properties" BY <1>1, <1>3 DEF LastAnswer
  <2>2. ASSUME NEW j \in DOMAIN s, j > i + 1 PROVE s[j].id # "properties"
    <3>1. j - 1 \in DOMAIN r /\ r[j - 1] = s[j] /\ j - 1 > i BY <1>1, <2>1, <2>2
    <3> QED BY <1>3, <3>1 DEF LastAnswer
  <2> QED BY <2>1, <2>2 DEF LastAnswer
<1>4. ASSUME NoAnswer(r) PROVE \A j \in DOMAIN s : j = 1 \/ s[j].id # "properties"
  BY <1>1, <1>4 DEF NoAnswer
<1>5. ASSUME NoAnswer(r) PROVE IF s[1].id = "properties" THEN LastAnswer(s, 1) ELSE NoAnswer(s)
  <2>1. \A j \in DOMAIN s : j > 1 => j # 1 BY <1>1
  <2> QED BY <1>4, <1>5, <2>1 DEF LastAnswer, NoAnswer
<1> QED BY <1>1, <1>2, <1>3, <1>5 DEF r

(* One more message that is no start: nothing starts, and the answers are  *)
(* those there were, or it is one itself.                                  *)
LEMMA MoreAnswers ==
  ASSUME NEW s \in Seq(Message), NEW m \in Message
  PROVE  /\ Len(s) + 1 \in DOMAIN Append(s, m) /\ Append(s, m)[Len(s) + 1] = m
         /\ NoPlayAfter(Append(s, m), 0) => NoPlayAfter(s, 0) /\ m.id # "OnPlay"
         /\ NoAnswer(Append(s, m)) => NoAnswer(s) /\ m.id # "properties"
         /\ \A i \in DOMAIN Append(s, m) : LastAnswer(Append(s, m), i) =>
              IF m.id = "properties" THEN Append(s, m)[i] = m
              ELSE i \in DOMAIN s /\ Append(s, m)[i] = s[i] /\ LastAnswer(s, i)
<1> DEFINE a == Append(s, m)
           n == Len(s) + 1
<1>1. /\ n \in DOMAIN a /\ a[n] = m /\ n > 0
      /\ \A i \in DOMAIN s : i \in DOMAIN a /\ a[i] = s[i] /\ n > i
      /\ \A i \in DOMAIN a : i = n \/ (i \in DOMAIN s /\ n > i)
  OBVIOUS
<1> HIDE DEF a, n
<1>2. NoPlayAfter(a, 0) => NoPlayAfter(s, 0) /\ m.id # "OnPlay" BY <1>1 DEF NoPlayAfter
<1>3. NoAnswer(a) => NoAnswer(s) /\ m.id # "properties" BY <1>1 DEF NoAnswer
<1>4. ASSUME NEW i \in DOMAIN a, LastAnswer(a, i)
      PROVE  IF m.id = "properties" THEN a[i] = m
             ELSE i \in DOMAIN s /\ a[i] = s[i] /\ LastAnswer(s, i)
  <2>1. CASE i = n BY <1>1, <1>4, <2>1 DEF LastAnswer
  <2>2. CASE i \in DOMAIN s
    <3>1. m.id # "properties" BY <1>1, <1>4, <2>2 DEF LastAnswer
    <3>2. LastAnswer(s, i) BY <1>1, <1>4, <2>2 DEF LastAnswer
    <3> QED BY <1>1, <2>2, <3>1, <3>2
  <2> QED BY <1>1, <2>1, <2>2
<1> QED BY <1>1, <1>2, <1>3, <1>4 DEF a, n

(* Once a message is handled that is no start, the answers left are as     *)
(* recent as they were.                                                    *)
LEMMA LeftRecent ==
  ASSUME IInv, FollowInv, NEW id \in {"properties", "error", "OnPause", "OnStop"}, Dispatch(id),
         asked' = asked, sought' = sought, Told'
  PROVE  Told /\ AnswerRecent /\ CountRecent /\ AnswerRecent' /\ NoPlayAfter(toClient', 0)
<1>1. /\ toClient' = Tail(toClient) /\ toClient \in Seq(Message) /\ toClient # <<>>
      /\ toClient[1].id = id /\ player' = player /\ position' = position
  BY DispatchOrder DEF FollowInv, Ordered
<1>2. NoPlayAfter(toClient', 0) /\ asked = 0 /\ player # "none" /\ ~sought
  BY <1>1 DEF Told
<1>3. NoPlayAfter(toClient, 0) BY <1>1, <1>2, LeftAnswers
<1>4. Told BY <1>2, <1>3 DEF Told
<1>5. AnswerRecent /\ CountRecent BY <1>4 DEF FollowInv, Recent
<1>6. ASSUME NEW i \in DOMAIN toClient', LastAnswer(toClient', i)
      PROVE  (0 <= Since(toClient[i]) /\ Since(toClient[i]) < SECOND + toClient[i].age)'
  <2>1. i + 1 \in DOMAIN toClient /\ toClient'[i] = toClient[i + 1] /\ LastAnswer(toClient, i + 1)
    BY <1>1, <1>6, LeftAnswers
  <2>2. /\ 0 <= Since(toClient[i + 1])
        /\ Since(toClient[i + 1]) < SECOND + toClient[i + 1].age
    BY <1>5, <2>1 DEF AnswerRecent
  <2>3. Since(toClient[i])' = Since(toClient[i + 1]) BY <1>1, <2>1 DEF Since
  <2> QED BY <2>1, <2>2, <2>3
<1>7. AnswerRecent' BY <1>6 DEF AnswerRecent
<1> QED BY <1>2, <1>4, <1>5, <1>7

(* The count when a pause is heard of: what the seconds of the timeout     *)
(* were late, and what is left of the last.                                *)
LEMMA PauseGap ==
  ASSUME NEW behind \in Int, NEW left \in Int, NEW wasLate \in Nat, NEW age \in Nat,
         NEW second \in Nat, NEW delay \in Nat, NEW lag \in Nat,
         age <= delay, -lag <= left, left <= second,
         second - age <= behind + left - wasLate, behind + left - wasLate < 2 * second + delay
  PROVE  -delay <= behind /\ behind < 2 * second + delay + wasLate + lag
OBVIOUS

(* The client hears of a pause and stops counting.                         *)
LEMMA PauseRecent == IInv /\ FollowInv /\ HandleOnPause => Recent'
<1> SUFFICES ASSUME IInv, FollowInv, HandleOnPause, Told'
             PROVE  AnswerRecent' /\ CountRecent'
  BY DEF Recent
<1>1. /\ Dispatch("OnPause") /\ asked' = asked /\ sought' = sought /\ ~seeking'
      /\ m_elapsed' = m_elapsed /\ due' = due /\ late' = late
  BY DEF HandleOnPause, timeVars, historyVars
<1>2. Ordered BY DEF FollowInv, Ordered
<1>3. /\ Told /\ AnswerRecent /\ CountRecent /\ AnswerRecent' /\ NoPlayAfter(toClient', 0)
  BY <1>1, LeftRecent
<1>4. /\ toClient' = Tail(toClient) /\ toClient \in Seq(Message) /\ toClient # <<>>
      /\ toClient[1].id = "OnPause" /\ player' = player /\ position' = position
      /\ player # "playing"
  BY <1>1, <1>2, <1>3, DispatchOrder DEF FitsPlayer
<1>5. player = "paused"
  BY <1>3, <1>4 DEF Told, IInv, TypeOK, ServerOK
<1>6. ASSUME NoAnswer(toClient')
      PROVE  -MaxDelay <= Behind /\ Behind < 2 * SECOND + MaxDelay + late + MaxLag
  <2>1. NoAnswer(toClient) BY <1>4, <1>6, LeftAnswers
  <2>2. CASE ~seeking BY <1>3, <1>5, <2>1, <2>2 DEF CountRecent
  <2>3. CASE seeking
    <3>1. PICK i \in DOMAIN toClient : Counting(toClient[i].age)
      BY <1>3, <1>5, <2>1, <2>3 DEF CountRecent
    <3>2. toClient[i].age \in Nat /\ toClient[i].age <= MaxDelay
      <4>1. toClient[i] \in Message BY <1>4
      <4> QED BY <1>2, <4>1, MessageNumbers DEF Ordered, Aged
    <3>3. -MaxLag <= due /\ due <= SECOND BY <1>2, <2>3 DEF Ordered, SeekerPlays
    <3>4. /\ position \in Nat /\ late \in Nat /\ due \in Int
          /\ SECOND \in Nat /\ MaxDelay \in Nat /\ MaxLag \in Nat /\ m_elapsed * SECOND \in Nat
      BY Numbers
    <3>5. Behind \in Int BY <3>4 DEF Behind
    <3>6. /\ SECOND - toClient[i].age <= Behind + due - late
          /\ Behind + due - late < 2 * SECOND + MaxDelay
      BY <3>1 DEF Counting, Lacks
    <3> QED BY <3>2, <3>3, <3>4, <3>5, <3>6, PauseGap
  <2> QED BY <2>2, <2>3
<1>7. Behind' = Behind BY <1>1, <1>4 DEF Behind
<1>8. CountRecent' BY <1>1, <1>4, <1>5, <1>6, <1>7 DEF CountRecent
<1> QED BY <1>3, <1>8

(* The count that starts from an answer.                                   *)
LEMMA AnswerGap ==
  ASSUME NEW since \in Int, NEW age \in Nat, NEW second \in Nat, NEW delay \in Nat, NEW lag \in Nat,
         age <= delay, 0 <= since, since < second + age
  PROVE  /\ -delay <= since /\ since < 2 * second + delay + 0 + lag
         /\ second <= since + second - 0 /\ since + second - 0 < 2 * second + delay
         /\ \A old \in Nat : second - old <= since + second - 0
OBVIOUS

(* The count starts again from the answer handled.                         *)
LEMMA AnswerHandledRecent == IInv /\ FollowInv /\ HandleProperties => Recent'
<1> SUFFICES ASSUME IInv, FollowInv, HandleProperties, Told'
             PROVE  AnswerRecent' /\ CountRecent'
  BY DEF Recent
<1>1. /\ Dispatch("properties") /\ asked' = asked /\ sought' = sought /\ late' = 0
      /\ GetProperties(Head(toClient))
  BY DEF HandleProperties, GetProperties
<1>2. Ordered BY DEF FollowInv, Ordered
<1>3. Told /\ AnswerRecent /\ AnswerRecent' /\ NoPlayAfter(toClient', 0)
  BY <1>1, LeftRecent
<1>4. /\ toClient' = Tail(toClient) /\ toClient \in Seq(Message) /\ toClient # <<>>
      /\ toClient[1].id = "properties" /\ player' = player /\ position' = position
      /\ Head(toClient) = toClient[1] /\ toClient[1] \in Message /\ 1 \in DOMAIN toClient
      /\ toClient[1].age <= MaxDelay
      /\ toClient[1].player = "none" => player = "none"
      /\ toClient[1].player = "paused" => player # "playing"
      /\ toClient[1].player = "playing" /\ player = "paused"
           => \E j \in DOMAIN toClient' : toClient'[j].id = "OnPause"
  BY <1>1, <1>2, <1>3, DispatchOrder
<1>5. seeking => toClient[1].player = "playing" BY <1>1, <1>2, SeekerHears
<1>6. player # "none" /\ player \in {"none", "playing", "paused"}
  BY <1>3 DEF Told, IInv, TypeOK, ServerOK
<1>7. SUFFICES ASSUME NoAnswer(toClient') PROVE CountRecent'
  BY <1>3 DEF CountRecent
<1> DEFINE m == toClient[1]
<1>8. GetProperties(m) BY <1>1, <1>4
<1>9. 0 <= Since(m) /\ Since(m) < SECOND + m.age
  <2>1. LastAnswer(toClient, 1) BY <1>4, <1>7, LeftAnswers
  <2> QED BY <1>3, <1>4, <2>1 DEF AnswerRecent
<1>10. Behind' = Since(m)
  BY <1>4, <1>8 DEF GetProperties, Behind, Since
<1>11. /\ m.age \in Nat /\ m.age <= MaxDelay /\ Since(m) \in Int
       /\ SECOND \in Nat /\ MaxDelay \in Nat /\ MaxLag \in Nat
  <2>1. m.age \in Nat /\ JsonTimeToSeconds(m.time) * SECOND \in Nat BY <1>4, MessageNumbers
  <2> QED BY <1>4, <2>1, Numbers DEF Since
<1>12. /\ -MaxDelay <= Since(m) /\ Since(m) < 2 * SECOND + MaxDelay + 0 + MaxLag
       /\ SECOND <= Since(m) + SECOND - 0 /\ Since(m) + SECOND - 0 < 2 * SECOND + MaxDelay
       /\ \A old \in Nat : SECOND - old <= Since(m) + SECOND - 0
  BY <1>9, <1>11, AnswerGap
<1>13. CASE m.player = "playing"
  <2>1. seeking' /\ due' = SECOND BY <1>8, <1>13 DEF GetProperties
  <2>2. Lacks' = Since(m) + SECOND - 0 BY <1>1, <1>10, <2>1 DEF Lacks
  <2>4. \A j \in DOMAIN toClient' : toClient'[j].age \in Nat
    <3>1. \A j \in DOMAIN toClient' : toClient'[j] \in Message
      BY <1>4, LeftAnswers, ElementOfSeq, LenProperties
    <3> QED BY <3>1, MessageNumbers
  <2>5. Counting(0)'
    <3>1. SECOND - 0 <= Lacks' /\ Lacks' < 2 * SECOND + MaxDelay BY <1>11, <1>12, <2>2
    <3> QED BY <3>1 DEF Counting
  <2>6. player' = "paused" =>
          (\E j \in DOMAIN toClient : toClient[j].id = "OnPause" /\ Counting(toClient[j].age))'
    <3>1. ASSUME player' = "paused"
          PROVE  \E j \in DOMAIN toClient' :
                   toClient'[j].id = "OnPause" /\ SECOND - toClient'[j].age <= Lacks'
                   /\ Lacks' < 2 * SECOND + MaxDelay
      BY <1>4, <1>12, <1>13, <2>2, <2>4, <3>1
    <3> QED BY <3>1 DEF Counting
  <2> QED BY <2>1, <2>5, <2>6 DEF CountRecent
<1>14. CASE m.player = "paused"
  <2>1. ~seeking' BY <1>5, <1>8, <1>14 DEF GetProperties, seekerVars
  <2>2. player' # "playing" BY <1>4, <1>14
  <2>3. -MaxDelay <= Behind' /\ Behind' < 2 * SECOND + MaxDelay + late' + MaxLag
    BY <1>1, <1>10, <1>12
  <2> QED BY <2>1, <2>2, <2>3 DEF CountRecent
<1> QED BY <1>4, <1>6, <1>13, <1>14 DEF Message

(* The other messages either come before an answer that was asked for, or  *)
(* tell of the end of what was played.                                     *)
LEMMA OtherHandledRecent ==
  IInv /\ FollowInv /\ (HandleError \/ HandleOnPlay \/ HandleOnStop) => Recent'
<1> SUFFICES ASSUME IInv, FollowInv, HandleError \/ HandleOnPlay \/ HandleOnStop
             PROVE  ~Told'
  BY DEF Recent
<1>1. CASE HandleOnPlay
  <2>1. asked \in Nat /\ asked' = asked + 1 BY <1>1 DEF HandleOnPlay, IInv, TypeOK
  <2>2. asked' # 0 BY <2>1
  <2> QED BY <2>2 DEF Told
<1>2. CASE HandleError \/ HandleOnStop
  <2>1. Ordered BY DEF FollowInv, Ordered
  <2>2. PICK id \in {"error", "OnStop"} : Dispatch(id)
    BY <1>2 DEF HandleError, HandleOnStop
  <2>3. toClient[1].player = "none" BY <2>1, <2>2, DispatchOrder DEF FitsPlayer
  <2>4. NoPlayAfter(toClient', 0) => player = "none" BY <2>1, <2>2, <2>3, DispatchOrder
  <2>5. player' = player BY <2>1, <2>2, DispatchOrder
  <2> QED BY <2>4, <2>5 DEF Told
<1> QED BY <1>1, <1>2

(* A second more is counted when its timeout is over.                      *)
LEMMA SecondGap ==
  ASSUME NEW pos \in Int, NEW e \in Nat, NEW second \in Nat, NEW left \in Int, NEW wasLate \in Nat,
         NEW counted \in Int, counted = e + second
  PROVE  (pos - counted) + second - (wasLate - left) = (pos - e) + left - wasLate
OBVIOUS

(* auto_seek_timeout_handler                                               *)
LEMMA AutoSeekRecent == IInv /\ FollowInv /\ AutoSeek => Recent'
<1> SUFFICES ASSUME IInv, FollowInv, AutoSeek, Told'
             PROVE  AnswerRecent' /\ CountRecent'
  BY DEF Recent
<1>1. Ordered BY DEF FollowInv, Ordered
<1>2. /\ seeking' /\ seeking /\ due' = SECOND /\ late' = late - due
      /\ m_elapsed' = m_elapsed + 1 /\ player' = player /\ position' = position
      /\ asked' = asked /\ toClient' = toClient /\ sought' = sought
  BY <1>1, AutoSeekOrdered DEF AutoSeek
<1>3. Told BY <1>2 DEF Told
<1>4. AnswerRecent /\ CountRecent BY <1>3 DEF FollowInv, Recent
<1>5. AnswerRecent' BY <1>2, <1>4 DEF AnswerRecent, Since
<1>6. Lacks' = Lacks
  <2>1. /\ position \in Nat /\ late \in Nat /\ due \in Int /\ SECOND \in Nat
        /\ m_elapsed \in Nat /\ m_elapsed * SECOND \in Nat
    BY Numbers
  <2>2. (m_elapsed + 1) * SECOND = m_elapsed * SECOND + SECOND BY <2>1
  <2>3. Lacks' = (position - (m_elapsed + 1) * SECOND) + SECOND - (late - due)
    BY <1>2 DEF Lacks, Behind
  <2>4. Lacks = (position - m_elapsed * SECOND) + due - late BY DEF Lacks, Behind
  <2> DEFINE e == m_elapsed * SECOND
             c == (m_elapsed + 1) * SECOND
  <2>5. e \in Nat /\ c \in Int /\ c = e + SECOND BY <2>1, <2>2
  <2> HIDE DEF e, c
  <2>6. (position - c) + SECOND - (late - due) = (position - e) + due - late
    BY <2>1, <2>5, SecondGap
  <2> QED BY <2>3, <2>4, <2>6 DEF e, c
<1>7. CountRecent' BY <1>2, <1>4, <1>6 DEF CountRecent, Counting
<1> QED BY <1>5, <1>7

(* Starts come before their answer, a stop ends the item, and a pause will *)
(* be heard of.                                                            *)
LEMMA AnnouncedRecent ==
  IInv /\ FollowInv /\ (ServerPlays \/ ServerPauses \/ ServerStops) => Recent' /\ Ordered'
<1> SUFFICES ASSUME IInv, FollowInv, ServerPlays \/ ServerPauses \/ ServerStops
             PROVE  Recent' /\ Ordered'
  OBVIOUS
<1>1. Ordered BY DEF FollowInv, Ordered
<1>2. position \in Nat /\ total \in Nat
  BY ProgressAssumption DEF IInv, TypeOK, ServerOK
<1>3. CASE ServerPlays
  <2>1. Change BY <1>3 DEF ServerPlays
  <2>2. \E pos \in Nat, t \in Nat : Announce("OnPlay", "playing", pos, t)
    <3>1. CASE \E t \in Totals, rest \in Rests :
                 Announce("OnPlay", "playing", (t - rest) * SECOND, t)
      <4>1. PICK t \in Totals, rest \in Rests :
              Announce("OnPlay", "playing", (t - rest) * SECOND, t)
        BY <3>1
      <4>2. t \in Nat /\ rest \in Nat /\ rest <= t BY ProgressAssumption
      <4>3. (t - rest) * SECOND \in Nat BY <4>2, StartPosition
      <4> QED BY <4>1, <4>2, <4>3
    <3>2. CASE Announce("OnPlay", "playing", position, total) BY <1>2, <3>2
    <3> QED BY <1>3, <3>1, <3>2 DEF ServerPlays
  <2>3. PICK pos \in Nat : \E t \in Nat : Announce("OnPlay", "playing", pos, t) BY <2>2
  <2>4. PICK t \in Nat : Announce("OnPlay", "playing", pos, t) BY <2>3
  <2>5. /\ Ordered' /\ toClient \in Seq(Message)
        /\ toClient' = Append(toClient, Say("OnPlay", "playing", pos, t))
        /\ Say("OnPlay", "playing", pos, t) \in Message
        /\ Say("OnPlay", "playing", pos, t).id = "OnPlay"
    BY <1>1, <2>1, <2>4, AnnounceOrdered DEF Notifications
  <2>6. ~NoPlayAfter(toClient', 0) BY <2>5, MoreAnswers
  <2> QED BY <2>5, <2>6 DEF Recent, Told
<1>4. CASE ServerStops
  <2>1. Change /\ Announce("OnStop", "none", position, total) BY <1>4 DEF ServerStops
  <2>2. Ordered' /\ player' = "none" BY <1>1, <1>2, <2>1, AnnounceOrdered DEF Notifications
  <2> QED BY <2>2 DEF Recent, Told
<1>5. CASE ServerPauses
  <2> DEFINE m == Say("OnPause", "paused", position, total)
  <2>1. Change /\ player = "playing" /\ Announce("OnPause", "paused", position, total)
    BY <1>5 DEF ServerPauses
  <2>2. /\ Ordered' /\ toClient \in Seq(Message) /\ toClient' = Append(toClient, m)
        /\ m \in Message /\ m.id = "OnPause" /\ m.age = 0
        /\ player' = "paused" /\ position' = position
        /\ asked' = asked /\ seeking' = seeking /\ due' = due /\ m_elapsed' = m_elapsed
        /\ late' = late /\ sought' = sought
    BY <1>1, <1>2, <2>1, AnnounceOrdered DEF Notifications
  <2> HIDE DEF m
  <2>3. SUFFICES ASSUME Told' PROVE AnswerRecent' /\ CountRecent'
    BY <2>2 DEF Recent
  <2>4. NoPlayAfter(toClient, 0) BY <2>2, <2>3, MoreAnswers DEF Told
  <2>5. Told BY <2>1, <2>2, <2>3, <2>4 DEF Told
  <2>6. AnswerRecent /\ CountRecent BY <2>5 DEF FollowInv, Recent
  <2>7. ASSUME NEW i \in DOMAIN toClient', LastAnswer(toClient', i)
        PROVE  i \in DOMAIN toClient /\ toClient'[i] = toClient[i] /\ LastAnswer(toClient, i)
    BY <2>2, <2>7, MoreAnswers
  <2>8. AnswerRecent' BY <2>2, <2>6, <2>7 DEF AnswerRecent, Since
  <2>9. CountRecent'
    <3>1. SUFFICES ASSUME NoAnswer(toClient') PROVE CountRecent'
      BY DEF CountRecent
    <3>2. NoAnswer(toClient) BY <2>2, <3>1, MoreAnswers
    <3>3. seeking /\ Counting(0) BY <2>1, <2>6, <3>2 DEF CountRecent
    <3>4. Lacks' = Lacks BY <2>2 DEF Lacks, Behind
    <3>5. Len(toClient) + 1 \in DOMAIN toClient' /\ toClient'[Len(toClient) + 1] = m
      BY <2>2, MoreAnswers
    <3>6. (\E i \in DOMAIN toClient : toClient[i].id = "OnPause" /\ Counting(toClient[i].age))'
      <4>1. SECOND - m.age <= Lacks' /\ Lacks' < 2 * SECOND + MaxDelay
        BY <2>2, <3>3, <3>4 DEF Counting
      <4> QED BY <2>2, <3>5, <4>1 DEF Counting
    <3> QED BY <2>2, <3>3, <3>6 DEF CountRecent
  <2> QED BY <2>2, <2>8, <2>9
<1> QED BY <1>3, <1>4, <1>5

(* A number rounded down to whole seconds lacks less than one.             *)
LEMMA RoundedOff ==
  ASSUME NEW n \in Nat, NEW d \in Nat, d > 0
  PROVE  0 <= n - (n \div d) * d /\ n - (n \div d) * d < d
<1>1. n \div d \in Nat /\ n % d \in Nat /\ n % d < d /\ n = d * (n \div d) + (n % d)
  OBVIOUS
<1>2. d * (n \div d) = (n \div d) * d BY <1>1
<1> QED BY <1>1, <1>2

(* The server answers with its time of now, in whole seconds.              *)
LEMMA ServeRecent == IInv /\ FollowInv /\ ServeProperties => Recent'
<1> SUFFICES ASSUME IInv, FollowInv, ServeProperties, Told'
             PROVE  AnswerRecent' /\ CountRecent'
  BY DEF Recent
<1>1. Ordered BY DEF FollowInv, Ordered
<1> DEFINE m == Say("properties", player, position, total)
<1>2. player' = player /\ position' = position BY <1>1, ServeOrdered
<1>3. player # "none" BY <1>2 DEF Told
<1>4. toClient' = Append(toClient, m) BY <1>1, <1>3, ServeOrdered
<1>5. /\ player \in {"none", "playing", "paused"} /\ position \in Nat /\ total \in Nat
      /\ toClient \in Seq(Message)
  BY ProgressAssumption DEF IInv, TypeOK, ServerOK
<1>6. /\ m \in Message /\ m.id = "properties" /\ m.age = 0
      /\ m.time = ServerTime(position \div SECOND)
  <2>1. player \in {"none", "playing", "paused"} /\ position \in Nat /\ total \in Nat
    BY <1>5
  <2>2. m \in Message /\ m.id = "properties" /\ m.age = 0 BY <2>1, SayFits
  <2>3. m.time = ServerTime(position \div SECOND) BY DEF Say
  <2> QED BY <2>2, <2>3
<1> HIDE DEF m
<1>7. Since(m) = position - (position \div SECOND) * SECOND
  <2>1. SECOND \in Nat /\ SECOND > 0 BY Numbers
  <2>2. position \div SECOND \in Nat BY <1>5, <2>1
  <2>3. JsonTimeToSeconds(m.time) = position \div SECOND BY <1>6, <2>2, ServerTimeReads
  <2> QED BY <2>3 DEF Since
<1>8. 0 <= Since(m) /\ Since(m) < SECOND
  BY <1>5, <1>7, Numbers, RoundedOff
<1>9. ASSUME NEW i \in DOMAIN toClient', LastAnswer(toClient', i) PROVE toClient'[i] = m
  BY <1>4, <1>5, <1>6, <1>9, MoreAnswers
<1>10. JsonTimeToSeconds(m.time) * SECOND \in Nat BY <1>6, MessageNumbers
<1>11. /\ 0 <= position' - JsonTimeToSeconds(m.time) * SECOND
       /\ position' - JsonTimeToSeconds(m.time) * SECOND < SECOND + m.age
  <2>1. Since(m) < SECOND + m.age
    <3>1. SECOND + m.age = SECOND BY <1>6, Numbers
    <3> QED BY <1>8, <3>1
  <2> QED BY <1>2, <1>8, <2>1 DEF Since
<1>12. AnswerRecent' BY <1>9, <1>11 DEF AnswerRecent, Since
<1>13. CountRecent'
  <2>1. ~NoAnswer(toClient') BY <1>4, <1>5, <1>6, MoreAnswers
  <2> QED BY <2>1 DEF CountRecent
<1> QED BY <1>12, <1>13

(* A tick of a film that plays.                                            *)
LEMMA TickGap ==
  ASSUME NEW pos \in Int, NEW e \in Int, NEW left \in Int, NEW wasLate \in Int
  PROVE  /\ (pos + 1 - e) + (left - 1) - wasLate = (pos - e) + left - wasLate
         /\ (pos - e) + (left - 1) - wasLate = ((pos - e) + left - wasLate) - 1
OBVIOUS

(* A message that grows older, of a film that plays or does not.           *)
LEMMA OlderGap ==
  ASSUME NEW since \in Int, NEW later \in {since, since + 1}, NEW age \in Nat,
         NEW second \in Nat, 0 <= since, since < second + age
  PROVE  0 <= later /\ later < second + (age + 1)
OBVIOUS

(* The clock.                                                              *)
LEMMA TickRecent == IInv /\ FollowInv /\ Tick => Recent'
<1> SUFFICES ASSUME IInv, FollowInv, Tick, Told'
             PROVE  AnswerRecent' /\ CountRecent'
  BY DEF Recent
<1>1. Ordered BY DEF FollowInv, Ordered
<1>2. /\ DOMAIN toClient' = DOMAIN toClient
      /\ \A i \in DOMAIN toClient :
           /\ toClient[i] \in Message
           /\ toClient'[i].id = toClient[i].id /\ toClient'[i].time = toClient[i].time
           /\ toClient'[i].age = toClient[i].age + 1
      /\ position' = (IF player = "playing" THEN position + 1 ELSE position)
      /\ due' = (IF seeking THEN due - 1 ELSE due)
      /\ player' = player /\ asked' = asked /\ seeking' = seeking
      /\ m_elapsed' = m_elapsed /\ late' = late /\ sought' = sought
  BY <1>1, TickOrdered
<1>3. Told BY <1>2 DEF Told, NoPlayAfter
<1>4. AnswerRecent /\ CountRecent BY <1>3 DEF FollowInv, Recent
<1>5. /\ position \in Nat /\ late \in Nat /\ due \in Int /\ SECOND \in Nat /\ MaxDelay \in Nat
      /\ m_elapsed * SECOND \in Nat
  BY Numbers
<1>6. AnswerRecent'
  <2>1. SUFFICES ASSUME NEW i \in DOMAIN toClient', LastAnswer(toClient', i)
                 PROVE  /\ 0 <= position' - JsonTimeToSeconds(toClient'[i].time) * SECOND
                        /\ position' - JsonTimeToSeconds(toClient'[i].time) * SECOND
                             < SECOND + toClient'[i].age
    BY DEF AnswerRecent, Since
  <2> DEFINE t == JsonTimeToSeconds(toClient[i].time) * SECOND
  <2>2. LastAnswer(toClient, i) BY <1>2, <2>1 DEF LastAnswer
  <2>3. 0 <= position - t /\ position - t < SECOND + toClient[i].age
    BY <1>2, <1>4, <2>1, <2>2 DEF AnswerRecent, Since
  <2>4. toClient[i].age \in Nat /\ t \in Nat BY <1>2, <2>1, MessageNumbers
  <2>5. t = JsonTimeToSeconds(toClient'[i].time) * SECOND BY <1>2, <2>1
  <2>6. toClient'[i].age = toClient[i].age + 1 BY <1>2, <2>1
  <2> HIDE DEF t
  <2>7. position' - t \in {position - t, (position - t) + 1} BY <1>2, <1>5, <2>4
  <2>8. position - t \in Int BY <1>5, <2>4
  <2>9. 0 <= position' - t /\ position' - t < SECOND + (toClient[i].age + 1)
    BY <1>5, <2>3, <2>4, <2>7, <2>8, OlderGap
  <2> QED BY <2>5, <2>6, <2>9
<1>7. CountRecent'
  <2>1. SUFFICES ASSUME NoAnswer(toClient') PROVE CountRecent'
    BY DEF CountRecent
  <2>2. NoAnswer(toClient) BY <1>2, <2>1 DEF NoAnswer
  <2> DEFINE e == m_elapsed * SECOND
  <2>3. Lacks = (position - e) + due - late /\ Lacks' = (position' - e) + due' - late
    BY <1>2 DEF Lacks, Behind
  <2>4. e \in Nat BY <1>5
  <2> HIDE DEF e
  <2>5. CASE player = "playing"
    <3>1. seeking /\ Counting(0) BY <1>4, <2>2, <2>5 DEF CountRecent
    <3>2. Lacks' = Lacks BY <1>2, <1>5, <2>3, <2>4, <2>5, <3>1, TickGap
    <3> QED BY <1>2, <2>5, <3>1, <3>2 DEF CountRecent, Counting
  <2>6. CASE player = "paused" /\ seeking
    <3>1. PICK i \in DOMAIN toClient : toClient[i].id = "OnPause" /\ Counting(toClient[i].age)
      BY <1>4, <2>2, <2>6 DEF CountRecent
    <3>2. Lacks' = Lacks - 1 /\ Lacks \in Int BY <1>2, <1>5, <2>3, <2>4, <2>6, TickGap
    <3>3. toClient[i].age \in Nat BY <1>2, MessageNumbers
    <3>4. SECOND - (toClient[i].age + 1) <= Lacks' /\ Lacks' < 2 * SECOND + MaxDelay
      BY <1>5, <3>1, <3>2, <3>3 DEF Counting
    <3>5. /\ i \in DOMAIN toClient' /\ toClient'[i].id = "OnPause"
          /\ SECOND - toClient'[i].age <= Lacks' /\ Lacks' < 2 * SECOND + MaxDelay
      BY <1>2, <3>1, <3>4
    <3>6. (\E j \in DOMAIN toClient : toClient[j].id = "OnPause" /\ Counting(toClient[j].age))'
      BY <3>5 DEF Counting
    <3> QED BY <1>2, <2>6, <3>6 DEF CountRecent
  <2>7. CASE player = "paused" /\ ~seeking
    <3>1. Behind' = Behind BY <1>2, <2>7 DEF Behind
    <3>2. -MaxDelay <= Behind /\ Behind < 2 * SECOND + MaxDelay + late + MaxLag
      BY <1>4, <2>2, <2>7 DEF CountRecent
    <3> QED BY <1>2, <2>7, <3>1, <3>2 DEF CountRecent
  <2>8. CASE player \notin {"playing", "paused"} BY <1>2, <2>8 DEF CountRecent
  <2> QED BY <2>5, <2>6, <2>7, <2>8
<1> QED BY <1>6, <1>7

(* Every step keeps the order, the timeout and the count.                  *)
LEMMA FollowStep == IInv /\ FollowInv /\ [Next]_vars => FollowInv'
<1> SUFFICES ASSUME IInv, FollowInv, [Next]_vars PROVE Ordered' /\ Recent'
  BY DEF FollowInv, Ordered
<1>0. Ordered BY DEF FollowInv, Ordered
<1>1. CASE HandleProperties BY <1>0, <1>1, HandlersOrdered, AnswerHandledRecent
<1>2. CASE HandleOnPause BY <1>0, <1>2, HandlersOrdered, PauseRecent
<1>3. CASE HandleError \/ HandleOnPlay \/ HandleOnStop
  BY <1>0, <1>3, HandlersOrdered, OtherHandledRecent
<1>4. CASE AutoSeek BY <1>0, <1>4, AutoSeekOrdered, AutoSeekRecent
<1>5. CASE ServerPlays \/ ServerPauses \/ ServerStops BY <1>5, AnnouncedRecent
<1>6. CASE ServerSeeks
  <2>1. /\ player' = player /\ toClient' = toClient /\ m_state' = m_state
        /\ seeking' = seeking /\ due' = due /\ sought'
    BY <1>6 DEF ServerSeeks, Change, seekerVars
  <2>2. Ordered' BY <1>0, <2>1 DEF Ordered, SeekerPlays, Aged
  <2> QED BY <2>1, <2>2 DEF Recent, Told
<1>7. CASE ServeProperties BY <1>0, <1>7, ServeOrdered, ServeRecent
<1>8. CASE Tick BY <1>0, <1>8, TickOrdered, TickRecent
<1>9. CASE UNCHANGED vars
  <2>1. /\ player' = player /\ position' = position /\ toClient' = toClient
        /\ m_state' = m_state /\ m_elapsed' = m_elapsed /\ asked' = asked
        /\ seeking' = seeking /\ due' = due /\ late' = late /\ sought' = sought
    BY <1>9 DEF vars, serverVars, timeVars, seekerVars, historyVars
  <2>2. Ordered' BY <1>0, <2>1 DEF Ordered, SeekerPlays, Aged
  <2>3. Told' <=> Told BY <2>1 DEF Told
  <2>4. (AnswerRecent' <=> AnswerRecent) /\ (CountRecent' <=> CountRecent)
    BY <2>1 DEF AnswerRecent, CountRecent, Since, Behind, Lacks, Counting
  <2> QED BY <2>2, <2>3, <2>4 DEF FollowInv, Recent
<1> QED BY <1>1, <1>2, <1>3, <1>4, <1>5, <1>6, <1>7, <1>8, <1>9 DEF Next

(* The handshake has asked for the time if there is a player.              *)
LEMMA FollowInit == Init => FollowInv
<1> SUFFICES ASSUME Init PROVE FollowInv
  OBVIOUS
<1>1. /\ toClient = <<>> /\ seeking = FALSE
      /\ player # "none" => asked = 1
  BY DEF Init
<1>2. DOMAIN toClient = {} BY <1>1
<1>3. InOrder(toClient, player) BY <1>1, <1>2 DEF InOrder
<1>4. SeekerPlays BY <1>1 DEF SeekerPlays
<1>5. Aged BY <1>2 DEF Aged
<1>6. ~Told BY <1>1 DEF Told
<1> QED BY <1>3, <1>4, <1>5, <1>6 DEF FollowInv, Recent

(* With nothing under way, the timeout that runs is at most its lag past   *)
(* its second, which bounds what the count lacks.                          *)
LEMMA FollowBounds == IInv /\ FollowInv => Follows
<1> SUFFICES ASSUME IInv, FollowInv, Quiet, ~sought, player # "none"
             PROVE  /\ Behind >= (IF player = "paused" THEN -MaxDelay ELSE 0)
                    /\ Behind < 2 * SECOND + MaxDelay + late + MaxLag
  BY DEF Follows
<1>1. asked = 0 /\ toClient = <<>> /\ DOMAIN toClient = {} BY DEF Quiet
<1>2. Told /\ NoAnswer(toClient) BY <1>1 DEF Told, NoPlayAfter, NoAnswer
<1>3. CountRecent BY <1>2 DEF FollowInv, Recent
<1>4. /\ position \in Nat /\ late \in Nat /\ due \in Int /\ SECOND \in Nat
      /\ MaxDelay \in Nat /\ MaxLag \in Nat /\ m_elapsed * SECOND \in Nat
  BY Numbers
<1>5. CASE player = "playing"
  <2>1. seeking /\ Counting(0) BY <1>2, <1>3, <1>5 DEF CountRecent
  <2>2. -MaxLag <= due /\ due <= SECOND BY <2>1 DEF FollowInv, SeekerPlays
  <2>3. Behind \in Int BY <1>4 DEF Behind
  <2>4. SECOND - 0 <= Behind + due - late /\ Behind + due - late < 2 * SECOND + MaxDelay
    BY <2>1 DEF Counting, Lacks
  <2>5. -0 <= Behind /\ Behind < 2 * SECOND + MaxDelay + late + MaxLag
    BY <1>4, <2>2, <2>3, <2>4
  <2> QED BY <1>5, <2>3, <2>5
<1>6. CASE player = "paused"
  <2>1. ~seeking BY <1>1, <1>2, <1>3, <1>6 DEF CountRecent
  <2>2. -MaxDelay <= Behind /\ Behind < 2 * SECOND + MaxDelay + late + MaxLag
    BY <1>2, <1>3, <1>6, <2>1 DEF CountRecent
  <2>3. Behind \in Int BY <1>4 DEF Behind
  <2> QED BY <1>4, <1>6, <2>2, <2>3
<1> QED BY <1>5, <1>6 DEF IInv, TypeOK, ServerOK

(* The client's count keeps up with a film that plays: never ahead of it,  *)
(* and behind by less than two seconds, the delay of the one answer it     *)
(* started from and the lateness of its timeout, however long it counts.   *)
THEOREM CountFollows == Spec => []Follows
<1>1. Init => IInv /\ FollowInv BY InitIInv, FollowInit
<1>2. (IInv /\ FollowInv) /\ [Next]_vars => (IInv /\ FollowInv)' BY StepIInv, FollowStep
<1>3. IInv /\ FollowInv => Follows BY FollowBounds
<1> QED BY <1>1, <1>2, <1>3, PTL DEF Spec
=============================================================================
