---------------------------- MODULE Session_proofs ----------------------------
(***************************************************************************)
(* Session for any number of changes, clicks and items: types, the single  *)
(* auto-seek timer, and that the mirror of the player is exact whenever    *)
(* nothing is under way.                                                   *)
(*                                                                         *)
(* The last needs to know what is under way.  A message tells the player   *)
(* of now unless a notification is queued behind it; and while no          *)
(* notification is queued, the mirror is exact or a request is under way   *)
(* whose answer will end in the player's properties.  What another player  *)
(* has announced has behind it, when it counts no more, a notification or  *)
(* the properties of player 1.                                             *)
(***************************************************************************)
EXTENDS Session, SequenceTheorems, FiniteSetTheorems, TLAPS

(* A notification announces the player it was sent for.                    *)
Fits(m) ==
  /\ m.id = "OnPlay" => m.player = "playing"
  /\ m.id = "OnPause" => m.player = "paused"
  /\ m.id = "OnStop" => m.player = "none"

Silent(s) == \A i \in DOMAIN s : s[i].id \notin Notifications

Snapshots(s, p) ==
  \A i \in DOMAIN s :
    /\ Fits(s[i])
    /\ (\A j \in DOMAIN s : j > i => s[j].id \notin Notifications) => s[i].player = p

Requested(s, q) == \E i \in DOMAIN s : s[i] = q
Answered(s, q) == \E i \in DOMAIN s : s[i].id = q
Asked(q) == Requested(toServer, q) \/ Answered(toClient, q)

(* The properties of the player are asked for, or will be.                 *)
WillRefresh ==
  \/ Asked("players") \/ (Asked("connectItems") /\ m_state # "NOPLAYER")
  \/ Asked("connectProperties") \/ Asked("onPlayItems") \/ Asked("onPlayProperties")

Caught == Silent(toClient) => Agrees \/ (player # "none" /\ WillRefresh)

Covers(m, p) == m.id \in Notifications \/ (m.id \in Properties /\ p # "none")

Covered(s, p) ==
  \A i \in DOMAIN s : s[i].id \in Others => \E j \in DOMAIN s : j > i /\ Covers(s[j], p)

Synced ==
  ~m_stopped => /\ Snapshots(toClient, player)
                /\ ~foreign => Caught /\ Covered(toClient, player)

OneSeeker == seekers \subseteq {m_autoSeekConnection}

(* Only disconnect() sets closing, and it has set m_stopped.               *)
ClosingStopped == closing => m_stopped

IInv == TypeOK /\ OneSeeker /\ ClosingStopped /\ Synced

-----------------------------------------------------------------------------
(* Queues: what popping and appending leave.                               *)

(* Without its head the queue still tells the player of now.               *)
LEMMA TailFacts ==
  ASSUME NEW s \in Seq(Message), s # <<>>, NEW p \in Players, Snapshots(s, p)
  PROVE  /\ Snapshots(Tail(s), p)
         /\ Fits(Head(s))
         /\ Silent(Tail(s)) => Head(s).player = p
         /\ Silent(Tail(s)) /\ Head(s).id \notin Notifications => Silent(s)
<1>1. /\ Len(s) \in Nat \ {0} /\ DOMAIN s = 1..Len(s) /\ Head(s) = s[1]
      /\ Tail(s) \in Seq(Message) /\ DOMAIN Tail(s) = 1..(Len(s) - 1)
      /\ \A i \in 1..(Len(s) - 1) : Tail(s)[i] = s[i + 1]
  OBVIOUS
<1>2. Snapshots(Tail(s), p)
  <2> SUFFICES ASSUME NEW i \in 1..(Len(s) - 1)
               PROVE  /\ Fits(Tail(s)[i])
                      /\ (\A j \in 1..(Len(s) - 1) : j > i => Tail(s)[j].id \notin Notifications)
                           => Tail(s)[i].player = p
    BY <1>1 DEF Snapshots
  <2>1. i + 1 \in DOMAIN s /\ Tail(s)[i] = s[i + 1] BY <1>1
  <2>2. ASSUME \A j \in 1..(Len(s) - 1) : j > i => Tail(s)[j].id \notin Notifications
        PROVE  \A j \in DOMAIN s : j > i + 1 => s[j].id \notin Notifications
    <3> SUFFICES ASSUME NEW j \in DOMAIN s, j > i + 1 PROVE s[j].id \notin Notifications
      OBVIOUS
    <3>1. j - 1 \in 1..(Len(s) - 1) /\ j - 1 > i /\ Tail(s)[j - 1] = s[j] BY <1>1
    <3> QED BY <2>2, <3>1
  <2> QED BY <2>1, <2>2 DEF Snapshots
<1>3. Fits(Head(s)) BY <1>1 DEF Snapshots
<1>4. ASSUME Silent(Tail(s))
      PROVE  \A j \in DOMAIN s : j > 1 => s[j].id \notin Notifications
  <2> SUFFICES ASSUME NEW j \in DOMAIN s, j > 1 PROVE s[j].id \notin Notifications
    OBVIOUS
  <2>1. j - 1 \in DOMAIN Tail(s) /\ Tail(s)[j - 1] = s[j] BY <1>1
  <2> QED BY <1>4, <2>1 DEF Silent
<1>5. Silent(Tail(s)) => Head(s).player = p
  BY <1>1, <1>4 DEF Snapshots
<1>6. Silent(Tail(s)) /\ Head(s).id \notin Notifications => Silent(s)
  <2> SUFFICES ASSUME Silent(Tail(s)), Head(s).id \notin Notifications, NEW j \in DOMAIN s
               PROVE  s[j].id \notin Notifications
    BY DEF Silent
  <2>1. j = 1 \/ j > 1 BY <1>1
  <2> QED BY <1>1, <1>4, <2>1
<1> QED BY <1>2, <1>3, <1>5, <1>6

(* Without its head the queue covers what other players announced.         *)
LEMMA TailCovered ==
  ASSUME NEW s \in Seq(Message), s # <<>>, NEW p \in Players, Covered(s, p)
  PROVE  /\ Covered(Tail(s), p)
         /\ Head(s).id \in Others => \E j \in DOMAIN Tail(s) : Covers(Tail(s)[j], p)
<1>1. /\ Len(s) \in Nat \ {0} /\ DOMAIN s = 1..Len(s) /\ Head(s) = s[1]
      /\ DOMAIN Tail(s) = 1..(Len(s) - 1)
      /\ \A i \in 1..(Len(s) - 1) : Tail(s)[i] = s[i + 1]
  OBVIOUS
<1>2. ASSUME NEW i \in DOMAIN s, s[i].id \in Others
      PROVE  \E j \in DOMAIN Tail(s) : j > i - 1 /\ Covers(Tail(s)[j], p)
  <2>1. PICK j \in DOMAIN s : j > i /\ Covers(s[j], p) BY <1>2 DEF Covered
  <2>2. j - 1 \in DOMAIN Tail(s) /\ j - 1 > i - 1 /\ Tail(s)[j - 1] = s[j] BY <1>1, <2>1
  <2> QED BY <2>1, <2>2
<1>3. Covered(Tail(s), p)
  <2> SUFFICES ASSUME NEW i \in DOMAIN Tail(s), Tail(s)[i].id \in Others
               PROVE  \E j \in DOMAIN Tail(s) : j > i /\ Covers(Tail(s)[j], p)
    BY DEF Covered
  <2>1. i + 1 \in DOMAIN s /\ s[i + 1] = Tail(s)[i] /\ (i + 1) - 1 = i BY <1>1
  <2> QED BY <1>2, <2>1
<1> QED BY <1>1, <1>2, <1>3

(* A message covers what is queued before it.                              *)
LEMMA AppendCovered ==
  ASSUME NEW s \in Seq(Message), NEW m \in Message, NEW p \in Players, m.id \notin Others,
         Covers(m, p) \/ Covered(s, p)
  PROVE  Covered(Append(s, m), p)
<1> DEFINE a == Append(s, m)
<1>1. /\ Len(s) \in Nat /\ DOMAIN s = 1..Len(s)
      /\ DOMAIN a = 1..(Len(s) + 1) /\ a[Len(s) + 1] = m
      /\ \A i \in 1..Len(s) : a[i] = s[i]
  OBVIOUS
<1> HIDE DEF a
<1> SUFFICES ASSUME NEW i \in DOMAIN a, a[i].id \in Others
             PROVE  \E j \in DOMAIN a : j > i /\ Covers(a[j], p)
  BY DEF Covered, a
<1>2. i \in DOMAIN s BY <1>1
<1>3. CASE Covers(m, p)
  <2>1. Len(s) + 1 \in DOMAIN a /\ Len(s) + 1 > i BY <1>1, <1>2
  <2> QED BY <1>1, <1>3, <2>1
<1>4. CASE Covered(s, p)
  <2>1. PICK j \in DOMAIN s : j > i /\ Covers(s[j], p) BY <1>1, <1>2, <1>4 DEF Covered
  <2>2. j \in DOMAIN a /\ a[j] = s[j] BY <1>1
  <2> QED BY <2>1, <2>2
<1> QED BY <1>3, <1>4

(* Taking the head leaves the other requests and answers asked for.        *)
LEMMA TailKeeps ==
  ASSUME NEW S, NEW s \in Seq(S), s # <<>>
  PROVE  /\ \A q : Requested(s, q) /\ Head(s) # q => Requested(Tail(s), q)
         /\ \A q : Answered(s, q) /\ Head(s).id # q => Answered(Tail(s), q)
<1>1. /\ Len(s) \in Nat \ {0} /\ DOMAIN s = 1..Len(s) /\ Head(s) = s[1]
      /\ DOMAIN Tail(s) = 1..(Len(s) - 1)
      /\ \A i \in 1..(Len(s) - 1) : Tail(s)[i] = s[i + 1]
  OBVIOUS
<1>2. ASSUME NEW i \in DOMAIN s, i # 1
      PROVE  i - 1 \in DOMAIN Tail(s) /\ Tail(s)[i - 1] = s[i]
  BY <1>1, <1>2
<1>3. ASSUME NEW q, Requested(s, q), Head(s) # q PROVE Requested(Tail(s), q)
  BY <1>1, <1>2, <1>3 DEF Requested
<1>4. ASSUME NEW q, Answered(s, q), Head(s).id # q PROVE Answered(Tail(s), q)
  BY <1>1, <1>2, <1>4 DEF Answered
<1> QED BY <1>3, <1>4

(* A message is said: what was answered stays so.                          *)
LEMMA AppendFacts ==
  ASSUME NEW s \in Seq(Message), NEW m \in Message
  PROVE  /\ Append(s, m) \in Seq(Message)
         /\ Silent(Append(s, m)) => Silent(s) /\ m.id \notin Notifications
         /\ \A q : Answered(s, q) => Answered(Append(s, m), q)
         /\ Answered(Append(s, m), m.id)
<1> DEFINE a == Append(s, m)
<1>1. /\ a \in Seq(Message) /\ Len(s) \in Nat /\ DOMAIN s = 1..Len(s)
      /\ DOMAIN a = 1..(Len(s) + 1) /\ a[Len(s) + 1] = m
      /\ \A i \in 1..Len(s) : a[i] = s[i]
  OBVIOUS
<1>2. DOMAIN s \subseteq DOMAIN a /\ Len(s) + 1 \in DOMAIN a BY <1>1
<1> HIDE DEF a
<1>3. Silent(a) => Silent(s) /\ m.id \notin Notifications
  <2>1. ASSUME Silent(a), NEW i \in DOMAIN s PROVE s[i].id \notin Notifications
    BY <1>1, <1>2, <2>1 DEF Silent
  <2>2. Silent(a) => m.id \notin Notifications BY <1>1, <1>2 DEF Silent
  <2> QED BY <2>1, <2>2 DEF Silent
<1>4. ASSUME NEW q, Answered(s, q) PROVE Answered(a, q)
  BY <1>1, <1>2, <1>4 DEF Answered
<1>5. Answered(a, m.id) BY <1>1, <1>2 DEF Answered
<1> QED BY <1>1, <1>3, <1>4, <1>5 DEF a

(* A reply behind the queue tells the player of now; so does a             *)
(* notification, behind which nothing else need tell it.                   *)
LEMMA AppendSnapshot ==
  ASSUME NEW s \in Seq(Message), NEW m \in Message, NEW p \in Players, NEW r \in Players,
         Snapshots(s, p), Fits(m), m.player = r,
         m.id \in Notifications \/ r = p
  PROVE  Snapshots(Append(s, m), r)
<1> DEFINE a == Append(s, m)
<1>1. /\ Len(s) \in Nat /\ DOMAIN s = 1..Len(s)
      /\ DOMAIN a = 1..(Len(s) + 1) /\ a[Len(s) + 1] = m
      /\ \A i \in 1..Len(s) : a[i] = s[i]
  OBVIOUS
<1> HIDE DEF a
<1> SUFFICES ASSUME NEW i \in DOMAIN a
             PROVE  /\ Fits(a[i])
                    /\ (\A j \in DOMAIN a : j > i => a[j].id \notin Notifications)
                         => a[i].player = r
  BY DEF Snapshots, a
<1>2. CASE i = Len(s) + 1 BY <1>1, <1>2
<1>3. CASE i \in DOMAIN s
  <2>1. Fits(a[i]) BY <1>1, <1>3 DEF Snapshots
  <2>2. ASSUME \A j \in DOMAIN a : j > i => a[j].id \notin Notifications
        PROVE  a[i].player = r
    <3>1. Len(s) + 1 \in DOMAIN a /\ Len(s) + 1 > i BY <1>1, <1>3
    <3>2. m.id \notin Notifications BY <1>1, <2>2, <3>1
    <3>3. \A j \in DOMAIN s : j > i => s[j].id \notin Notifications
      <4> SUFFICES ASSUME NEW j \in DOMAIN s, j > i PROVE s[j].id \notin Notifications
        OBVIOUS
      <4>1. j \in DOMAIN a /\ a[j] = s[j] BY <1>1
      <4> QED BY <2>2, <4>1
    <3> QED BY <1>1, <1>3, <3>2, <3>3 DEF Snapshots
  <2> QED BY <2>1, <2>2
<1> QED BY <1>1, <1>2, <1>3

(* Requests are written behind the others.                                 *)
LEMMA ConcatKeeps ==
  ASSUME NEW S, NEW s \in Seq(S), NEW t \in Seq(S)
  PROVE  /\ s \o t \in Seq(S)
         /\ \A q : Requested(s, q) \/ Requested(t, q) => Requested(s \o t, q)
<1> DEFINE c == s \o t
<1>1. /\ c \in Seq(S) /\ Len(s) \in Nat /\ Len(t) \in Nat
      /\ DOMAIN s = 1..Len(s) /\ DOMAIN t = 1..Len(t) /\ DOMAIN c = 1..(Len(s) + Len(t))
      /\ \A i \in 1..Len(s) : c[i] = s[i]
      /\ \A i \in 1..Len(t) : c[Len(s) + i] = t[i]
  OBVIOUS
<1> HIDE DEF c
<1>2. ASSUME NEW i \in DOMAIN s PROVE i \in DOMAIN c /\ c[i] = s[i]
  BY <1>1
<1>3. ASSUME NEW i \in DOMAIN t PROVE Len(s) + i \in DOMAIN c /\ c[Len(s) + i] = t[i]
  BY <1>1
<1>4. ASSUME NEW q, Requested(s, q) \/ Requested(t, q) PROVE Requested(c, q)
  <2>1. CASE Requested(s, q) BY <1>2, <2>1 DEF Requested
  <2>2. CASE Requested(t, q) BY <1>3, <2>2 DEF Requested
  <2> QED BY <1>4, <2>1, <2>2
<1> QED BY <1>1, <1>4 DEF c

-----------------------------------------------------------------------------
(* Types.                                                                  *)

(* What the server says is a message that fits.                            *)
LEMMA SayType ==
  ASSUME ServerOK, NEW id \in Queries \cup Notifications \cup Others \cup {"error", "gone"}
  PROVE  /\ Say(id) \in Message /\ Say(id).id = id /\ Say(id).player = player
         /\ id \notin Notifications => Fits(Say(id))
BY DEF ServerOK, Say, Message, Fits, Notifications

(* A handler's message is the head of the queue.                           *)
LEMMA DispatchTypes ==
  ASSUME TypeOK, NEW id, Dispatch(id)
  PROVE  /\ toClient # <<>> /\ Head(toClient) \in Message /\ Head(toClient).id = id
         /\ toClient' \in Seq(Message)
         /\ ServerOK' /\ BoundsOK' /\ UNCHANGED <<m_stopped, closing, foreign>>
<1>1. toClient \in Seq(Message) /\ toClient # <<>> BY DEF TypeOK, QueuesOK, Dispatch
<1>2. Head(toClient) \in Message /\ Tail(toClient) \in Seq(Message) BY <1>1
<1> QED BY <1>1, <1>2 DEF Dispatch, serverVars, boundVars, TypeOK, ServerOK, BoundsOK

(* write() keeps the type of the requests.                                 *)
LEMMA WriteTypes ==
  ASSUME TypeOK, NEW t \in Seq(Queries \cup Commands), Write(t)
  PROVE  toServer' \in Seq(Queries \cup Commands)
<1>1. toServer \in Seq(Queries \cup Commands) BY DEF TypeOK, QueuesOK
<1>2. toServer \o t \in Seq(Queries \cup Commands) BY <1>1
<1> QED BY <1>1, <1>2 DEF Write

(* One request is a sequence of requests.                                  *)
LEMMA QueryTypes ==
  \A q \in Queries \cup Commands : <<q>> \in Seq(Queries \cup Commands)
OBVIOUS

(* refresh_player leaves the window well-typed.                            *)
LEMMA RefreshTypes ==
  ASSUME RefreshPlayer
  PROVE  /\ buttons' \in BOOLEAN /\ image' \in {"play", "pause"}
         /\ label' \in {"disconnected", "nothingPlaying", "item", "invalidIter"}
BY DEF RefreshPlayer, SetPlayPauseWidgets

(* populate leaves as many rows as the server has items.                   *)
LEMMA RowsType ==
  ASSUME TypeOK, NEW m \in Message, GetItems(m)
  PROVE  rows' \in 0..MaxItems
<1>1. m.list \in 0..MaxItems BY DEF Message
<1> QED BY <1>1 DEF GetItems, Populate, TypeOK, MirrorOK

(* handle_get_properties replaces the timer and adds none.                 *)
LEMMA PropertiesTypes ==
  ASSUME TypeOK, OneSeeker, NEW m, GetProperties(m)
  PROVE  /\ m_state' \in States /\ m_playlistid' \in PlaylistIds \cup {-1}
         /\ TimersOK' /\ OneSeeker'
<1>1. ASSUME StartSeeking PROVE TimersOK' /\ OneSeeker'
  <2>1. seekers \ {m_autoSeekConnection} = {} BY DEF OneSeeker
  <2> QED BY <1>1, <2>1 DEF StartSeeking, TimersOK, OneSeeker
<1> QED BY <1>1 DEF GetProperties, TypeOK, MirrorOK, TimersOK, OneSeeker, timerVars, States

(* Removing the timer leaves at most one.                                  *)
LEMMA StopSeekingTypes ==
  ASSUME TypeOK, OneSeeker, StopSeeking
  PROVE  TimersOK' /\ OneSeeker'
BY DEF StopSeeking, TypeOK, TimersOK, OneSeeker

(* The three ways an action leaves the rest of the window and the timers.  *)
LEMMA UnchangedTypes ==
  ASSUME TypeOK, OneSeeker
  PROVE  /\ UNCHANGED timerVars => TimersOK' /\ OneSeeker'
         /\ UNCHANGED serverVars => ServerOK'
         /\ UNCHANGED boundVars => BoundsOK'
         /\ UNCHANGED toServer => toServer' \in Seq(Queries \cup Commands)
         /\ UNCHANGED toClient => toClient' \in Seq(Message)
BY DEF TypeOK, timerVars, serverVars, boundVars, TimersOK, OneSeeker, ServerOK, BoundsOK,
     QueuesOK

(* The handlers that go on with a request keep the types.                  *)
LEMMA RequestHandlersTypes ==
  ASSUME TypeOK, OneSeeker,
         HandleGetActivePlayers \/ HandleConnectGetItems \/ HandleOnPlay \/ HandleOnPlayItems
  PROVE  TypeOK' /\ OneSeeker'
<1> USE UnchangedTypes, QueryTypes
<1>1. CASE HandleGetActivePlayers
  <2> USE <1>1 DEF HandleGetActivePlayers
  <2>1. Write(<<"connectItems">>) /\ Dispatch("players") OBVIOUS
  <2>2. QueuesOK' /\ ServerOK' /\ BoundsOK' /\ UNCHANGED <<m_stopped, closing, foreign>>
    BY <2>1, DispatchTypes, WriteTypes DEF QueuesOK, Queries
  <2> QED BY <2>2 DEF TypeOK, FlagsOK, MirrorOK, States, uiVars
<1>2. CASE HandleConnectGetItems
  <2> USE <1>2 DEF HandleConnectGetItems
  <2>1. Dispatch("connectItems") /\ GetItems(Head(toClient)) OBVIOUS
  <2>2. toClient' \in Seq(Message) /\ ServerOK' /\ BoundsOK' /\ UNCHANGED <<m_stopped, closing, foreign>>
        /\ rows' \in 0..MaxItems
    BY <2>1, DispatchTypes, RowsType
  <2>3. CASE m_state # "NOPLAYER"
    <3>1. Write(<<"connectProperties">>) BY <2>3
    <3>2. QueuesOK' BY <2>2, <3>1, WriteTypes DEF QueuesOK, Queries
    <3> QED BY <2>2, <2>3, <3>2 DEF TypeOK, FlagsOK, MirrorOK, uiVars
  <2>4. CASE m_state = "NOPLAYER"
    <3>1. RefreshPlayer /\ m_connected' = TRUE BY <2>4 DEF Connected
    <3>2. QueuesOK' BY <2>2, <2>4 DEF QueuesOK
    <3> QED BY <2>2, <3>1, <3>2, RefreshTypes DEF TypeOK, FlagsOK, MirrorOK
  <2> QED BY <2>3, <2>4
<1>3. CASE HandleOnPlay
  <2> USE <1>3 DEF HandleOnPlay
  <2>1. Write(<<"onPlayItems">>) /\ \E id : Dispatch(id) OBVIOUS
  <2>2. QueuesOK' /\ ServerOK' /\ BoundsOK' /\ UNCHANGED <<m_stopped, closing, foreign>>
    BY <2>1, DispatchTypes, WriteTypes DEF QueuesOK, Queries
  <2> QED BY <2>2 DEF TypeOK, FlagsOK, MirrorOK, States, uiVars
<1>4. CASE HandleOnPlayItems
  <2> USE <1>4 DEF HandleOnPlayItems
  <2>1. /\ Write(<<"onPlayProperties">>) /\ Dispatch("onPlayItems")
        /\ GetItems(Head(toClient))
    OBVIOUS
  <2>2. QueuesOK' /\ ServerOK' /\ BoundsOK' /\ UNCHANGED <<m_stopped, closing, foreign>>
        /\ rows' \in 0..MaxItems
    BY <2>1, DispatchTypes, WriteTypes, RowsType DEF QueuesOK, Queries
  <2> QED BY <2>2 DEF TypeOK, FlagsOK, MirrorOK, uiVars
<1> QED BY <1>1, <1>2, <1>3, <1>4

(* And so do the others.                                                   *)
LEMMA OtherHandlersTypes ==
  ASSUME TypeOK, OneSeeker,
         \/ HandleConnectProperties \/ HandleOnPlayProperties
         \/ HandleOnPause \/ HandleOnStop \/ HandleError \/ HandleGone
  PROVE  TypeOK' /\ OneSeeker'
<1> USE UnchangedTypes
<1>1. CASE HandleConnectProperties \/ HandleOnPlayProperties
  <2>1. /\ \E id : Dispatch(id)
        /\ GetProperties(Head(toClient)) /\ RefreshPlayer
        /\ UNCHANGED <<toServer, rows, errors>> /\ m_connected' \in {TRUE, m_connected}
    BY <1>1 DEF HandleConnectProperties, HandleOnPlayProperties, Connected
  <2>2. QueuesOK' /\ ServerOK' /\ BoundsOK' /\ UNCHANGED <<m_stopped, closing, foreign>>
    BY <2>1, DispatchTypes DEF QueuesOK
  <2> QED BY <2>1, <2>2, PropertiesTypes, RefreshTypes DEF TypeOK, FlagsOK, MirrorOK
<1>2. CASE HandleOnPause \/ HandleOnStop
  <2>1. /\ \E id : Dispatch(id)
        /\ m_state' \in States /\ StopSeeking
        /\ UNCHANGED <<toServer, m_connected, m_playlistid, rows, errors>>
    BY <1>2 DEF HandleOnPause, HandleOnStop, States
  <2>2. QueuesOK' /\ ServerOK' /\ BoundsOK' /\ UNCHANGED <<m_stopped, closing, foreign>>
    BY <2>1, DispatchTypes DEF QueuesOK
  <2>3. /\ buttons' \in BOOLEAN /\ image' \in {"play", "pause"}
        /\ label' \in {"disconnected", "nothingPlaying", "item", "invalidIter"}
    BY <1>2, RefreshTypes
    DEF HandleOnPause, HandleOnStop, SetPlayPauseWidgets, TypeOK, MirrorOK
  <2> QED BY <2>1, <2>2, <2>3, StopSeekingTypes DEF TypeOK, FlagsOK, MirrorOK
<1>3. CASE HandleError
  <2> USE <1>3 DEF HandleError
  <2>1. QueuesOK' /\ ServerOK' /\ BoundsOK' /\ UNCHANGED <<m_stopped, closing, foreign>>
    BY DispatchTypes DEF QueuesOK
  <2> QED BY <2>1 DEF TypeOK, FlagsOK, MirrorOK, uiVars
<1>4. CASE HandleGone
  <2> USE <1>4 DEF HandleGone
  <2>1. QueuesOK' /\ ServerOK' /\ BoundsOK' /\ UNCHANGED <<m_stopped, closing, foreign>>
    BY DispatchTypes DEF QueuesOK
  <2>2. buttons' \in BOOLEAN /\ image' \in {"play", "pause"} /\ rows' \in 0..MaxItems
    BY SessionAssumption DEF SetPlayPauseWidgets
  <2> QED BY <2>1, <2>2 DEF TypeOK, FlagsOK, MirrorOK
<1> QED BY <1>1, <1>2, <1>3, <1>4

(* disconnect(): a prefix of the queue, then one message more.             *)
LEMMA DisconnectTypes ==
  ASSUME TypeOK, OneSeeker, Disconnect \/ Teardown
  PROVE  TypeOK' /\ OneSeeker'
<1> USE UnchangedTypes, StopSeekingTypes
<1>1. toClient \in Seq(Message) /\ Say("gone") \in Message
  BY SayType DEF TypeOK, QueuesOK
<1>2. CASE Disconnect
  <2> USE <1>2 DEF Disconnect
  <2>1. toClient' \in Seq(Message)
    <3>1. PICK n \in 0..Len(toClient) : toClient' = SubSeq(toClient, 1, n)
      OBVIOUS
    <3> QED BY <1>1, <3>1, SubSeqProperties
  <2>2. QueuesOK' BY <2>1 DEF QueuesOK
  <2> QED BY <2>2 DEF TypeOK, FlagsOK, MirrorOK, States, uiVars
<1>3. CASE Teardown
  <2> USE <1>3 DEF Teardown
  <2>1. PICK i \in 1..Len(toClient) + 1 : toClient' = InsertAt(toClient, i, Say("gone"))
    OBVIOUS
  <2>2. /\ SubSeq(toClient, 1, i - 1) \in Seq(Message)
        /\ SubSeq(toClient, i, Len(toClient)) \in Seq(Message)
        /\ <<Say("gone")>> \in Seq(Message)
    BY <1>1, SubSeqProperties
  <2>3. toClient' \in Seq(Message)
    BY <2>1, <2>2, ConcatProperties DEF InsertAt
  <2>4. QueuesOK' BY <2>3 DEF QueuesOK
  <2> QED BY <2>4 DEF TypeOK, FlagsOK, MirrorOK, stateVars, uiVars
<1> QED BY <1>2, <1>3

(* A request of the user.                                                  *)
ClientUnchanged == UNCHANGED <<stateVars, timerVars, uiVars, errors, closing>>

(* Whatever the user clicks is a sequence of requests.                     *)
LEMMA ClickFacts ==
  ASSUME TypeOK, ClickPlayer \/ ClickRemote \/ ClickClear \/ OpenFile
  PROVE  \E t \in Seq(Queries \cup Commands) : Click(t)
<1>1. \A c \in Commands : <<c>> \in Seq(Queries \cup Commands) OBVIOUS
<1>2. /\ PlayerCommands \cup RemoteCommands \subseteq Commands /\ "clear" \in Commands
      /\ <<"clear", "add", "open">> \in Seq(Queries \cup Commands)
  BY DEF Commands, PlayerCommands, RemoteCommands, PlaylistCommands
<1> QED BY <1>1, <1>2 DEF ClickPlayer, ClickRemote, ClickClear, OpenFile

(* A click changes the requests only.                                      *)
LEMMA ClickTypes ==
  ASSUME TypeOK, OneSeeker, NEW t \in Seq(Queries \cup Commands), Click(t)
  PROVE  TypeOK' /\ OneSeeker'
<1>1. QueuesOK' /\ BoundsOK' /\ ClientUnchanged /\ UNCHANGED <<serverVars, foreign>>
  BY WriteTypes, SessionAssumption, UnchangedTypes
  DEF Click, TypeOK, QueuesOK, BoundsOK, ClientUnchanged, serverVars, stateVars, timerVars, uiVars
<1> QED BY <1>1, UnchangedTypes
  DEF TypeOK, FlagsOK, MirrorOK, ClientUnchanged, stateVars, uiVars

(* Where the server speaks: what it says, and the rest of its step.        *)
LEMMA AnnounceTypes ==
  ASSUME TypeOK, NEW p \in Players, Announce(p)
  PROVE  /\ player' = p /\ foreign' = FALSE
         /\ \E m \in Message : /\ toClient' = Append(toClient, m)
                               /\ m.id \in Notifications /\ Fits(m) /\ m.player = p
         /\ toClient' \in Seq(Message)
<1> DEFINE id == CASE p = "playing" -> "OnPlay" [] p = "paused" -> "OnPause" [] p = "none" -> "OnStop"
           m == [id |-> id, player |-> p, list |-> list]
<1>1. /\ id \in Notifications
      /\ p = "playing" => id = "OnPlay"
      /\ p = "paused" => id = "OnPause"
      /\ p = "none" => id = "OnStop"
  BY DEF Players, Notifications
<1>2. toClient' = Append(toClient, m) /\ player' = p /\ foreign' = FALSE BY DEF Announce
<1> HIDE DEF id
<1>3. m \in Message /\ m.id = id /\ m.player = p
  BY <1>1 DEF Message, TypeOK, ServerOK
<1>4. Fits(m) BY <1>1, <1>3 DEF Fits, Players
<1>5. toClient' \in Seq(Message)
  BY <1>2, <1>3, AppendFacts DEF TypeOK, QueuesOK
<1> QED BY <1>1, <1>2, <1>3, <1>4, <1>5

(* An answer that is well-typed leaves everything so.                      *)
LEMMA ServeTypes ==
  ASSUME TypeOK, OneSeeker, NEW request, Serve(request), player' \in Players,
         list' \in 0..MaxItems, toClient' \in Seq(Message), foreign' \in BOOLEAN
  PROVE  TypeOK' /\ OneSeeker'
<1>1. /\ toServer \in Seq(Queries \cup Commands) /\ toServer # <<>>
      /\ toServer' = Tail(toServer)
  BY DEF TypeOK, QueuesOK, Serve
<1>2. QueuesOK' BY <1>1 DEF QueuesOK
<1>3. ClientUnchanged /\ UNCHANGED boundVars BY DEF Serve, ClientUnchanged
<1> QED BY <1>2, <1>3, UnchangedTypes
  DEF TypeOK, ServerOK, FlagsOK, MirrorOK, ClientUnchanged, stateVars, uiVars

(* A query is answered, or refused when there is no player.                *)
LEMMA ReplyFacts ==
  ASSUME TypeOK, ServeQuery \/ ServeRefused
  PROVE  \E r \in Queries \cup Commands, id \in Queries \cup {"error"} :
           /\ Serve(r) /\ UNCHANGED serverVars
           /\ toClient' = Append(toClient, Say(id))
           /\ r \in Queries => id = r \/ player = "none"
           /\ foreign' \in BOOLEAN
           /\ ~foreign' => ~foreign \/ (id \in Properties /\ player # "none")
<1>1. foreign \in BOOLEAN BY DEF TypeOK, FlagsOK
<1>2. CASE ServeQuery
  <2>1. PICK q \in Queries, id \in Queries \cup {"error"} :
          /\ Serve(q) /\ UNCHANGED serverVars /\ toClient' = Append(toClient, Say(id))
          /\ id = q \/ player = "none"
          /\ foreign' = (foreign /\ ~(q \in Properties /\ player # "none"))
    BY <1>2 DEF ServeQuery
  <2> QED BY <1>1, <2>1
<1>3. CASE ServeRefused
  BY <1>1, <1>3
  DEF ServeRefused, Commands, PlayerCommands, RemoteCommands, PlaylistCommands, Queries
<1> QED BY <1>2, <1>3

(* The server's steps keep the types.                                      *)
LEMMA ServerTypes ==
  ASSUME TypeOK, OneSeeker, Server \/ ServerChanges \/ OtherPlayerChanges
  PROVE  TypeOK' /\ OneSeeker'
<1> USE DEF serverVars
<1>1. CASE ServeQuery \/ ServeRefused
  <2>1. PICK r \in Queries \cup Commands, id \in Queries \cup {"error"} :
          /\ Serve(r) /\ UNCHANGED serverVars /\ toClient' = Append(toClient, Say(id))
          /\ foreign' \in BOOLEAN
    BY <1>1, ReplyFacts
  <2>2. toClient' \in Seq(Message)
    BY <2>1, SayType, AppendFacts DEF TypeOK, QueuesOK
  <2> QED BY <2>1, <2>2, ServeTypes DEF TypeOK, ServerOK
<1>2. CASE ServePlayer
  <2>1. /\ \E r : Serve(r)
        /\ \E p \in Players : Announce(p)
        /\ list' = list
    BY <1>2 DEF ServePlayer, Players
  <2> QED BY <2>1, AnnounceTypes, ServeTypes DEF TypeOK, ServerOK
<1>3. CASE ServeSilently
  <2>1. /\ \E r : Serve(r)
        /\ UNCHANGED <<player, toClient, foreign>>
        /\ list' \in 0..MaxItems
    BY <1>3, SessionAssumption DEF ServeSilently, TypeOK, ServerOK
  <2> QED BY <2>1, ServeTypes, UnchangedTypes DEF TypeOK, ServerOK, QueuesOK, FlagsOK
<1>4. CASE ServerChanges
  <2>1. /\ \E p \in Players : Announce(p)
        /\ changes < MaxChanges /\ changes' = changes + 1
        /\ UNCHANGED <<list, toServer, stateVars, timerVars, uiVars, errors, closing, clicks>>
    BY <1>4 DEF ServerChanges, Players
  <2>2. ServerOK' /\ QueuesOK' /\ foreign' = FALSE
    BY <2>1, AnnounceTypes, UnchangedTypes DEF TypeOK, ServerOK, QueuesOK
  <2>3. BoundsOK' BY <2>1, SessionAssumption DEF TypeOK, BoundsOK
  <2> QED BY <2>1, <2>2, <2>3, UnchangedTypes DEF TypeOK, FlagsOK, MirrorOK, stateVars, uiVars
<1>5. CASE OtherPlayerChanges
  <2> USE <1>5 DEF OtherPlayerChanges
  <2>1. QueuesOK'
    <3>1. PICK id \in Others : toClient' = Append(toClient, Say(id)) OBVIOUS
    <3>2. Say(id) \in Message BY SayType DEF TypeOK
    <3> QED BY <3>1, <3>2, AppendFacts DEF TypeOK, QueuesOK
  <2>2. BoundsOK' BY SessionAssumption DEF TypeOK, BoundsOK
  <2> QED BY <2>1, <2>2, UnchangedTypes DEF TypeOK, FlagsOK, MirrorOK, stateVars, uiVars
<1> QED BY <1>1, <1>2, <1>3, <1>4, <1>5 DEF Server

(* A timer that ends itself leaves at most one.                            *)
LEMMA SeekTypes ==
  ASSUME TypeOK, OneSeeker, Seek
  PROVE  TypeOK' /\ OneSeeker'
<1>1. TimersOK' /\ OneSeeker' BY DEF Seek, TypeOK, TimersOK, OneSeeker
<1>2. QueuesOK' BY DEF Seek, TypeOK, QueuesOK
<1>3. FlagsOK' /\ MirrorOK' BY DEF Seek, TypeOK, FlagsOK, MirrorOK, stateVars, uiVars
<1> QED BY <1>1, <1>2, <1>3, UnchangedTypes DEF Seek, TypeOK

(* A stuttering step keeps the types.                                      *)
LEMMA StutterTypes ==
  ASSUME TypeOK, OneSeeker, UNCHANGED vars
  PROVE  TypeOK' /\ OneSeeker'
BY UnchangedTypes DEF vars, TypeOK, FlagsOK, MirrorOK, stateVars, uiVars, QueuesOK

(* Every step keeps the types and the single timer.                        *)
LEMMA TypeStep == TypeOK /\ OneSeeker /\ [Next]_vars => TypeOK' /\ OneSeeker'
<1> SUFFICES ASSUME TypeOK, OneSeeker, [Next]_vars PROVE TypeOK' /\ OneSeeker'
  OBVIOUS
<1>1. CASE MainLoop
  BY <1>1, RequestHandlersTypes, OtherHandlersTypes DEF MainLoop
<1>2. CASE Seek BY <1>2, SeekTypes
<1>3. CASE Disconnect \/ Teardown BY <1>3, DisconnectTypes
<1>4. CASE User BY <1>4, ClickFacts, ClickTypes DEF User
<1>5. CASE Server \/ ServerChanges \/ OtherPlayerChanges BY <1>5, ServerTypes
<1>6. CASE UNCHANGED vars BY <1>6, StutterTypes
<1> QED BY <1>1, <1>2, <1>3, <1>4, <1>5, <1>6 DEF Next

-----------------------------------------------------------------------------
(* The mirror: what is under way, step by step.                            *)

(* A message leaves the queue.                                             *)
LEMMA DispatchSync ==
  ASSUME TypeOK, Synced, ~m_stopped, NEW id, Dispatch(id)
  PROVE  /\ Head(toClient) \in Message /\ Head(toClient).id = id /\ Fits(Head(toClient))
         /\ player' = player /\ m_stopped' = FALSE /\ foreign' = foreign
         /\ Snapshots(toClient', player')
         /\ ~foreign => Covered(toClient', player')
         /\ Silent(toClient') => Head(toClient).player = player
         /\ ~foreign /\ Silent(toClient') /\ id \notin Notifications
              => Silent(toClient) /\ (Agrees \/ (player # "none" /\ WillRefresh))
         /\ ~foreign /\ Silent(toClient') /\ id \in Others
              => player # "none" /\ \E q \in Properties : Answered(toClient', q)
         /\ \A q : Answered(toClient, q) /\ q # id => Answered(toClient', q)
<1>1. /\ toClient \in Seq(Message) /\ toClient # <<>> /\ toClient' = Tail(toClient)
      /\ Head(toClient).id = id /\ player \in Players
      /\ player' = player /\ m_stopped' = m_stopped /\ foreign' = foreign
  BY DEF Dispatch, serverVars, TypeOK, QueuesOK, ServerOK
<1>2. /\ Snapshots(toClient, player)
      /\ ~foreign => Caught /\ Covered(toClient, player)
  BY DEF Synced
<1>3. /\ Snapshots(toClient', player) /\ Fits(Head(toClient))
      /\ Silent(toClient') => Head(toClient).player = player
      /\ Silent(toClient') /\ id \notin Notifications => Silent(toClient)
  BY <1>1, <1>2, TailFacts
<1>4. \A q : Answered(toClient, q) /\ q # id => Answered(toClient', q)
  BY <1>1, TailKeeps
<1>5. Head(toClient) \in Message BY <1>1
<1>6. ASSUME ~foreign
      PROVE  /\ Covered(toClient', player')
             /\ id \in Others => \E j \in DOMAIN toClient' : Covers(toClient'[j], player)
  BY <1>1, <1>2, <1>6, TailCovered
<1>7. ASSUME ~foreign, Silent(toClient'), id \in Others
      PROVE  player # "none" /\ \E q \in Properties : Answered(toClient', q)
  <2>1. PICK j \in DOMAIN toClient' : Covers(toClient'[j], player) BY <1>6, <1>7
  <2>2. toClient'[j].id \notin Notifications BY <1>7, <2>1 DEF Silent
  <2> QED BY <2>1, <2>2 DEF Covers, Answered
<1> QED BY <1>1, <1>2, <1>3, <1>4, <1>5, <1>6, <1>7 DEF Caught, TypeOK, FlagsOK

(* What a handler has to show.                                             *)
LEMMA HandlerSync ==
  ASSUME TypeOK, Synced, ~m_stopped, NEW id, Dispatch(id),
         ~foreign /\ Silent(toClient') => Agrees' \/ (player' # "none" /\ WillRefresh')
  PROVE  Synced'
<1>1. /\ Snapshots(toClient', player') /\ foreign' = foreign
      /\ ~foreign => Covered(toClient', player')
  BY DispatchSync
<1>2. ASSUME ~foreign' PROVE Caught' /\ Covered(toClient', player')
  <2>1. ~foreign BY <1>1, <1>2
  <2>2. Covered(toClient', player') BY <1>1, <2>1
  <2>3. Caught' BY <2>1 DEF Caught
  <2> QED BY <2>2, <2>3
<1> QED BY <1>1, <1>2 DEF Synced

(* What another player has announced is soon put right.                    *)
LEMMA OtherSync ==
  ASSUME TypeOK, Synced, ~m_stopped, ~foreign, NEW id \in Others, Dispatch(id),
         Silent(toClient')
  PROVE  player' # "none" /\ WillRefresh'
BY DispatchSync DEF WillRefresh, Asked, Properties

(* A request joins the queue.                                              *)
LEMMA WriteSync ==
  ASSUME TypeOK, ~m_stopped, NEW t \in Seq(Queries \cup Commands), Write(t)
  PROVE  \A q : Requested(toServer, q) \/ Requested(t, q) => Requested(toServer', q)
BY ConcatKeeps DEF Write, TypeOK, QueuesOK

(* A query that is written has been asked for.                             *)
LEMMA WriteOneSync ==
  ASSUME TypeOK, ~m_stopped, NEW r \in Queries, Write(<<r>>)
  PROVE  /\ Requested(toServer', r)
         /\ \A q : Requested(toServer, q) => Requested(toServer', q)
<1>1. <<r>> \in Seq(Queries \cup Commands) OBVIOUS
<1>2. Requested(<<r>>, r) BY DEF Requested
<1> QED BY <1>1, <1>2, WriteSync

(* Handlers that leave the mirror alone: what was exact stays exact.       *)
LEMMA AgreesKept ==
  ASSUME player' = player, m_state' = m_state, seekers' = seekers
  PROVE  Agrees => Agrees'
BY DEF Agrees

(* The properties of the player of now make the mirror exact.              *)
LEMMA PropertiesSync ==
  ASSUME TypeOK, NEW m \in Message, GetProperties(m), player' = player, m.player = player,
         player = "none" => Agrees
  PROVE  Agrees'
<1>1. CASE player = "none"
  BY <1>1, AgreesKept DEF GetProperties, timerVars
<1>2. CASE player = "playing"
  <2>1. m_state' = "PLAY" /\ seekers' # {} BY <1>2 DEF GetProperties, StartSeeking
  <2> QED BY <1>2, <2>1 DEF Agrees
<1>3. CASE player = "paused"
  <2>1. m_state' = "PAUSE" BY <1>3 DEF GetProperties
  <2> QED BY <1>3, <2>1 DEF Agrees
<1> QED BY <1>1, <1>2, <1>3 DEF TypeOK, ServerOK, Players

(* The first two answers of the handshake ask for the next.                *)
LEMMA HandshakeSync ==
  ASSUME TypeOK, Synced, ~m_stopped, HandleGetActivePlayers \/ HandleConnectGetItems
  PROVE  Synced'
<1>1. CASE HandleGetActivePlayers
  <2>1. Dispatch("players") /\ Write(<<"connectItems">>) /\ seekers' = seekers
    BY <1>1 DEF HandleGetActivePlayers, timerVars
  <2>2. Requested(toServer', "connectItems") BY <2>1, WriteOneSync DEF Queries
  <2>3. ASSUME Silent(toClient'), ~foreign PROVE Agrees' \/ (player' # "none" /\ WillRefresh')
    <3>1. Head(toClient).player = player /\ player' = player
      BY <2>1, <2>3, DispatchSync
    <3>2. CASE player = "none"
      <4>0. "players" \notin Notifications BY DEF Notifications
      <4>1. Agrees BY <2>1, <2>3, <3>2, <4>0, DispatchSync
      <4>2. m_state' \in {m_state, "STOP"} BY <1>1 DEF HandleGetActivePlayers
      <4> QED BY <3>1, <3>2, <4>1, <4>2 DEF Agrees
    <3>3. CASE player # "none"
      <4>1. m_state' = "STOP" BY <1>1, <3>1, <3>3 DEF HandleGetActivePlayers
      <4> QED BY <2>2, <3>1, <3>3, <4>1 DEF WillRefresh, Asked
    <3> QED BY <3>2, <3>3
  <2> QED BY <2>1, <2>3, HandlerSync
<1>2. CASE HandleConnectGetItems
  <2>1. /\ Dispatch("connectItems") /\ m_state' = m_state /\ seekers' = seekers
        /\ IF m_state # "NOPLAYER" THEN Write(<<"connectProperties">>) ELSE toServer' = toServer
    BY <1>2 DEF HandleConnectGetItems, timerVars
  <2>2. ASSUME Silent(toClient'), ~foreign PROVE Agrees' \/ (player' # "none" /\ WillRefresh')
    <3>0. "connectItems" \notin Notifications BY DEF Notifications
    <3>1. player' = player /\ (Agrees \/ (player # "none" /\ WillRefresh))
      BY <2>1, <2>2, <3>0, DispatchSync
    <3>2. CASE Agrees BY <2>1, <3>1, <3>2, AgreesKept
    <3>3. CASE player # "none" /\ WillRefresh /\ m_state # "NOPLAYER"
      <4>1. Requested(toServer', "connectProperties")
        BY <2>1, <3>3, WriteOneSync DEF Queries
      <4> QED BY <3>1, <3>3, <4>1 DEF WillRefresh, Asked
    <3>4. CASE player # "none" /\ WillRefresh /\ m_state = "NOPLAYER"
      <4>1. toServer' = toServer BY <2>1, <3>4
      <4>2. \A q : Answered(toClient, q) /\ q # "connectItems" => Answered(toClient', q)
        BY <2>1, DispatchSync
      <4> QED BY <2>1, <3>1, <3>4, <4>1, <4>2 DEF WillRefresh, Asked
    <3> QED BY <3>1, <3>2, <3>3, <3>4
  <2> QED BY <2>1, <2>2, HandlerSync
<1> QED BY <1>1, <1>2

(* The last one brings the mirror up to date.                              *)
LEMMA PropertiesHandlersSync ==
  ASSUME TypeOK, Synced, ~m_stopped, HandleConnectProperties \/ HandleOnPlayProperties
  PROVE  Synced'
<1>1. PICK id \in {"connectProperties", "onPlayProperties"} :
        Dispatch(id) /\ GetProperties(Head(toClient))
  BY DEF HandleConnectProperties, HandleOnPlayProperties
<1>2. ASSUME Silent(toClient'), ~foreign PROVE Agrees'
  <2>1. /\ Head(toClient) \in Message /\ Head(toClient).player = player /\ player' = player
        /\ player = "none" => Agrees
    BY <1>1, <1>2, DispatchSync DEF Notifications
  <2> QED BY <1>1, <2>1, PropertiesSync
<1> QED BY <1>1, <1>2, HandlerSync

(* OnPlay starts a chain of requests that ends in the properties.          *)
LEMMA OnPlaySync ==
  ASSUME TypeOK, Synced, ~m_stopped, HandleOnPlay \/ HandleOnPlayItems
  PROVE  Synced'
<1>1. PICK id \in {"OnPlay", "OtherPlay", "onPlayItems"} :
        Dispatch(id) /\ (id = "onPlayItems" => HandleOnPlayItems)
  BY DEF HandleOnPlay, HandleOnPlayItems
<1>2. seekers' = seekers /\ (HandleOnPlayItems => m_state' = m_state)
  BY DEF HandleOnPlay, HandleOnPlayItems, timerVars
<1>3. \E q \in {"onPlayItems", "onPlayProperties"} : Write(<<q>>)
  BY DEF HandleOnPlay, HandleOnPlayItems
<1>4. WillRefresh' BY <1>3, WriteOneSync DEF WillRefresh, Asked, Queries
<1>5. ASSUME Silent(toClient'), ~foreign PROVE Agrees' \/ player' # "none"
  <2>1. CASE id = "OnPlay"
    BY <1>1, <1>5, <2>1, DispatchSync DEF Fits
  <2>2. CASE id = "onPlayItems"
    <3>1. player' = player /\ (Agrees \/ player # "none")
      BY <1>1, <1>5, <2>2, DispatchSync DEF Notifications
    <3> QED BY <1>1, <1>2, <2>2, <3>1, AgreesKept
  <2>3. CASE id = "OtherPlay"
    BY <1>1, <1>5, <2>3, OtherSync DEF Others
  <2> QED BY <2>1, <2>2, <2>3
<1> QED BY <1>1, <1>4, <1>5, HandlerSync

(* OnPause and OnStop do so at once.                                       *)
LEMMA OnPauseStopSync ==
  ASSUME TypeOK, Synced, ~m_stopped, HandleOnPause \/ HandleOnStop
  PROVE  Synced'
<1>1. CASE HandleOnPause
  <2>1. PICK id \in {"OnPause", "OtherPause"} : Dispatch(id)
    BY <1>1 DEF HandleOnPause
  <2>2. m_state' = "PAUSE" BY <1>1 DEF HandleOnPause
  <2>3. ASSUME Silent(toClient'), ~foreign PROVE Agrees' \/ (player' # "none" /\ WillRefresh')
    <3>1. CASE id = "OnPause"
      <4>1. player' = "paused" BY <2>1, <2>3, <3>1, DispatchSync DEF Fits
      <4> QED BY <2>2, <4>1 DEF Agrees
    <3>2. CASE id = "OtherPause" BY <2>1, <2>3, <3>2, OtherSync DEF Others
    <3> QED BY <3>1, <3>2
  <2> QED BY <2>1, <2>3, HandlerSync
<1>2. CASE HandleOnStop
  <2>1. PICK id \in {"OnStop", "OtherStop"} : Dispatch(id)
    BY <1>2 DEF HandleOnStop
  <2>2. m_state' = "STOP" BY <1>2 DEF HandleOnStop
  <2>3. ASSUME Silent(toClient'), ~foreign PROVE Agrees' \/ (player' # "none" /\ WillRefresh')
    <3>1. CASE id = "OnStop"
      <4>1. player' = "none" BY <2>1, <2>3, <3>1, DispatchSync DEF Fits
      <4> QED BY <2>2, <4>1 DEF Agrees
    <3>2. CASE id = "OtherStop" BY <2>1, <2>3, <3>2, OtherSync DEF Others
    <3> QED BY <3>1, <3>2
  <2> QED BY <2>1, <2>3, HandlerSync
<1> QED BY <1>1, <1>2

(* The others leave the mirror alone.                                      *)
LEMMA IdleHandlersSync ==
  ASSUME TypeOK, Synced, ~m_stopped, HandleError \/ HandleGone
  PROVE  Synced'
<1>1. PICK id \in {"error", "gone"} : Dispatch(id)
  BY DEF HandleError, HandleGone
<1>2. m_state' = m_state /\ seekers' = seekers /\ toServer' = toServer
  BY DEF HandleError, HandleGone, timerVars
<1>3. \A q \in Queries : Asked(q) => Asked(q)'
  BY <1>1, <1>2, DispatchSync DEF Asked, Queries
<1>4. WillRefresh => WillRefresh' BY <1>2, <1>3 DEF WillRefresh, Queries
<1>5. ASSUME Silent(toClient'), ~foreign PROVE Agrees' \/ (player' # "none" /\ WillRefresh')
  BY <1>1, <1>2, <1>4, <1>5, DispatchSync, AgreesKept DEF Notifications
<1> QED BY <1>1, <1>5, HandlerSync

(* Away from the main loop's handlers the mirror is never touched, but the *)
(* queues are.                                                             *)
LEMMA ClickSync ==
  ASSUME TypeOK, Synced, ~m_stopped, NEW t \in Seq(Queries \cup Commands), Click(t)
  PROVE  Synced'
<1>1. /\ player' = player /\ toClient' = toClient /\ m_stopped' = m_stopped
      /\ m_state' = m_state /\ seekers' = seekers /\ foreign' = foreign
  BY DEF Click, serverVars, stateVars, timerVars
<1>2. \A q : Requested(toServer, q) => Requested(toServer', q)
  BY WriteSync DEF Click
<1>3. WillRefresh => WillRefresh' BY <1>1, <1>2 DEF WillRefresh, Asked
<1>4. Caught => Caught' BY <1>1, <1>3, AgreesKept DEF Caught
<1> QED BY <1>1, <1>4 DEF Synced

(* A timer that ends itself belongs to no player that plays.               *)
LEMMA SeekSync ==
  ASSUME TypeOK, Synced, ~m_stopped, Seek
  PROVE  Synced'
<1>1. /\ player' = player /\ toClient' = toClient /\ toServer' = toServer
      /\ m_stopped' = m_stopped /\ m_state' = m_state /\ m_state # "PLAY"
      /\ foreign' = foreign
  BY DEF Seek, serverVars, stateVars
<1>2. Agrees => Agrees' BY <1>1 DEF Agrees, TypeOK, ServerOK, Players
<1>3. WillRefresh => WillRefresh' BY <1>1 DEF WillRefresh, Asked
<1> QED BY <1>1, <1>2, <1>3 DEF Synced, Caught

(* A notification: from now on it is what counts.                          *)
LEMMA AnnounceSync ==
  ASSUME TypeOK, Synced, ~m_stopped, NEW p \in Players, Announce(p)
  PROVE  Synced'
<1>1. PICK m \in Message : /\ toClient' = Append(toClient, m)
                           /\ m.id \in Notifications /\ Fits(m) /\ m.player = p
  BY AnnounceTypes
<1>2. player' = p BY AnnounceTypes
<1>3. Snapshots(toClient', player')
  BY <1>1, <1>2, AppendSnapshot DEF Synced, TypeOK, QueuesOK, ServerOK
<1>4. ~Silent(toClient') BY <1>1, AppendFacts DEF TypeOK, QueuesOK
<1>5. Covered(toClient', player')
  <2>1. m.id \notin Others /\ Covers(m, p) BY <1>1 DEF Notifications, Others, Covers
  <2> QED BY <1>1, <1>2, <2>1, AppendCovered DEF TypeOK, QueuesOK
<1> QED BY <1>3, <1>4, <1>5 DEF Synced, Caught

(* Another player's notification says nothing of player 1.                 *)
LEMMA OtherAnnounceSync ==
  ASSUME TypeOK, Synced, ~m_stopped, OtherPlayerChanges
  PROVE  Synced'
<1>1. PICK id \in Others : toClient' = Append(toClient, Say(id))
  BY DEF OtherPlayerChanges
<1>2. player' = player /\ foreign' = TRUE BY DEF OtherPlayerChanges, serverVars
<1>3. id \notin Notifications BY DEF Notifications, Others
<1>4. /\ Say(id) \in Message /\ Fits(Say(id)) /\ Say(id).player = player
  BY <1>3, SayType DEF TypeOK
<1>5. Snapshots(toClient', player')
  BY <1>1, <1>2, <1>4, AppendSnapshot DEF Synced, TypeOK, QueuesOK, ServerOK
<1> QED BY <1>2, <1>5 DEF Synced

(* Serving one request leaves the others asked for.                        *)
LEMMA ServeKeeps ==
  ASSUME TypeOK, NEW r, Serve(r)
  PROVE  /\ \A q : Requested(toServer, q) /\ q # r => Requested(toServer', q)
         /\ m_state' = m_state /\ seekers' = seekers /\ m_stopped' = m_stopped
<1>1. /\ toServer \in Seq(Queries \cup Commands) /\ toServer # <<>>
      /\ Head(toServer) = r /\ toServer' = Tail(toServer)
  BY DEF Serve, TypeOK, QueuesOK
<1> QED BY <1>1, TailKeeps DEF Serve, stateVars, timerVars

(* An answer: the request is under way as a message now, or was refused    *)
(* because there is no player.  The mirror is not touched.                 *)
LEMMA ReplyKeeps ==
  ASSUME TypeOK, ServeQuery \/ ServeRefused
  PROVE  /\ m_state' = m_state /\ seekers' = seekers /\ m_stopped' = m_stopped
         /\ player' = player /\ UNCHANGED uiVars
         /\ Silent(toClient') => Silent(toClient)
         /\ player # "none" /\ WillRefresh => WillRefresh'
         /\ ~foreign' => ~foreign \/ (player # "none" /\ WillRefresh')
<1>1. PICK r \in Queries \cup Commands, id \in Queries \cup {"error"} :
        /\ Serve(r) /\ UNCHANGED serverVars
        /\ toClient' = Append(toClient, Say(id))
        /\ r \in Queries => id = r \/ player = "none"
        /\ ~foreign' => ~foreign \/ (id \in Properties /\ player # "none")
  BY ReplyFacts
<1>2. Say(id) \in Message /\ Say(id).id = id BY SayType DEF TypeOK
<1>3. /\ Silent(toClient') => Silent(toClient)
      /\ \A q : Answered(toClient, q) => Answered(toClient', q)
      /\ Answered(toClient', id)
  BY <1>1, <1>2, AppendFacts DEF TypeOK, QueuesOK
<1>4. player # "none" => \A q \in Queries : Asked(q) => Asked(q)'
  <2> SUFFICES ASSUME player # "none", NEW q \in Queries, Asked(q) PROVE Asked(q)'
    OBVIOUS
  <2>1. CASE Requested(toServer, q) /\ q # r BY <1>1, <2>1, ServeKeeps DEF Asked
  <2>2. CASE q = r BY <1>1, <1>3, <2>2 DEF Asked
  <2>3. CASE Answered(toClient, q) BY <1>3, <2>3 DEF Asked
  <2> QED BY <2>1, <2>2, <2>3 DEF Asked
<1>5. /\ m_state' = m_state /\ seekers' = seekers /\ m_stopped' = m_stopped
      /\ player' = player /\ UNCHANGED uiVars
  BY <1>1, ServeKeeps DEF Serve, serverVars
<1>6. player # "none" /\ WillRefresh => WillRefresh'
  BY <1>4, <1>5 DEF WillRefresh, Queries
<1>7. id \in Properties => WillRefresh' BY <1>3 DEF WillRefresh, Asked, Properties
<1> QED BY <1>1, <1>3, <1>5, <1>6, <1>7

(* What was exact stays so, and what is under way is still covered.        *)
LEMMA ReplySync ==
  ASSUME TypeOK, Synced, ~m_stopped, ServeQuery \/ ServeRefused
  PROVE  Synced'
<1>1. PICK r \in Queries \cup Commands, id \in Queries \cup {"error"} :
        /\ Serve(r) /\ UNCHANGED serverVars
        /\ toClient' = Append(toClient, Say(id))
        /\ r \in Queries => id = r \/ player = "none"
        /\ ~foreign' => ~foreign \/ (id \in Properties /\ player # "none")
  BY ReplyFacts
<1> DEFINE m == Say(id)
<1>2. id \notin Notifications BY DEF Queries, Notifications
<1>3. m \in Message /\ m.id = id /\ m.player = player /\ Fits(m)
  BY <1>2, SayType DEF TypeOK
<1> HIDE DEF m
<1>4. toClient \in Seq(Message) /\ toClient' = Append(toClient, m) /\ player \in Players
      /\ player' = player
  BY <1>1 DEF TypeOK, QueuesOK, ServerOK, serverVars, m
<1>5. Snapshots(toClient', player')
  BY <1>3, <1>4, AppendSnapshot DEF Synced
<1>6. ASSUME ~foreign' PROVE Caught'
  BY <1>6, ReplyKeeps, AgreesKept DEF Caught, Synced
<1>7. ASSUME ~foreign' PROVE Covered(toClient', player')
  <2>1. id \notin Others BY DEF Queries, Others
  <2>2. Covers(m, player) \/ Covered(toClient, player)
    BY <1>1, <1>3, <1>7 DEF Covers, Synced
  <2> QED BY <1>3, <1>4, <2>1, <2>2, AppendCovered
<1> QED BY <1>5, <1>6, <1>7 DEF Synced

(* What is served without a word leaves the player alone.                  *)
LEMMA SilentSync ==
  ASSUME TypeOK, Synced, ~m_stopped, ServeSilently
  PROVE  Synced'
<1>1. PICK r \in Commands : Serve(r)
  BY DEF ServeSilently, Commands, PlayerCommands, RemoteCommands, PlaylistCommands
<1>2. player' = player /\ toClient' = toClient /\ foreign' = foreign BY DEF ServeSilently
<1>3. r \notin Queries BY DEF Commands, PlayerCommands, RemoteCommands, PlaylistCommands, Queries
<1>4. \A q \in Queries : Asked(q) => Asked(q)'
  BY <1>1, <1>2, <1>3, ServeKeeps DEF Asked
<1>5. /\ m_state' = m_state /\ seekers' = seekers /\ m_stopped' = m_stopped
  BY <1>1, ServeKeeps
<1>6. WillRefresh => WillRefresh' BY <1>4, <1>5 DEF WillRefresh, Queries
<1> QED BY <1>2, <1>5, <1>6, AgreesKept DEF Synced, Caught

(* Who changes the flags of disconnect().                                  *)
LEMMA StoppedStep ==
  ASSUME TypeOK, [Next]_vars
  PROVE  \/ Disconnect /\ m_stopped' /\ closing'
         \/ m_stopped' = m_stopped /\ (closing' = closing \/ closing' = FALSE)
<1>1. CASE MainLoop
  BY <1>1, DispatchTypes
  DEF MainLoop, HandleGetActivePlayers, HandleConnectGetItems, HandleConnectProperties,
      HandleOnPlay, HandleOnPlayItems, HandleOnPlayProperties, HandleOnPause,
      HandleOnStop, HandleError, HandleGone
<1>2. CASE Seek \/ UNCHANGED vars BY <1>2 DEF Seek, vars, stateVars
<1>3. CASE Disconnect \/ Teardown BY <1>3 DEF Disconnect, Teardown, stateVars
<1>4. CASE User
  BY <1>4 DEF User, ClickPlayer, ClickRemote, ClickClear, OpenFile, Click, stateVars
<1>5. CASE Server \/ ServerChanges \/ OtherPlayerChanges
  BY <1>5
  DEF OtherPlayerChanges, Server, ServeQuery, ServePlayer, ServeRefused, ServeSilently, Serve, ServerChanges,
      stateVars
<1> QED BY <1>1, <1>2, <1>3, <1>4, <1>5 DEF Next

(* No step clears m_stopped.                                               *)
LEMMA ClosingStep == TypeOK /\ ClosingStopped /\ [Next]_vars => ClosingStopped'
BY StoppedStep DEF ClosingStopped, TypeOK, FlagsOK

(* Every step keeps the mirror exact or its refresh under way.             *)
LEMMA SyncStep == TypeOK /\ ClosingStopped /\ Synced /\ [Next]_vars => Synced'
<1> SUFFICES ASSUME TypeOK, ClosingStopped, Synced, [Next]_vars PROVE Synced'
  OBVIOUS
<1>1. CASE m_stopped BY <1>1, StoppedStep DEF Synced
<1>2. CASE ~m_stopped
  <2>1. CASE MainLoop
    BY <1>2, <2>1, HandshakeSync, PropertiesHandlersSync, OnPlaySync, OnPauseStopSync,
       IdleHandlersSync DEF MainLoop
  <2>2. CASE Seek BY <1>2, <2>2, SeekSync
  <2>3. CASE Disconnect BY <2>3 DEF Disconnect, Synced
  <2>9. CASE Teardown BY <1>2, <2>9 DEF Teardown, ClosingStopped
  <2>4. CASE User BY <1>2, <2>4, ClickFacts, ClickSync DEF User
  <2>5. CASE ServerChanges \/ ServePlayer
    <3>1. \E p \in Players : Announce(p)
      BY <2>5 DEF ServerChanges, ServePlayer, Players
    <3> QED BY <1>2, <3>1, AnnounceSync
  <2>6. CASE ServeQuery \/ ServeRefused BY <1>2, <2>6, ReplySync
  <2>10. CASE OtherPlayerChanges BY <1>2, <2>10, OtherAnnounceSync
  <2>7. CASE ServeSilently BY <1>2, <2>7, SilentSync
  <2>8. CASE UNCHANGED vars
    BY <2>8 DEF vars, serverVars, stateVars, timerVars, Synced, Snapshots, Silent, Caught, Agrees,
       WillRefresh, Asked, Requested, Answered, Fits, Covered, Covers
  <2> QED BY <2>1, <2>2, <2>3, <2>4, <2>5, <2>6, <2>7, <2>8, <2>9, <2>10 DEF Next, Server
<1> QED BY <1>1, <1>2

-----------------------------------------------------------------------------
(* The handshake's first request is under way.                             *)
LEMMA InitIInv == Init => IInv
<1> SUFFICES ASSUME Init PROVE IInv
  OBVIOUS
<1>1. <<"players">> \in Seq(Queries \cup Commands) /\ <<>> \in Seq(Message)
  BY DEF Queries
<1>2. TypeOK
  <2>1. ServerOK /\ QueuesOK BY <1>1 DEF Init, ServerOK, QueuesOK
  <2>2. FlagsOK BY DEF Init, FlagsOK
  <2>3. MirrorOK BY SessionAssumption DEF Init, MirrorOK, States
  <2>4. TimersOK BY DEF Init, TimersOK
  <2>5. BoundsOK BY SessionAssumption DEF Init, BoundsOK
  <2> QED BY <2>1, <2>2, <2>3, <2>4, <2>5 DEF TypeOK
<1>3. Requested(toServer, "players") BY DEF Init, Requested
<1>4. DOMAIN toClient = {} BY DEF Init
<1>5. Snapshots(toClient, player) BY <1>4 DEF Snapshots
<1>6. player = "none" => Agrees BY DEF Init, Agrees
<1>7. Caught BY <1>3, <1>6 DEF Caught, WillRefresh, Asked
<1>8. Covered(toClient, player) BY <1>4 DEF Covered
<1> QED BY <1>2, <1>5, <1>7, <1>8 DEF IInv, OneSeeker, ClosingStopped, Synced, Init

(* The invariant holds in every reachable state.                           *)
LEMMA Inductive == Spec => []IInv
<1>1. IInv /\ [Next]_vars => IInv'
  BY TypeStep, ClosingStep, SyncStep DEF IInv
<1> QED BY InitIInv, <1>1, PTL DEF Spec

(* The session's state, its queues and its window keep their types.        *)
THEOREM TypeCorrect == Spec => []TypeOK
<1>1. IInv => TypeOK BY DEF IInv
<1> QED BY Inductive, <1>1, PTL

(* handle_get_properties never leaves an older auto-seek timer running     *)
(* beside the new one.                                                     *)
THEOREM SeekTimerUnique == Spec => []OneSeekTimer
<1>1. IInv => OneSeekTimer
  <2> SUFFICES ASSUME IInv PROVE Cardinality(seekers) <= 1
    BY DEF OneSeekTimer
  <2>1. seekers = {} \/ seekers = {m_autoSeekConnection} BY DEF IInv, OneSeeker
  <2>2. Cardinality({}) = 0 BY FS_EmptySet
  <2>3. Cardinality({m_autoSeekConnection}) = 1 BY FS_Singleton
  <2> QED BY <2>1, <2>2, <2>3
<1> QED BY Inductive, <1>1, PTL

(* However handshake, notifications and the user's requests interleave,    *)
(* m_state is the server's player and the progress bar runs when it plays, *)
(* once nothing is under way.                                              *)
THEOREM MirrorExact == Spec => []InSync
<1>1. IInv => InSync
  <2> SUFFICES ASSUME IInv, ~m_stopped, ~foreign, toServer = <<>>, toClient = <<>> PROVE Agrees
    BY DEF InSync, Quiet
  <2>1. DOMAIN toClient = {} /\ DOMAIN toServer = {} OBVIOUS
  <2>2. Silent(toClient) BY <2>1 DEF Silent
  <2>3. ~WillRefresh BY <2>1 DEF WillRefresh, Asked, Requested, Answered
  <2> QED BY <2>2, <2>3 DEF IInv, Synced, Caught
<1> QED BY Inductive, <1>1, PTL
-----------------------------------------------------------------------------
(* The window: what set_playpause_dependent_widgets shows is the mirror's  *)
(* state, or a refresh is under way, as with the mirror itself.            *)
ShowsState ==
  /\ buttons <=> m_state \in {"PLAY", "PAUSE"}
  /\ image = "pause" <=> m_state = "PLAY"

WindowCaught == Silent(toClient) => ShowsState \/ (player # "none" /\ WillRefresh)

WindowSynced == ~m_stopped /\ ~foreign => WindowCaught

(* A handler that touches neither the window nor the state.                *)
LEMMA ShownKept ==
  ASSUME m_state' = m_state, UNCHANGED uiVars
  PROVE  ShowsState => ShowsState'
BY DEF ShowsState, uiVars

(* refresh_player makes the window show the state.                         *)
LEMMA RefreshShows ==
  ASSUME RefreshPlayer
  PROVE  ShowsState'
BY DEF RefreshPlayer, SetPlayPauseWidgets, ShowsState

(* What a handler of no notification finds.                                *)
LEMMA DispatchWindow ==
  ASSUME TypeOK, Synced, WindowSynced, ~m_stopped, ~foreign,
         NEW id, id \notin Notifications, Dispatch(id), Silent(toClient')
  PROVE  /\ Agrees \/ (player # "none" /\ WillRefresh)
         /\ ShowsState \/ (player # "none" /\ WillRefresh)
<1>1. Silent(toClient) /\ (Agrees \/ (player # "none" /\ WillRefresh)) BY DispatchSync
<1> QED BY <1>1 DEF WindowSynced, WindowCaught

(* What it has to leave.                                                   *)
LEMMA HandlerWindow ==
  ASSUME TypeOK, Synced, ~m_stopped, NEW id, Dispatch(id),
         ~foreign /\ Silent(toClient') => ShowsState' \/ (player' # "none" /\ WillRefresh')
  PROVE  WindowSynced'
<1>1. foreign' = foreign BY DispatchSync
<1> QED BY <1>1 DEF WindowSynced, WindowCaught

(* The handshake sets the state to STOP beside the window: what it showed  *)
(* of no player it goes on showing, and a player's properties will follow. *)
LEMMA HandshakeWindow ==
  ASSUME TypeOK, Synced, WindowSynced, ~m_stopped,
         HandleGetActivePlayers \/ HandleConnectGetItems
  PROVE  WindowSynced'
<1>1. CASE HandleGetActivePlayers
  <2>1. Dispatch("players") /\ Write(<<"connectItems">>) /\ UNCHANGED uiVars
    BY <1>1 DEF HandleGetActivePlayers
  <2>2. Requested(toServer', "connectItems") BY <2>1, WriteOneSync DEF Queries
  <2>3. ASSUME Silent(toClient'), ~foreign
        PROVE  ShowsState' \/ (player' # "none" /\ WillRefresh')
    <3>1. Head(toClient).player = player /\ player' = player
      BY <2>1, <2>3, DispatchSync
    <3>2. CASE player = "none"
      <4>0. "players" \notin Notifications BY DEF Notifications
      <4>1. Agrees /\ ShowsState BY <2>1, <2>3, <3>2, <4>0, DispatchWindow
      <4>2. m_state \in {"STOP", "NOPLAYER"} BY <3>2, <4>1 DEF Agrees
      <4>3. m_state' \in {m_state, "STOP"} BY <1>1 DEF HandleGetActivePlayers
      <4> QED BY <2>1, <4>1, <4>2, <4>3 DEF ShowsState, uiVars
    <3>3. CASE player # "none"
      <4>1. m_state' = "STOP" BY <1>1, <3>1, <3>3 DEF HandleGetActivePlayers
      <4> QED BY <2>2, <3>1, <3>3, <4>1 DEF WillRefresh, Asked
    <3> QED BY <3>2, <3>3
  <2> QED BY <2>1, <2>3, HandlerWindow
<1>2. CASE HandleConnectGetItems
  <2>1. Dispatch("connectItems") /\ m_state' = m_state
    BY <1>2 DEF HandleConnectGetItems
  <2>2. ASSUME Silent(toClient'), ~foreign
        PROVE  ShowsState' \/ (player' # "none" /\ WillRefresh')
    <3>1. CASE m_state = "NOPLAYER"
      BY <1>2, <3>1, RefreshShows DEF HandleConnectGetItems, Connected
    <3>2. CASE m_state # "NOPLAYER"
      <4>1. Write(<<"connectProperties">>) /\ UNCHANGED uiVars
        BY <1>2, <3>2 DEF HandleConnectGetItems
      <4>2. WillRefresh' BY <4>1, WriteOneSync DEF WillRefresh, Asked, Queries
      <4>3. "connectItems" \notin Notifications BY DEF Notifications
      <4>4. player' = player /\ (ShowsState \/ player # "none")
        BY <2>1, <2>2, <4>3, DispatchSync, DispatchWindow
      <4> QED BY <2>1, <4>1, <4>2, <4>4, ShownKept
    <3> QED BY <3>1, <3>2
  <2> QED BY <2>1, <2>2, HandlerWindow
<1> QED BY <1>1, <1>2

(* OnPlay leaves the window to the refresh it has asked for.               *)
LEMMA OnPlayWindow ==
  ASSUME TypeOK, Synced, WindowSynced, ~m_stopped, HandleOnPlay \/ HandleOnPlayItems
  PROVE  WindowSynced'
<1>1. PICK id \in {"OnPlay", "OtherPlay", "onPlayItems"} :
        Dispatch(id) /\ (id = "onPlayItems" => HandleOnPlayItems)
  BY DEF HandleOnPlay, HandleOnPlayItems
<1>2. UNCHANGED uiVars /\ (HandleOnPlayItems => m_state' = m_state)
  BY DEF HandleOnPlay, HandleOnPlayItems
<1>3. \E q \in {"onPlayItems", "onPlayProperties"} : Write(<<q>>)
  BY DEF HandleOnPlay, HandleOnPlayItems
<1>4. WillRefresh' BY <1>3, WriteOneSync DEF WillRefresh, Asked, Queries
<1>5. ASSUME Silent(toClient'), ~foreign PROVE ShowsState' \/ player' # "none"
  <2>1. CASE id = "OnPlay"
    BY <1>1, <1>5, <2>1, DispatchSync DEF Fits
  <2>2. CASE id = "onPlayItems"
    <3>1. player' = player /\ (ShowsState \/ player # "none")
      BY <1>1, <1>5, <2>2, DispatchSync, DispatchWindow DEF Notifications
    <3> QED BY <1>1, <1>2, <2>2, <3>1, ShownKept
  <2>3. CASE id = "OtherPlay"
    BY <1>1, <1>5, <2>3, OtherSync DEF Others
  <2> QED BY <2>1, <2>2, <2>3
<1> QED BY <1>1, <1>4, <1>5, HandlerWindow

(* The handlers that end in refresh_player, or set the widgets themselves. *)
LEMMA RefreshingWindow ==
  ASSUME TypeOK, Synced, ~m_stopped,
         \/ HandleConnectProperties \/ HandleOnPlayProperties
         \/ HandleOnPause \/ HandleOnStop \/ HandleGone
  PROVE  WindowSynced'
<1>1. \E id : Dispatch(id)
  BY DEF HandleConnectProperties, HandleOnPlayProperties, HandleOnPause, HandleOnStop, HandleGone
<1>2. CASE HandleConnectProperties \/ HandleOnPlayProperties \/ HandleOnStop
  BY <1>1, <1>2, RefreshShows, HandlerWindow
  DEF HandleConnectProperties, HandleOnPlayProperties, HandleOnStop, Connected
<1>3. CASE HandleOnPause \/ HandleGone
  <2>1. ShowsState' BY <1>3 DEF HandleOnPause, HandleGone, SetPlayPauseWidgets, ShowsState
  <2> QED BY <1>1, <2>1, HandlerWindow
<1> QED BY <1>2, <1>3

(* A refusal leaves everything as it was.                                  *)
LEMMA ErrorWindow ==
  ASSUME TypeOK, Synced, WindowSynced, ~m_stopped, HandleError
  PROVE  WindowSynced'
<1>1. Dispatch("error") /\ m_state' = m_state /\ toServer' = toServer /\ UNCHANGED uiVars
  BY DEF HandleError
<1>2. \A q \in Queries : Asked(q) => Asked(q)'
  BY <1>1, DispatchSync DEF Asked, Queries
<1>3. WillRefresh => WillRefresh' BY <1>1, <1>2 DEF WillRefresh, Queries
<1>4. ASSUME Silent(toClient'), ~foreign
      PROVE  ShowsState' \/ (player' # "none" /\ WillRefresh')
  <2>1. "error" \notin Notifications BY DEF Notifications
  <2>2. player' = player /\ (ShowsState \/ (player # "none" /\ WillRefresh))
    BY <1>1, <1>4, <2>1, DispatchSync, DispatchWindow
  <2> QED BY <1>1, <1>3, <2>2, ShownKept
<1> QED BY <1>1, <1>4, HandlerWindow

(* Away from the handlers the window is not touched, and a refresh that is *)
(* under way stays so.                                                     *)
LEMMA AsideWindow ==
  ASSUME WindowSynced, m_stopped' = m_stopped, player' = player, foreign' = foreign,
         m_state' = m_state, UNCHANGED uiVars,
         Silent(toClient') => Silent(toClient),
         player # "none" /\ WillRefresh => WillRefresh'
  PROVE  WindowSynced'
BY ShownKept DEF WindowSynced, WindowCaught

(* Clicks, the timer and the playlist's requests are such steps.           *)
LEMMA QuietStepsWindow ==
  ASSUME TypeOK, WindowSynced, ~m_stopped, User \/ Seek \/ ServeSilently
  PROVE  WindowSynced'
<1>1. CASE User
  <2>1. PICK t \in Seq(Queries \cup Commands) : Click(t) BY <1>1, ClickFacts DEF User
  <2>2. /\ player' = player /\ toClient' = toClient /\ m_stopped' = m_stopped
        /\ m_state' = m_state /\ foreign' = foreign /\ UNCHANGED uiVars
    BY <2>1 DEF Click, serverVars, stateVars
  <2>3. \A q : Requested(toServer, q) => Requested(toServer', q)
    BY <2>1, WriteSync DEF Click
  <2>4. WillRefresh => WillRefresh' BY <2>2, <2>3 DEF WillRefresh, Asked
  <2> QED BY <2>2, <2>4, AsideWindow
<1>2. CASE Seek
  <2>1. /\ player' = player /\ toClient' = toClient /\ toServer' = toServer
        /\ m_stopped' = m_stopped /\ m_state' = m_state /\ foreign' = foreign
        /\ UNCHANGED uiVars
    BY <1>2 DEF Seek, serverVars, stateVars
  <2>2. WillRefresh => WillRefresh' BY <2>1 DEF WillRefresh, Asked
  <2> QED BY <2>1, <2>2, AsideWindow
<1>3. CASE ServeSilently
  <2>1. PICK r \in Commands : Serve(r)
    BY <1>3 DEF ServeSilently, Commands, PlayerCommands, RemoteCommands, PlaylistCommands
  <2>2. /\ player' = player /\ toClient' = toClient /\ foreign' = foreign /\ UNCHANGED uiVars
    BY <1>3, <2>1 DEF ServeSilently, Serve
  <2>3. r \notin Queries BY DEF Commands, PlayerCommands, RemoteCommands, PlaylistCommands, Queries
  <2>4. \A q \in Queries : Asked(q) => Asked(q)'
    BY <2>1, <2>2, <2>3, ServeKeeps DEF Asked
  <2>5. m_state' = m_state /\ m_stopped' = m_stopped BY <2>1, ServeKeeps
  <2>6. WillRefresh => WillRefresh' BY <2>4, <2>5 DEF WillRefresh, Queries
  <2> QED BY <2>2, <2>5, <2>6, AsideWindow
<1> QED BY <1>1, <1>2, <1>3

(* So is an answer; the properties of player 1, once said, will refresh    *)
(* the window whatever another player had announced.                       *)
LEMMA ReplyWindow ==
  ASSUME TypeOK, WindowSynced, ~m_stopped, ServeQuery \/ ServeRefused
  PROVE  WindowSynced'
<1>1. /\ m_state' = m_state /\ m_stopped' = m_stopped /\ player' = player /\ UNCHANGED uiVars
      /\ Silent(toClient') => Silent(toClient)
      /\ player # "none" /\ WillRefresh => WillRefresh'
      /\ ~foreign' => ~foreign \/ (player # "none" /\ WillRefresh')
  BY ReplyKeeps
<1> QED BY <1>1, ShownKept DEF WindowSynced, WindowCaught

(* Every step keeps the window exact or its refresh under way.             *)
LEMMA WindowStep == IInv /\ WindowSynced /\ [Next]_vars => WindowSynced'
<1> SUFFICES ASSUME IInv, WindowSynced, [Next]_vars PROVE WindowSynced'
  OBVIOUS
<1>0. TypeOK /\ Synced /\ ClosingStopped BY DEF IInv
<1>1. CASE m_stopped BY <1>0, <1>1, StoppedStep DEF WindowSynced
<1>2. CASE ~m_stopped
  <2>1. CASE MainLoop
    BY <1>0, <1>2, <2>1, HandshakeWindow, OnPlayWindow, RefreshingWindow, ErrorWindow DEF MainLoop
  <2>2. CASE Disconnect BY <2>2 DEF Disconnect, WindowSynced
  <2>3. CASE Teardown BY <1>0, <1>2, <2>3 DEF Teardown, ClosingStopped
  <2>4. CASE User \/ Seek \/ ServeSilently BY <1>0, <1>2, <2>4, QuietStepsWindow
  <2>5. CASE ServeQuery \/ ServeRefused BY <1>0, <1>2, <2>5, ReplyWindow
  <2>6. CASE ServerChanges \/ ServePlayer
    <3>1. PICK p \in Players : Announce(p)
      BY <2>6 DEF ServerChanges, ServePlayer, Players
    <3>2. ~Silent(toClient')
      <4>1. PICK m \in Message : toClient' = Append(toClient, m) /\ m.id \in Notifications
        BY <1>0, <3>1, AnnounceTypes
      <4> QED BY <1>0, <4>1, AppendFacts DEF TypeOK, QueuesOK
    <3> QED BY <3>2 DEF WindowSynced, WindowCaught
  <2>7. CASE OtherPlayerChanges BY <2>7 DEF OtherPlayerChanges, WindowSynced
  <2>8. CASE UNCHANGED vars
    BY <2>8 DEF vars, serverVars, stateVars, uiVars, WindowSynced, WindowCaught, ShowsState,
       Silent, WillRefresh, Asked, Requested, Answered
  <2> QED BY <2>1, <2>2, <2>3, <2>4, <2>5, <2>6, <2>7, <2>8 DEF Next, Server
<1> QED BY <1>1, <1>2

(* Once nothing is under way the buttons are sensitive for a player that   *)
(* plays or pauses, and the play/pause button shows what it would do,      *)
(* although handlers set m_state without telling the window.               *)
THEOREM WindowFollows == Spec => []ShownInSync
<1>1. Init => WindowSynced
  BY DEF Init, WindowSynced, WindowCaught, ShowsState
<1>2. IInv /\ WindowSynced /\ [Next]_vars => WindowSynced' BY WindowStep
<1>3. WindowSynced => ShownInSync
  <2> SUFFICES ASSUME WindowSynced, ~m_stopped, ~foreign, toServer = <<>>, toClient = <<>>
               PROVE  ShowsState
    BY DEF ShownInSync, Quiet, ShowsState
  <2>1. DOMAIN toClient = {} /\ DOMAIN toServer = {} OBVIOUS
  <2>2. Silent(toClient) BY <2>1 DEF Silent
  <2>3. ~WillRefresh BY <2>1 DEF WillRefresh, Asked, Requested, Answered
  <2> QED BY <2>2, <2>3 DEF WindowSynced, WindowCaught
<1> QED BY <1>1, <1>2, <1>3, Inductive, PTL DEF Spec
=============================================================================
