--------------------------- MODULE Heartbeat_proofs ---------------------------
(***************************************************************************)
(* Heartbeat for all durations, delays and numbers of endpoints.  The      *)
(* invariant says how long ago the server was heard of in each part of the *)
(* ping cycle, which is what m_deadline is measured against.               *)
(***************************************************************************)
EXTENDS Heartbeat, SequenceTheorems, TLAPS

Attempting == phase \in {"connecting", "established", "failed"}

(* What an endpoint may take.                                              *)
PerEndpoint == CONNECT_TIMEOUT + MaxLag + MaxLag

(* No timer and no completion waits longer than MaxLag.                    *)
Lags ==
  /\ armed => deadline >= -MaxLag
  /\ CompletionWaits => waiting <= MaxLag

(* The deadline measures an attempt from its async_connect, a connection   *)
(* from its last start_read.                                               *)
DeadlineMeasures ==
  /\ phase = "connecting" => armed /\ open /\ deadline = CONNECT_TIMEOUT - attempt
  /\ phase \in {"established", "failed"} => attempt <= CONNECT_TIMEOUT + MaxLag + waiting
  /\ Reading => armed /\ open /\ deadline = PING_TIMEOUT - silence

(* Each endpoint before this one had its share of the time.                *)
TimeSpent ==
  /\ Attempting => connecting <= (endpoint - 1) * PerEndpoint + attempt
  /\ ~Attempting => connecting <= endpoint * PerEndpoint

(* The three parts of the ping cycle.                                      *)
WaitingToPing ==
  /\ beating /\ Len(pings) = 0 /\ Len(pongs) = 0
  /\ heartbeat >= -MaxLag
  /\ silence <= MaxLag + (PING_INTERVAL - heartbeat)
WaitingForPong ==
  /\ ~beating /\ Len(pings) = 1 /\ Len(pongs) = 0
  /\ alive => /\ pings[1] <= MaxDelay
              /\ silence <= MaxLag + PING_INTERVAL + MaxLag + pings[1]
PongWaits ==
  /\ ~beating /\ Len(pings) = 0 /\ Len(pongs) = 1
  /\ pongs[1] <= MaxLag /\ silence <= pongs[1]

Cycle ==
  /\ Attempting => ~beating /\ Len(pings) = 0 /\ Len(pongs) = 0
  /\ Reading => WaitingToPing \/ WaitingForPong \/ PongWaits

IInv == TypeOK /\ Lags /\ DeadlineMeasures /\ TimeSpent /\ Cycle

-----------------------------------------------------------------------------
(* What the queues of pings and pongs do.                                  *)
LEMMA QueueFacts ==
  ASSUME NEW s \in Seq(Nat)
  PROVE  /\ Len(s) \in Nat
         /\ Append(s, 0) \in Seq(Nat) /\ Len(Append(s, 0)) = Len(s) + 1
         /\ Len(s) = 0 => Append(s, 0)[1] = 0
         /\ s # <<>> => Tail(s) \in Seq(Nat) /\ Len(Tail(s)) = Len(s) - 1 /\ Len(s) > 0
         /\ DOMAIN s = 1..Len(s)
OBVIOUS

(* Growing older keeps what waits in its place.                            *)
LEMMA OlderFacts ==
  ASSUME NEW s \in Seq(Nat)
  PROVE  /\ Older(s) \in Seq(Nat) /\ Len(Older(s)) = Len(s)
         /\ \A i \in 1..Len(s) : Older(s)[i] = s[i] + 1
<1>1. Len(s) \in Nat /\ DOMAIN s = 1..Len(s) /\ \A i \in 1..Len(s) : s[i] \in Nat
  OBVIOUS
<1>2. Older(s) = [i \in 1..Len(s) |-> s[i] + 1] BY <1>1 DEF Older
<1>3. Older(s) \in [1..Len(s) -> Nat] BY <1>1, <1>2
<1> QED BY <1>1, <1>2, <1>3

(* One endpoint more is one share of the time more.                        *)
LEMMA Share ==
  ASSUME NEW e \in Int
  PROVE  /\ PerEndpoint \in Int
         /\ (e - 1) * PerEndpoint \in Int /\ e * PerEndpoint \in Int
         /\ (e - 1) * PerEndpoint + PerEndpoint = e * PerEndpoint
         /\ ((e + 1) - 1) * PerEndpoint = e * PerEndpoint
<1>1. PerEndpoint \in Int BY HeartbeatAssumption DEF PerEndpoint
<1> QED BY <1>1

(* What waits alone has an age.                                            *)
LEMMA AgeFact == ASSUME NEW s \in Seq(Nat), Len(s) = 1 PROVE s[1] \in Nat /\ s # <<>>
<1>1. 1 \in 1..Len(s) OBVIOUS
<1>2. s[1] \in Nat BY <1>1, ElementOfSeq
<1>3. s # <<>>
  <2>1. Len(<<>>) = 0 BY EmptySeq
  <2>2. 0 # 1 OBVIOUS
  <2> QED BY <2>1, <2>2, Zenon
<1> QED BY <1>2, <1>3

(* At the start the first attempt is under way.                            *)
LEMMA InitIInv == Init => IInv
<1> SUFFICES ASSUME Init PROVE IInv
  OBVIOUS
<1>1. <<>> \in Seq(Nat) /\ Len(<<>>) = 0 OBVIOUS
<1>5. TypeOK
  <2>1. 1 \in 1..Endpoints /\ CONNECT_TIMEOUT \in Int /\ 0 \in Int /\ 0 \in Nat
    BY HeartbeatAssumption
  <2> QED BY <1>1, <2>1 DEF Init, TypeOK
<1>6. CONNECT_TIMEOUT >= -MaxLag /\ CONNECT_TIMEOUT = CONNECT_TIMEOUT - 0
  BY HeartbeatAssumption
<1>2. TypeOK /\ Lags /\ DeadlineMeasures
  BY <1>5, <1>6 DEF Init, Lags, DeadlineMeasures, CompletionWaits, Reading
<1>3. TimeSpent
  BY Share, HeartbeatAssumption DEF Init, TimeSpent, Attempting
<1>4. Cycle BY <1>1 DEF Init, Cycle, Attempting, Reading
<1> QED BY <1>2, <1>3, <1>4 DEF IInv

(* An attempt whose completion waits has used up no more than its share.   *)
LEMMA AttemptEnds ==
  ASSUME IInv, phase \in {"established", "failed"}
  PROVE  /\ attempt <= PerEndpoint
         /\ connecting <= endpoint * PerEndpoint
<1>1. attempt <= PerEndpoint
  BY HeartbeatAssumption
     DEF IInv, TypeOK, Lags, DeadlineMeasures, CompletionWaits, PerEndpoint
<1>2. connecting <= (endpoint - 1) * PerEndpoint + attempt
  BY DEF IInv, TimeSpent, Attempting
<1>3. attempt \in Int /\ connecting \in Int /\ endpoint \in Int
  BY DEF IInv, TypeOK
<1> QED BY <1>1, <1>2, <1>3, Share

(* A connection given up, or an attempt after the last one, leaves nothing *)
(* to be kept but the time that was spent.                                 *)
LEMMA StopIInv ==
  ASSUME IInv, Stop, phase # "connecting"
  PROVE  IInv'
<1>1. TypeOK' /\ Lags' /\ DeadlineMeasures' /\ Cycle'
  BY DEF IInv, Stop, TypeOK, Lags, DeadlineMeasures, Cycle, CompletionWaits, Reading,
         Attempting, cycleVars, clockVars
<1>2. TimeSpent'
  <2>1. connecting <= endpoint * PerEndpoint
    BY AttemptEnds DEF IInv, TypeOK, TimeSpent, Attempting
  <2> QED BY <2>1 DEF Stop, TimeSpent, Attempting, clockVars, PerEndpoint
<1> QED BY <1>1, <1>2 DEF IInv

(* handle_connect: the deadline measures silence from here on, and the     *)
(* first ping is sent.                                                     *)
LEMMA HandleConnectedIInv == ASSUME IInv, HandleConnected PROVE IInv'
<1>1. /\ pings \in Seq(Nat) /\ Len(pings) = 0 /\ Len(pongs) = 0 /\ ~beating
      /\ endpoint \in 1..Endpoints
  BY DEF IInv, TypeOK, Cycle, Attempting, HandleConnected
<1>2. pings' \in Seq(Nat) /\ Len(pings') = 1 /\ pings'[1] = 0
  BY <1>1, QueueFacts DEF HandleConnected
<1>3. TypeOK' /\ Lags' /\ DeadlineMeasures'
  BY <1>2, HeartbeatAssumption
     DEF IInv, HandleConnected, StartRead, Expire, TypeOK, Lags, DeadlineMeasures,
         CompletionWaits, Reading
<1>4. TimeSpent'
  <2>1. endpoint * PerEndpoint >= 0
    BY <1>1, HeartbeatAssumption DEF PerEndpoint
  <2> QED BY <2>1 DEF HandleConnected, TimeSpent, Attempting, PerEndpoint
<1>5. WaitingForPong'
  BY <1>1, <1>2, HeartbeatAssumption DEF HandleConnected, StartRead, WaitingForPong
<1>6. Cycle' BY <1>5 DEF HandleConnected, Cycle, Attempting
<1> QED BY <1>3, <1>4, <1>6 DEF IInv

(* connect(++endpoint_iter): the endpoint given up has had its share.      *)
LEMMA HandleConnectFailedIInv == ASSUME IInv, HandleConnectFailed PROVE IInv'
<1>1. phase \in {"established", "failed"} BY DEF HandleConnectFailed
<1>2. CASE Stop BY <1>1, <1>2, StopIInv
<1>3. CASE /\ endpoint < Endpoints /\ Attempt(endpoint + 1)
           /\ UNCHANGED <<heartbeat, beating, cycleVars, waiting, alive, connecting, silence>>
  <2>1. TypeOK' /\ Lags' /\ DeadlineMeasures' /\ Cycle'
    BY <1>1, <1>3, HeartbeatAssumption
       DEF IInv, Attempt, Expire, TypeOK, Lags, DeadlineMeasures, Cycle, CompletionWaits,
           Reading, Attempting, cycleVars
  <2>2. TimeSpent'
    <3>1. connecting <= endpoint * PerEndpoint BY <1>1, AttemptEnds
    <3>2. endpoint' = endpoint + 1 /\ attempt' = 0 /\ connecting' = connecting
          /\ phase' = "connecting"
      BY <1>3 DEF Attempt
    <3>3. endpoint \in Int /\ connecting \in Int BY DEF IInv, TypeOK
    <3> QED BY <3>1, <3>2, <3>3, Share DEF TimeSpent, Attempting, PerEndpoint
  <2> QED BY <2>1, <2>2 DEF IInv
<1> QED BY <1>2, <1>3 DEF HandleConnectFailed

(* Whatever is read, the silence ends; a pong goes to the main loop.       *)
LEMMA ReadIInv == ASSUME IInv, ReadPong \/ ReadOther PROVE IInv'
<1>1. Reading /\ phase' = phase /\ endpoint' = endpoint /\ connecting' = connecting
      /\ attempt' = attempt /\ beating' = beating /\ heartbeat' = heartbeat
      /\ waiting' = waiting /\ open' = open /\ alive /\ alive' = alive /\ StartRead
  BY DEF ReadPong, ReadOther
<1>2. /\ pings \in Seq(Nat) /\ pongs \in Seq(Nat)
      /\ WaitingToPing \/ WaitingForPong \/ PongWaits
  BY <1>1 DEF IInv, TypeOK, Cycle
<1>3. pings' \in Seq(Nat) /\ pongs' \in Seq(Nat) /\ (WaitingToPing \/ WaitingForPong \/ PongWaits)'
  <2>1. CASE ReadOther
    BY <1>1, <1>2, <2>1, HeartbeatAssumption
       DEF IInv, TypeOK, ReadOther, StartRead, cycleVars, WaitingToPing, WaitingForPong, PongWaits
  <2>2. CASE ReadPong
    <3>1. WaitingForPong
      BY <1>2, <2>2, QueueFacts DEF ReadPong, WaitingToPing, PongWaits
    <3>2. /\ pings' \in Seq(Nat) /\ Len(pings') = 0
          /\ pongs' \in Seq(Nat) /\ Len(pongs') = 1 /\ pongs'[1] = 0
      BY <1>2, <2>2, <3>1, QueueFacts DEF ReadPong, WaitingForPong
    <3>3. PongWaits'
      BY <1>1, <3>1, <3>2, HeartbeatAssumption DEF WaitingForPong, PongWaits, StartRead
    <3> QED BY <3>2, <3>3
  <2> QED BY <2>1, <2>2
<1>4. TypeOK' /\ Lags' /\ DeadlineMeasures'
  BY <1>1, <1>3, HeartbeatAssumption
     DEF IInv, StartRead, Expire, TypeOK, Lags, DeadlineMeasures, CompletionWaits, Reading
<1>5. TimeSpent' BY <1>1 DEF IInv, TimeSpent, Attempting, PerEndpoint
<1>6. Cycle' BY <1>1, <1>3 DEF Cycle, Attempting, Reading
<1> QED BY <1>4, <1>5, <1>6 DEF IInv

(* The timer has run out: a ping takes its place.                          *)
LEMMA StartPingIInv == ASSUME IInv, StartPing PROVE IInv'
<1>1. CASE phase = "aborted" /\ Stop BY <1>1, StopIInv
<1>2. CASE ~(phase = "aborted" /\ Stop)
  <2>1. /\ Reading /\ beating /\ beating' = FALSE /\ pings' = Append(pings, 0)
        /\ heartbeat <= 0
        /\ UNCHANGED <<phase, open, endpoint, deadline, armed, heartbeat, pongs, waiting,
                       alive, clockVars>>
    BY <1>2 DEF StartPing
  <2>2. WaitingToPing
    BY <2>1 DEF IInv, Cycle, WaitingForPong, PongWaits
  <2>3. pings' \in Seq(Nat) /\ Len(pings') = 1 /\ pings'[1] = 0
    BY <2>1, <2>2, QueueFacts DEF IInv, TypeOK, WaitingToPing
  <2>4. TypeOK' /\ Lags' /\ DeadlineMeasures'
    BY <2>1, <2>3 DEF IInv, TypeOK, Lags, DeadlineMeasures, CompletionWaits, Reading, clockVars
  <2>5. TimeSpent' BY <2>1 DEF IInv, TimeSpent, Attempting, PerEndpoint, clockVars
  <2>6. WaitingForPong'
    BY <2>1, <2>2, <2>3, HeartbeatAssumption
       DEF IInv, TypeOK, WaitingToPing, WaitingForPong, clockVars
  <2>7. Cycle' BY <2>1, <2>6 DEF Cycle, Attempting, Reading
  <2> QED BY <2>4, <2>5, <2>7 DEF IInv
<1> QED BY <1>1, <1>2

(* A deadline that passed ends the attempt or the connection.              *)
LEMMA CheckDeadlineIInv == ASSUME IInv, CheckDeadline PROVE IInv'
<1>1. /\ armed' = FALSE /\ endpoint' = endpoint /\ beating' = beating /\ pings' = pings
      /\ pongs' = pongs /\ attempt' = attempt /\ connecting' = connecting
      /\ silence' = silence /\ deadline' = deadline /\ heartbeat' = heartbeat /\ open' = FALSE
      /\ alive' = alive /\ armed
  BY DEF CheckDeadline, cycleVars, clockVars
<1>2. \/ phase = "connecting" /\ phase' = "failed" /\ waiting' = 0
      \/ phase = "connected" /\ phase' = "aborted" /\ waiting' = 0
      \/ phase \in {"established", "failed", "aborted"} /\ phase' = phase /\ waiting' = waiting
  BY DEF IInv, TypeOK, CheckDeadline, Complete
<1>7. 0 \in Nat /\ 0 <= MaxLag BY HeartbeatAssumption
<1>3. TypeOK' /\ Lags' BY <1>1, <1>2, <1>7 DEF IInv, TypeOK, Lags, CompletionWaits
<1>4. DeadlineMeasures'
  BY <1>1, <1>2, HeartbeatAssumption DEF IInv, TypeOK, Lags, DeadlineMeasures, Reading
<1>5. TimeSpent'
  BY <1>1, <1>2 DEF IInv, TimeSpent, Attempting, PerEndpoint
<1>6. Cycle' BY <1>1, <1>2 DEF IInv, Cycle, Attempting, Reading
<1> QED BY <1>3, <1>4, <1>5, <1>6 DEF IInv

(* The main loop handles the pong: the timer starts.                       *)
LEMMA HandlePingIInv == ASSUME IInv, HandlePing PROVE IInv'
<1>1. /\ phase \in {"connected", "aborted"} /\ phase' = phase /\ pongs' = Tail(pongs)
      /\ heartbeat' = PING_INTERVAL /\ beating' = TRUE /\ pongs # <<>>
      /\ open' = open /\ endpoint' = endpoint /\ deadline' = deadline /\ armed' = armed
      /\ waiting' = waiting /\ alive' = alive /\ attempt' = attempt
      /\ connecting' = connecting /\ silence' = silence
  BY DEF HandlePing, clockVars
<1>2. pings' \in Seq(Nat) /\ pongs' \in Seq(Nat) /\ pings \in Seq(Nat) /\ pongs \in Seq(Nat)
  BY <1>1, QueueFacts DEF IInv, TypeOK, HandlePing
<1>3. TypeOK' /\ Lags' /\ DeadlineMeasures'
  BY <1>1, <1>2, HeartbeatAssumption
     DEF IInv, TypeOK, Lags, DeadlineMeasures, CompletionWaits, Reading
<1>4. TimeSpent' BY <1>1 DEF IInv, TimeSpent, Attempting, PerEndpoint
<1>5. Reading => WaitingToPing'
  <2> SUFFICES ASSUME Reading PROVE WaitingToPing'
    OBVIOUS
  <2>1. PongWaits
    BY <1>1, <1>2, QueueFacts DEF IInv, Cycle, WaitingToPing, WaitingForPong
  <2>2. Len(pings') = 0 /\ Len(pongs') = 0
    BY <1>1, <1>2, <2>1, QueueFacts DEF PongWaits, HandlePing
  <2>3. pongs[1] \in Nat /\ silence \in Nat
    BY <1>2, <2>1, AgeFact DEF PongWaits, IInv, TypeOK
  <2> QED BY <1>1, <2>1, <2>2, <2>3, HeartbeatAssumption DEF PongWaits, WaitingToPing
<1>6. Cycle' BY <1>1, <1>5 DEF Cycle, Attempting, Reading
<1> QED BY <1>3, <1>4, <1>6 DEF IInv

(* The network ends an attempt or a connection, or the server dies.        *)
LEMMA NetworkIInv == ASSUME IInv, ConnectEnds \/ ConnectionLost \/ ServerDies PROVE IInv'
<1>1. /\ open' = open /\ endpoint' = endpoint /\ deadline' = deadline /\ armed' = armed
      /\ heartbeat' = heartbeat /\ beating' = beating /\ pings' = pings /\ pongs' = pongs
      /\ attempt' = attempt /\ connecting' = connecting /\ silence' = silence
      /\ alive' \in BOOLEAN /\ (alive' => alive)
  <2>1. EnvUnchanged /\ (alive' = alive \/ alive' = FALSE)
    BY DEF ConnectEnds, ConnectionLost, ServerDies
  <2>2. alive \in BOOLEAN BY DEF IInv, TypeOK
  <2>3. alive' \in BOOLEAN /\ (alive' => alive)
    <3>1. CASE alive' = alive BY <2>2, <3>1
    <3>2. CASE alive' = FALSE BY <3>2
    <3> QED BY <2>1, <3>1, <3>2
  <2> QED BY <2>1, <2>3 DEF EnvUnchanged, timerVars, cycleVars, clockVars
<1>2. \/ phase = "connecting" /\ phase' \in {"established", "failed"} /\ waiting' = 0
      \/ phase = "connected" /\ phase' = "aborted" /\ waiting' = 0
      \/ phase = "connected" /\ phase' = "connected" /\ waiting' = waiting
  BY DEF ConnectEnds, ConnectionLost, ServerDies, Complete, Reading
<1>3. TypeOK' /\ Lags'
  BY <1>1, <1>2, HeartbeatAssumption DEF IInv, TypeOK, Lags, CompletionWaits
<1>4. DeadlineMeasures'
  BY <1>1, <1>2, HeartbeatAssumption DEF IInv, TypeOK, Lags, DeadlineMeasures, Reading
<1>5. TimeSpent' BY <1>1, <1>2 DEF IInv, TimeSpent, Attempting, PerEndpoint
<1>6. Cycle'
  BY <1>1, <1>2 DEF IInv, Cycle, Attempting, Reading, WaitingToPing, WaitingForPong, PongWaits
<1> QED BY <1>3, <1>4, <1>5, <1>6 DEF IInv

(* A second passes: what is measured and what measures it move together.   *)
LEMMA TickIInv == ASSUME IInv, Tick PROVE IInv'
<1>1. /\ phase' = phase /\ open' = open /\ endpoint' = endpoint /\ armed' = armed
      /\ beating' = beating /\ alive' = alive /\ NothingUrgent
  BY DEF Tick
<1>2. /\ pings \in Seq(Nat) /\ pongs \in Seq(Nat)
      /\ pings' \in Seq(Nat) /\ pongs' \in Seq(Nat)
      /\ Len(pings') = Len(pings) /\ Len(pongs') = Len(pongs)
      /\ pongs # <<>> => pongs'[1] = pongs[1] + 1
      /\ alive /\ Reading /\ pings # <<>> => pings'[1] = pings[1] + 1
      /\ DOMAIN pings = 1..Len(pings) /\ DOMAIN pongs = 1..Len(pongs)
      /\ Len(pings) \in Nat /\ Len(pongs) \in Nat
  BY OlderFacts, QueueFacts DEF IInv, TypeOK, Tick
<1>3. TypeOK' BY <1>1, <1>2 DEF IInv, TypeOK, Tick
<1>4. Lags'
  BY <1>1, HeartbeatAssumption
     DEF IInv, TypeOK, Tick, NothingUrgent, Lags, CompletionWaits
<1>5. DeadlineMeasures'
  BY <1>1, HeartbeatAssumption
     DEF IInv, TypeOK, Tick, DeadlineMeasures, CompletionWaits, Reading
<1>6. TimeSpent'
  <2>1. endpoint \in Int /\ connecting \in Nat /\ attempt \in Nat
    BY DEF IInv, TypeOK
  <2>2. /\ Attempting' <=> Attempting
        /\ Attempting => attempt' = attempt + 1 /\ connecting' = connecting + 1
        /\ ~Attempting => connecting' = connecting
    BY <1>1 DEF Tick, Attempting
  <2> QED BY <1>1, <2>1, <2>2, Share DEF IInv, TimeSpent, PerEndpoint
<1>7. Cycle'
  <2>1. CASE ~Reading BY <1>1, <1>2, <2>1 DEF IInv, Cycle, Attempting, Reading
  <2>2. CASE Reading
    <3>1. /\ silence' = silence + 1 /\ silence \in Nat /\ heartbeat \in Int
          /\ heartbeat' = IF beating THEN heartbeat - 1 ELSE heartbeat
          /\ MaxLag \in Nat /\ MaxDelay \in Nat /\ PING_INTERVAL \in Nat
      BY <2>2, HeartbeatAssumption DEF Tick, IInv, TypeOK
    <3>2. ASSUME WaitingToPing PROVE WaitingToPing'
      <4>1. /\ beating /\ heartbeat > -MaxLag /\ heartbeat' = heartbeat - 1
            /\ silence <= MaxLag + (PING_INTERVAL - heartbeat)
        BY <1>1, <3>1, <3>2 DEF WaitingToPing, NothingUrgent
      <4>2. /\ heartbeat' >= -MaxLag
            /\ silence' <= MaxLag + (PING_INTERVAL - heartbeat')
        BY <3>1, <4>1
      <4> QED BY <1>1, <1>2, <3>2, <4>2 DEF WaitingToPing
    <3>3. ASSUME WaitingForPong PROVE WaitingForPong'
      <4>1. alive => /\ pings[1] \in Nat /\ pings[1] < MaxDelay /\ pings'[1] = pings[1] + 1
        <5>2. Len(pings) = 1 BY <3>3 DEF WaitingForPong
        <5>1. 1 \in 1..Len(pings) /\ pings # <<>> BY <1>2, <5>2, AgeFact
        <5> QED BY <1>1, <1>2, <2>2, <5>1, <5>2, AgeFact DEF NothingUrgent
      <4>2. alive => /\ pings'[1] <= MaxDelay
                     /\ silence' <= MaxLag + PING_INTERVAL + MaxLag + pings'[1]
        BY <3>1, <3>3, <4>1 DEF WaitingForPong
      <4> QED BY <1>1, <1>2, <3>3, <4>2 DEF WaitingForPong
    <3>4. ASSUME PongWaits PROVE PongWaits'
      <4>1. /\ pongs[1] \in Nat /\ pongs[1] < MaxLag /\ pongs'[1] = pongs[1] + 1
        <5>2. Len(pongs) = 1 BY <3>4 DEF PongWaits
        <5>1. 1 \in 1..Len(pongs) /\ pongs # <<>> BY <1>2, <5>2, AgeFact
        <5> QED BY <1>1, <1>2, <5>1, <5>2, AgeFact DEF NothingUrgent
      <4>2. pongs'[1] <= MaxLag /\ silence' <= pongs'[1]
        BY <3>1, <3>4, <4>1 DEF PongWaits
      <4> QED BY <1>1, <1>2, <3>4, <4>2 DEF PongWaits
    <3>5. (WaitingToPing \/ WaitingForPong \/ PongWaits)'
      BY <2>2, <3>2, <3>3, <3>4 DEF IInv, Cycle
    <3> QED BY <1>1, <2>2, <3>5 DEF Cycle, Attempting, Reading
  <2> QED BY <2>1, <2>2
<1> QED BY <1>3, <1>4, <1>5, <1>6, <1>7 DEF IInv

(* Every step preserves the invariant.                                     *)
LEMMA StepIInv == IInv /\ [Next]_vars => IInv'
<1> SUFFICES ASSUME IInv, [Next]_vars PROVE IInv'
  OBVIOUS
<1>1. CASE HandleConnected BY <1>1, HandleConnectedIInv
<1>2. CASE HandleConnectFailed BY <1>2, HandleConnectFailedIInv
<1>3. CASE HandleReadError BY <1>3, StopIInv DEF HandleReadError
<1>4. CASE StartPing BY <1>4, StartPingIInv
<1>5. CASE CheckDeadline BY <1>5, CheckDeadlineIInv
<1>6. CASE ReadPong \/ ReadOther BY <1>6, ReadIInv
<1>7. CASE HandlePing BY <1>7, HandlePingIInv
<1>8. CASE Disconnect BY <1>8, StopIInv DEF Disconnect, Reading
<1>9. CASE ConnectEnds \/ ConnectionLost \/ ServerDies BY <1>9, NetworkIInv
<1>10. CASE Tick BY <1>10, TickIInv
<1>11. CASE UNCHANGED vars
  BY <1>11 DEF vars, timerVars, cycleVars, clockVars, IInv, TypeOK, Lags, DeadlineMeasures,
       TimeSpent, Cycle, Attempting, Reading, CompletionWaits, PerEndpoint,
       WaitingToPing, WaitingForPong, PongWaits
<1> QED
  BY <1>1, <1>2, <1>3, <1>4, <1>5, <1>6, <1>7, <1>8, <1>9, <1>10, <1>11 DEF Next, Worker

(* The invariant holds in every reachable state.                           *)
LEMMA Inductive == Spec => []IInv
BY InitIInv, StepIInv, PTL DEF Spec

-----------------------------------------------------------------------------
(* Timers, queues and clocks keep their types: no endpoint past the last   *)
(* is tried.                                                               *)
THEOREM TypeCorrect == Spec => []TypeOK
<1>1. IInv => TypeOK BY DEF IInv
<1> QED BY <1>1, Inductive, PTL

(* A server that has fallen silent is found out in PING_TIMEOUT.           *)
THEOREM SilenceFound == Spec => []SilenceNoticed
<1>1. IInv => SilenceNoticed
  BY HeartbeatAssumption DEF IInv, TypeOK, Lags, DeadlineMeasures, SilenceNoticed
<1> QED BY <1>1, Inductive, PTL

(* connect() has succeeded or has been given up after CONNECT_TIMEOUT and  *)
(* twice the lag for each endpoint.                                        *)
THEOREM ConnectEndsInTime == Spec => []AttemptsEnd
<1>1. IInv => AttemptsEnd
  <2> SUFFICES ASSUME IInv PROVE connecting <= endpoint * PerEndpoint
    BY DEF AttemptsEnd, PerEndpoint
  <2>1. endpoint \in Int /\ connecting \in Int /\ attempt \in Int BY DEF IInv, TypeOK
  <2>2. CASE ~Attempting BY <2>2 DEF IInv, TimeSpent
  <2>3. CASE phase \in {"established", "failed"} BY <2>3, AttemptEnds
  <2>4. CASE phase = "connecting"
    <3>1. attempt <= PerEndpoint
      BY <2>4, HeartbeatAssumption
         DEF IInv, TypeOK, Lags, DeadlineMeasures, PerEndpoint
    <3>2. connecting <= (endpoint - 1) * PerEndpoint + attempt
      BY <2>4 DEF IInv, TimeSpent, Attempting
    <3> QED BY <2>1, <3>1, <3>2, Share
  <2> QED BY <2>2, <2>3, <2>4 DEF Attempting
<1> QED BY <1>1, Inductive, PTL

(* One ping, one pong or one wait for the next: never none, never two.     *)
THEOREM HeartBeatsOnce == Spec => []OneCycle
<1>1. IInv => OneCycle
  <2> SUFFICES ASSUME IInv, Reading
               PROVE  Len(pings) + Len(pongs) + (IF beating THEN 1 ELSE 0) = 1
    BY DEF OneCycle
  <2>1. CASE WaitingToPing BY <2>1 DEF WaitingToPing
  <2>2. CASE WaitingForPong BY <2>2 DEF WaitingForPong
  <2>3. CASE PongWaits BY <2>3 DEF PongWaits
  <2> QED BY <2>1, <2>2, <2>3 DEF IInv, Cycle
<1> QED BY <1>1, Inductive, PTL

(* With PING_INTERVAL, the lag of both threads and the server's delay      *)
(* below PING_TIMEOUT the deadline is always ahead.                        *)
LEMMA DeadlineAhead == IInv /\ Slack /\ alive /\ Reading => deadline > 0
<1> SUFFICES ASSUME IInv, Slack, alive, Reading PROVE deadline > 0
  OBVIOUS
<1>1. /\ deadline = PING_TIMEOUT - silence /\ silence \in Nat /\ heartbeat \in Int
      /\ MaxLag \in Nat /\ MaxDelay \in Nat /\ PING_INTERVAL \in Nat /\ PING_TIMEOUT \in Nat
  BY HeartbeatAssumption DEF IInv, TypeOK, DeadlineMeasures
<1>2. CASE WaitingToPing BY <1>1, <1>2 DEF WaitingToPing, Slack
<1>3. CASE WaitingForPong
  <2>1. pings[1] \in Nat BY <1>3, AgeFact DEF IInv, TypeOK, WaitingForPong
  <2> QED BY <1>1, <1>3, <2>1 DEF WaitingForPong, Slack
<1>4. CASE PongWaits
  <2>1. pongs[1] \in Nat BY <1>4, AgeFact DEF IInv, TypeOK, PongWaits
  <2> QED BY <1>1, <1>4, <2>1 DEF PongWaits, Slack
<1> QED BY <1>2, <1>3, <1>4 DEF IInv, Cycle

(* The deadline never closes a connection whose server answers in time:    *)
(* for the durations of client.h, whenever twice the lag of a thread and   *)
(* the server's delay stay below five seconds.                             *)
THEOREM LiveConnectionKept == Spec => HealthyKept
<1>1. IInv /\ [Next]_vars => [Slack /\ alive /\ Reading => open' \/ phase' = "stopped"]_vars
  <2> SUFFICES ASSUME IInv, Next, Slack, alive, Reading
               PROVE  open' \/ phase' = "stopped"
    OBVIOUS
  <2>1. deadline > 0 /\ deadline \in Int /\ open
    BY DeadlineAhead DEF IInv, TypeOK, DeadlineMeasures
  <2>3. ~(deadline <= 0) BY <2>1
  <2>2. ~CheckDeadline BY <2>3 DEF CheckDeadline
  <2> QED
    BY <2>1, <2>2 DEF Next, Worker, HandleConnected, HandleConnectFailed, HandleReadError,
         StartPing, ReadPong, ReadOther, HandlePing, Disconnect, ConnectEnds, ConnectionLost,
         ServerDies, Tick, Stop, Attempt, EnvUnchanged, Reading
<1> QED BY <1>1, Inductive, PTL DEF Spec, HealthyKept
=============================================================================
