-------------------------- MODULE Connection_proofs --------------------------
(***************************************************************************)
(* Connection for any number of connects and endpoints: type correctness,  *)
(* and the supervision of the first session by check_deadline.             *)
(***************************************************************************)
EXTENDS Connection, SequenceTheorems, TLAPS

(* A handler runs on the completion at the head of the queue.              *)
HeadPresent == ioPc = "run" => ready # <<>>

IInv == TypeOK /\ HeadPresent /\ Supervised

-----------------------------------------------------------------------------
(* The completions the handlers queue.                                     *)

(* The constructors yield completions.                                     *)
LEMMA CompletionTypes ==
  /\ \A k \in {"readError", "writeError", "ping", "deadline"} : Done(k) \in Completion
  /\ \A k \in {"connected", "connectError"}, i \in 1..MaxEndpoints :
       ConnectDone(k, i) \in Completion
  /\ \A m \in Messages : MessageRead(m) \in Completion
BY DEF Completion

(* What a completion carries fits its handler.                             *)
LEMMA CompletionFields ==
  ASSUME NEW c \in Completion
  PROVE  /\ c.kind = "message" => c.msg \in Messages
         /\ c.kind \in {"connected", "connectError"} => c.iter \in 1..MaxEndpoints
BY DEF Completion, Done, ConnectDone, MessageRead

(* Repeated completions are completions.                                   *)
LEMMA RepeatType ==
  ASSUME NEW k \in {"readError", "writeError"}, NEW n \in Nat
  PROVE  Repeat(k, n) \in Seq(Completion)
<1>1. Done(k) \in Completion BY CompletionTypes
<1> QED BY <1>1 DEF Repeat

(* Closing the socket posts completions.                                   *)
LEMMA AbortedType ==
  ASSUME TypeOK
  PROVE  AbortedBySocketClose \in Seq(Completion)
<1>1. Repeat("readError", reads) \in Seq(Completion)
  BY RepeatType DEF TypeOK
<1>2. connecting > 0 => connecting \in 1..MaxEndpoints
  BY ConnectionAssumption DEF TypeOK
<1>3. (IF connecting > 0 THEN <<ConnectDone("connectError", connecting)>> ELSE <<>>)
        \in Seq(Completion)
  BY <1>2, CompletionTypes
<1> QED BY <1>1, <1>3 DEF AbortedBySocketClose

(* A wait that is ended posts its completion.                              *)
LEMMA WokenTypes ==
  /\ WokenByDeadline \in Seq(Completion)
  /\ WokenByHeartbeat \in Seq(Completion)
  /\ deadlineWait => DeadlineIn(WokenByDeadline)
<1>1. Done("deadline") \in Completion /\ Done("ping") \in Completion
  BY CompletionTypes
<1>2. DeadlineIn(<<Done("deadline")>>)
  BY DEF DeadlineIn, Done
<1> QED BY <1>1, <1>2 DEF WokenByDeadline, WokenByHeartbeat

-----------------------------------------------------------------------------
(* What queueing and popping do.                                           *)

(* A queue that grows keeps check_deadline's completion.                   *)
LEMMA DeadlineInConcat ==
  ASSUME NEW s \in Seq(Completion), NEW t \in Seq(Completion)
  PROVE  /\ s \o t \in Seq(Completion)
         /\ s # <<>> => s \o t # <<>>
         /\ DeadlineIn(s) \/ DeadlineIn(t) => DeadlineIn(s \o t)
<1>1. /\ s \o t \in Seq(Completion) /\ Len(s \o t) = Len(s) + Len(t)
      /\ \A i \in 1..Len(s) : (s \o t)[i] = s[i]
      /\ \A i \in 1..Len(t) : (s \o t)[Len(s) + i] = t[i]
  OBVIOUS
<1>2. Len(s) \in Nat /\ Len(t) \in Nat
      /\ DOMAIN s = 1..Len(s) /\ DOMAIN t = 1..Len(t)
      /\ DOMAIN (s \o t) = 1..Len(s \o t)
  BY <1>1
<1>3. ASSUME NEW i \in 1..Len(s), s[i].kind = "deadline" PROVE DeadlineIn(s \o t)
  <2>1. i \in DOMAIN (s \o t) /\ (s \o t)[i] = s[i] BY <1>1, <1>2
  <2> QED BY <1>3, <2>1 DEF DeadlineIn
<1>4. ASSUME NEW i \in 1..Len(t), t[i].kind = "deadline" PROVE DeadlineIn(s \o t)
  <2>1. Len(s) + i \in DOMAIN (s \o t) /\ (s \o t)[Len(s) + i] = t[i] BY <1>1, <1>2
  <2> QED BY <1>4, <2>1 DEF DeadlineIn
<1>5. DeadlineIn(s) \/ DeadlineIn(t) => DeadlineIn(s \o t)
  BY <1>2, <1>3, <1>4 DEF DeadlineIn
<1>6. s # <<>> => s \o t # <<>>
  BY <1>1, <1>2
<1> QED BY <1>1, <1>5, <1>6

(* Another completion's removal keeps it, too.                             *)
LEMMA DeadlineInTail ==
  ASSUME NEW s \in Seq(Completion), s # <<>>
  PROVE  /\ Tail(s) \in Seq(Completion)
         /\ Head(s) \in Completion
         /\ DeadlineIn(s) /\ Head(s).kind # "deadline" => DeadlineIn(Tail(s))
<1>1. /\ Tail(s) \in Seq(Completion) /\ Head(s) \in Completion
      /\ Len(s) \in Nat \ {0} /\ Len(Tail(s)) = Len(s) - 1 /\ Head(s) = s[1]
      /\ \A i \in 1..Len(Tail(s)) : Tail(s)[i] = s[i + 1]
  OBVIOUS
<1>2. ASSUME NEW i \in DOMAIN s, s[i].kind = "deadline", s[1].kind # "deadline"
      PROVE  DeadlineIn(Tail(s))
  <2>1. i \in 2..Len(s) BY <1>2
  <2>2. i - 1 \in DOMAIN Tail(s) /\ Tail(s)[i - 1] = s[i] BY <1>1, <2>1
  <2> QED BY <1>2, <2>2 DEF DeadlineIn
<1> QED BY <1>1, <1>2 DEF DeadlineIn

(* A step that only queues: t behind ready.                                *)
LEMMA Queued ==
  ASSUME IInv, NEW t \in Seq(Completion), ready' = ready \o t
  PROVE  /\ ready' \in Seq(Completion)
         /\ ready # <<>> => ready' # <<>>
         /\ DeadlineIn(ready) \/ DeadlineIn(t) => DeadlineIn(ready')
BY DeadlineInConcat DEF IInv, TypeOK

(* A step of a handler: its completion leaves the queue, t is added.       *)
LEMMA Handled ==
  ASSUME IInv, ready # <<>>, NEW t \in Seq(Completion), ready' = Tail(ready) \o t
  PROVE  /\ ready' \in Seq(Completion)
         /\ DeadlineIn(t) => DeadlineIn(ready')
         /\ DeadlineIn(ready) /\ Head(ready).kind # "deadline" => DeadlineIn(ready')
<1>1. ready \in Seq(Completion) BY DEF IInv, TypeOK
<1> QED BY <1>1, DeadlineInTail, DeadlineInConcat

(* Appending is concatenating one completion.                              *)
LEMMA AppendType ==
  ASSUME NEW s \in Seq(Completion), NEW e \in Completion
  PROVE  <<e>> \in Seq(Completion) /\ Append(s, e) = s \o <<e>>
<1>1. <<e>> \in Seq(Completion) OBVIOUS
<1> QED BY <1>1, AppendIsConcat

(* Before start() nothing is connected, and nothing is watched.            *)
LEMMA InitIInv == Init => IInv
<1> SUFFICES ASSUME Init PROVE IInv
  OBVIOUS
<1>1. FlagsOK BY DEF Init, FlagsOK
<1>2. 0 \in 0..MaxConnects /\ 0 \in 0..MaxEndpoints BY ConnectionAssumption
<1>3. <<>> \in Seq(Completion) /\ <<>> \in Seq(Messages \cup {"gone"}) OBVIOUS
<1>4. TypeOK BY <1>1, <1>2, <1>3 DEF Init, TypeOK
<1> QED BY <1>4 DEF Init, IInv, HeadPresent, Supervised

-----------------------------------------------------------------------------
(* The main thread.                                                        *)

(* connect() sets m_stopped = false while the main loop resolves.          *)
LEMMA BeginConnectIInv ==
  ASSUME IInv, BeginConnect
  PROVE  IInv'
<1> USE DEF IInv, BeginConnect, socketVars, timerVars, uiVars
<1>1. FlagsOK' BY DEF FlagsOK, TypeOK
<1>2. calls' \in 0..MaxConnects BY ConnectionAssumption DEF TypeOK
<1>3. TypeOK' BY <1>1, <1>2 DEF TypeOK
<1>4. HeadPresent' BY DEF HeadPresent
<1>5. Supervised' BY DEF Supervised
<1> QED BY <1>3, <1>4, <1>5

(* start() waits on the deadline before the main loop goes on.             *)
LEMMA ResolvedIInv ==
  ASSUME IInv, Resolved
  PROVE  IInv'
<1> USE DEF IInv, stateVars, uiVars
<1> PICK i \in 1..MaxEndpoints :
      Attempt(i, socket = "closed", ready \o WokenByDeadline)
  BY DEF Resolved
<1>1. \E t \in Seq(Completion) : ready' = ready \o t
  <2>1. CASE socket = "closed" BY <2>1, WokenTypes DEF Attempt
  <2>2. CASE socket # "closed"
    <3> DEFINE e == ConnectDone("connectError", i)
    <3>1. e \in Completion BY CompletionTypes
    <3>2. ready' = Append(ready \o WokenByDeadline, e) BY <2>2 DEF Attempt
    <3>3. ready \in Seq(Completion) /\ WokenByDeadline \in Seq(Completion)
          /\ <<e>> \in Seq(Completion)
      BY <3>1, WokenTypes DEF TypeOK
    <3>4. Append(ready \o WokenByDeadline, e) = (ready \o WokenByDeadline) \o <<e>>
          /\ WokenByDeadline \o <<e>> \in Seq(Completion)
      BY ONLY <3>1, <3>3, AppendType, DeadlineInConcat
    <3>5. (ready \o WokenByDeadline) \o <<e>> = ready \o (WokenByDeadline \o <<e>>)
      BY ONLY <3>3, ConcatAssociative
    <3> QED BY ONLY <3>2, <3>4, <3>5
  <2> QED BY <2>1, <2>2
<1>2. ready' \in Seq(Completion) /\ (ready # <<>> => ready' # <<>>)
  BY <1>1, Queued
<1>3. /\ deadline' = "armed" /\ socket' \in {"closed", "open", "connected"}
      /\ connecting' \in 0..MaxEndpoints
  BY ConnectionAssumption DEF Attempt, TypeOK
<1>4. TypeOK' BY <1>2, <1>3 DEF TypeOK, FlagsOK, Resolved
<1>5. HeadPresent' BY <1>2 DEF HeadPresent, Resolved
<1>6. Supervised' BY DEF Supervised, Resolved, DeadlineWatched
<1> QED BY <1>4, <1>5, <1>6

(* Opening and closing the dialog, the resolver's exception, the flags of  *)
(* ClickDisconnect: neither queue nor timer is touched.                    *)
LEMMA UserIInv ==
  ASSUME IInv, OpenDialog \/ CloseDialog \/ ResolveFails \/ ClickDisconnect
  PROVE  IInv'
<1> USE DEF IInv, stateVars, socketVars, timerVars, uiVars, OpenDialog,
        ConstructConnectionPage, CloseDialog,
          ResolveFails, ClickDisconnect, StopFlags
<1>1. TypeOK' BY DEF TypeOK, FlagsOK
<1>2. HeadPresent' BY DEF HeadPresent
<1>3. Supervised' BY DEF Supervised, DeadlineWatched
<1> QED BY <1>1, <1>2, <1>3

(* disconnect()'s second part, on either thread: ending the deadline's     *)
(* wait queues check_deadline.                                             *)
LEMMA TeardownFacts ==
  ASSUME IInv, Teardown
  PROVE  /\ socket' = "closed" /\ connecting' = 0 /\ reads' = 0
         /\ asked' = {} /\ pings' = 0 /\ deadline' = deadline
         /\ deadlineWait' = FALSE /\ heartbeatWait' = FALSE
         /\ idle' \in Seq(Messages \cup {"gone"})
         /\ ready' \in Seq(Completion) /\ (ready # <<>> => ready' # <<>>)
         /\ DeadlineWatched => DeadlineWatched'
<1> DEFINE x == ready \o AbortedBySocketClose
           y == x \o WokenByDeadline
<1>1. TypeOK BY DEF IInv
<1>2. /\ x \in Seq(Completion) /\ (ready # <<>> => x # <<>>)
      /\ DeadlineIn(ready) => DeadlineIn(x)
  <2>1. ready \in Seq(Completion) /\ AbortedBySocketClose \in Seq(Completion)
    BY <1>1, AbortedType DEF TypeOK
  <2> QED BY ONLY <2>1, DeadlineInConcat
<1> HIDE DEF x
<1>3. /\ y \in Seq(Completion) /\ (ready # <<>> => y # <<>>)
      /\ DeadlineIn(ready) \/ deadlineWait => DeadlineIn(y)
  BY ONLY <1>2, WokenTypes, DeadlineInConcat
<1>4. ready' = y \o WokenByHeartbeat BY DEF Teardown, x
<1> HIDE DEF y
<1>5. /\ ready' \in Seq(Completion) /\ (ready # <<>> => ready' # <<>>)
      /\ DeadlineIn(ready) \/ deadlineWait => DeadlineIn(ready')
  BY ONLY <1>3, <1>4, WokenTypes, DeadlineInConcat
<1>6. DeadlineWatched => DeadlineWatched'
  BY <1>5 DEF DeadlineWatched, DeadlineIn
<1>7. idle' \in Seq(Messages \cup {"gone"})
  BY <1>1 DEF TypeOK, Teardown
<1> QED BY <1>5, <1>6, <1>7 DEF Teardown, CloseSocket

(* disconnect() ends the wait when m_stopped is set already, or queues it. *)
LEMMA TeardownIInv ==
  ASSUME IInv, MainTeardown \/ WorkerTeardown
  PROVE  IInv'
<1>1. Teardown BY DEF MainTeardown, WorkerTeardown
<1> USE <1>1, TeardownFacts DEF IInv, stateVars, uiVars, MainTeardown, WorkerTeardown
<1>2. TypeOK'
  <2>1. FlagsOK' BY DEF TypeOK, FlagsOK
  <2>2. 0 \in 0..MaxEndpoints /\ 0 \in Nat BY ConnectionAssumption
  <2> QED BY <2>1, <2>2 DEF TypeOK
<1>3. HeadPresent' BY DEF HeadPresent
<1>4. Supervised' BY DEF Supervised
<1> QED BY <1>2, <1>3, <1>4

(* A step that queues nothing but e at most keeps what is queued.          *)
LEMMA QueuedOne ==
  ASSUME IInv, NEW e \in Completion, ready' \in {ready, Append(ready, e)}
  PROVE  /\ ready' \in Seq(Completion)
         /\ ready # <<>> => ready' # <<>>
         /\ DeadlineIn(ready) => DeadlineIn(ready')
<1>1. CASE ready' = ready BY <1>1 DEF IInv, TypeOK
<1>2. CASE ready' = Append(ready, e)
  <2>1. ready' = ready \o <<e>> /\ <<e>> \in Seq(Completion)
    BY <1>2, AppendType DEF IInv, TypeOK
  <2> QED BY <2>1, Queued
<1> QED BY <1>1, <1>2

(* write() adds at most one completion.                                    *)
LEMMA WriteFacts ==
  ASSUME IInv, NEW r \in Requests, Write(r)
  PROVE  /\ asked' \subseteq Requests
         /\ ready' \in Seq(Completion)
         /\ ready # <<>> => ready' # <<>>
         /\ DeadlineIn(ready) => DeadlineIn(ready')
<1>1. Done("writeError") \in Completion BY CompletionTypes
<1>2. ready' \in {ready, Append(ready, Done("writeError"))} BY DEF Write
<1>3. asked' \subseteq Requests BY DEF Write, IInv, TypeOK
<1> QED BY <1>1, <1>2, <1>3, QueuedOne

(* The idle callbacks that answer by a request.                            *)
LEMMA AnswerIInv ==
  ASSUME IInv, OnPlayers \/ OnItemsPlayer
  PROVE  IInv'
<1>1. /\ \E r \in Requests : Write(r)
      /\ idle # <<>> /\ idle' = Tail(idle)
      /\ UNCHANGED <<mainPc, ioPc, calls, socket, connecting, reads, pings, deadline,
                     deadlineWait, heartbeatWait, m_stopped, m_connected, uiVars>>
      /\ player' \in {TRUE, player}
  BY DEF OnPlayers, OnItemsPlayer, Dispatch, Requests, stateVars
<1>2. /\ asked' \subseteq Requests
      /\ ready' \in Seq(Completion)
      /\ ready # <<>> => ready' # <<>>
      /\ DeadlineIn(ready) => DeadlineIn(ready')
  BY <1>1, WriteFacts
<1> USE <1>1, <1>2 DEF IInv, uiVars
<1>3. FlagsOK' BY DEF TypeOK, FlagsOK
<1>4. TypeOK' BY <1>3 DEF TypeOK
<1>5. HeadPresent' BY DEF HeadPresent
<1>6. Supervised' BY DEF Supervised, DeadlineWatched
<1> QED BY <1>4, <1>5, <1>6

(* The ones that only change flags and widgets.                            *)
LEMMA ShowIInv ==
  ASSUME IInv, HandshakeDone \/ OnRefused \/ OnGone
  PROVE  IInv'
<1>1. /\ idle # <<>> /\ idle' = Tail(idle)
      /\ UNCHANGED <<mainPc, ioPc, calls, socketVars, timerVars, ready, m_stopped>>
      /\ m_connected' \in {TRUE, m_connected} /\ player' \in {TRUE, player}
      /\ uiConnected' \in {TRUE, FALSE, uiConnected}
      /\ dialog' \in {"none", "connect", "disconnect", dialog}
  BY DEF HandshakeDone, OnRefused, OnGone, Dispatch, ShowConnection, SetConnectionWidgets, stateVars,
       socketVars, timerVars, uiVars
<1> USE <1>1 DEF IInv, socketVars, timerVars
<1>2. FlagsOK' BY DEF TypeOK, FlagsOK
<1>3. TypeOK' BY <1>2 DEF TypeOK
<1>4. HeadPresent' BY DEF HeadPresent
<1>5. Supervised' BY DEF Supervised, DeadlineWatched
<1> QED BY <1>3, <1>4, <1>5

(* handle_ping wakes the heartbeat's wait.                                 *)
LEMMA OnPongIInv ==
  ASSUME IInv, OnPong
  PROVE  IInv'
<1>1. ready' = ready \o WokenByHeartbeat BY DEF OnPong
<1>2. /\ ready' \in Seq(Completion) /\ (ready # <<>> => ready' # <<>>)
      /\ DeadlineIn(ready) => DeadlineIn(ready')
  BY <1>1, WokenTypes, Queued
<1> USE <1>2 DEF IInv, OnPong, Dispatch, stateVars, uiVars
<1>3. FlagsOK' BY DEF TypeOK, FlagsOK
<1>4. TypeOK' BY <1>3 DEF TypeOK
<1>5. HeadPresent' BY DEF HeadPresent
<1>6. Supervised' BY DEF Supervised, DeadlineWatched
<1> QED BY <1>4, <1>5, <1>6

-----------------------------------------------------------------------------
(* Network and clock.                                                      *)

(* Network and heartbeat add one completion each.                          *)
LEMMA OneCompletionIInv ==
  ASSUME IInv, Established \/ Unreachable \/ Reply \/ HeartbeatPasses
  PROVE  IInv'
<1>1. \E e \in Completion : ready' = Append(ready, e)
  <2>1. CASE Established \/ Unreachable
    <3>1. connecting \in 1..MaxEndpoints
      BY <2>1, ConnectionAssumption DEF Established, Unreachable, IInv, TypeOK
    <3> QED BY <2>1, <3>1, CompletionTypes DEF Established, Unreachable
  <2>2. CASE Reply
    <3>1. asked \subseteq Messages /\ "refused" \in Messages /\ "pong" \in Messages
      BY DEF IInv, TypeOK, Messages
    <3> QED BY <2>2, <3>1, CompletionTypes DEF Reply
  <2>3. CASE HeartbeatPasses BY <2>3, CompletionTypes DEF HeartbeatPasses
  <2> QED BY <2>1, <2>2, <2>3
<1>2. /\ ready' \in Seq(Completion) /\ (ready # <<>> => ready' # <<>>)
      /\ DeadlineIn(ready) => DeadlineIn(ready')
  BY <1>1, QueuedOne
<1>3. /\ UNCHANGED <<m_stopped, m_connected, player, ioPc, idle, mainPc, dialog,
                     uiConnected, calls, deadline, deadlineWait>>
      /\ heartbeatWait' \in {FALSE, heartbeatWait}
      /\ socket' \in {"connected", socket} /\ connecting' \in {0, connecting}
      /\ reads' \in {reads, reads - 1} /\ (reads' = reads - 1 => reads > 0)
      /\ asked' \subseteq asked
      /\ pings' \in {pings, pings - 1} /\ (pings' = pings - 1 => pings > 0)
  <2>0. reads \in Nat /\ pings \in Nat BY DEF IInv, TypeOK
  <2>1. EnvUnchanged /\ UNCHANGED <<deadline, deadlineWait>>
    BY DEF Established, Unreachable, Reply, HeartbeatPasses, timerVars
  <2>2. CASE Established \/ Unreachable
    <3>1. UNCHANGED <<reads, asked, pings, heartbeatWait>> /\ connecting' = 0
          /\ socket' \in {"connected", socket}
      BY <2>2 DEF Established, Unreachable, timerVars
    <3> QED BY <2>0, <2>1, <3>1 DEF EnvUnchanged, stateVars, uiVars
  <2>4. CASE HeartbeatPasses
    <3>1. UNCHANGED <<socket, connecting, reads, asked, pings>> /\ heartbeatWait' = FALSE
      BY <2>4 DEF HeartbeatPasses, socketVars
    <3>2. heartbeatWait' \in {FALSE, heartbeatWait} BY ONLY <3>1
    <3>3. reads' = reads /\ reads' # reads - 1 /\ pings' = pings /\ pings' # pings - 1
      BY <2>0, <3>1
    <3>4. UNCHANGED <<m_stopped, m_connected, player, ioPc, idle, mainPc, dialog,
                      uiConnected, calls, deadline, deadlineWait>>
      BY <2>1 DEF EnvUnchanged, stateVars, uiVars
    <3> QED BY <3>1, <3>2, <3>3, <3>4
  <2>3. CASE Reply
    <3>1. reads > 0 /\ reads' = reads - 1
          /\ UNCHANGED <<socket, connecting, heartbeatWait>>
      BY <2>3 DEF Reply, timerVars
    <3>2. asked' \subseteq asked
          /\ pings' \in {pings, pings - 1} /\ (pings' = pings - 1 => pings > 0)
      BY <2>3 DEF Reply, IInv, TypeOK
    <3> QED BY <2>1, <3>1, <3>2 DEF EnvUnchanged, stateVars, uiVars
  <2> QED BY <2>2, <2>3, <2>4
<1> USE <1>2, <1>3 DEF IInv
<1>4. FlagsOK' BY DEF TypeOK, FlagsOK
<1>5. 0 \in 0..MaxEndpoints /\ reads' \in Nat /\ pings' \in Nat
  BY ConnectionAssumption DEF TypeOK
<1>6. TypeOK' BY <1>4, <1>5 DEF TypeOK
<1>7. HeadPresent' BY DEF HeadPresent
<1>8. Supervised' BY DEF Supervised, DeadlineWatched
<1> QED BY <1>6, <1>7, <1>8

(* A reset ends the outstanding reads.                                     *)
LEMMA PeerClosesIInv ==
  ASSUME IInv, PeerCloses
  PROVE  IInv'
<1>1. Repeat("readError", reads) \in Seq(Completion)
  BY RepeatType DEF IInv, TypeOK
<1>2. ready' = ready \o Repeat("readError", reads) BY DEF PeerCloses
<1>3. /\ ready' \in Seq(Completion) /\ (ready # <<>> => ready' # <<>>)
      /\ DeadlineIn(ready) => DeadlineIn(ready')
  BY <1>1, <1>2, Queued
<1> USE <1>3 DEF IInv, PeerCloses, EnvUnchanged, stateVars, uiVars, timerVars
<1>4. FlagsOK' BY DEF TypeOK, FlagsOK
<1>5. TypeOK' BY <1>4 DEF TypeOK
<1>6. HeadPresent' BY DEF HeadPresent
<1>7. Supervised' BY DEF Supervised, DeadlineWatched
<1> QED BY <1>5, <1>6, <1>7

(* A deadline that passes turns the wait into a completion.                *)
LEMMA DeadlineTicksIInv ==
  ASSUME IInv, DeadlineTicks
  PROVE  IInv'
<1>1. /\ ready' \in Seq(Completion) /\ (ready # <<>> => ready' # <<>>)
      /\ DeadlineWatched => DeadlineWatched'
  <2>1. CASE ready' = ready /\ deadlineWait' = deadlineWait
    BY <2>1 DEF IInv, TypeOK, DeadlineWatched, DeadlineIn
  <2>2. CASE ready' = ready \o WokenByDeadline
    BY <2>2, WokenTypes, Queued DEF DeadlineWatched
  <2> QED BY <2>1, <2>2 DEF DeadlineTicks
<1> USE <1>1 DEF IInv, DeadlineTicks, EnvUnchanged, stateVars, uiVars, socketVars
<1>2. FlagsOK' BY DEF TypeOK, FlagsOK
<1>3. TypeOK' BY <1>2 DEF TypeOK
<1>4. HeadPresent' BY DEF HeadPresent
<1>5. Supervised' BY DEF Supervised
<1> QED BY <1>3, <1>4, <1>5

-----------------------------------------------------------------------------
(* The worker.                                                             *)

(* A handler is entered with its completion at the head, or skipped.       *)
LEMMA HandlerEnterIInv ==
  ASSUME IInv, HandlerEnter
  PROVE  IInv'
<1> USE DEF IInv, HandlerEnter, stateVars, socketVars, timerVars, uiVars
<1>1. ready' \in Seq(Completion)
  BY DeadlineInTail DEF TypeOK
<1>2. FlagsOK' BY DEF TypeOK, FlagsOK
<1>3. TypeOK' BY <1>1, <1>2 DEF TypeOK
<1>4. HeadPresent' BY DEF HeadPresent
<1>5. Supervised' BY DEF Supervised, DeadlineWatched
<1> QED BY <1>3, <1>4, <1>5

(* The completion a handler runs on.                                       *)
LEMMA RunningFacts ==
  ASSUME IInv, NEW k, Running(k)
  PROVE  /\ ready # <<>> /\ Head(ready) \in Completion /\ Head(ready).kind = k
         /\ Tail(ready) \in Seq(Completion)
         /\ k # "deadline" /\ DeadlineIn(ready) => DeadlineIn(Tail(ready))
BY DeadlineInTail DEF IInv, TypeOK, HeadPresent, Running

(* start_read() turns the wait into a completion as it arms the deadline.  *)
LEMMA StartReadFacts ==
  ASSUME IInv, NEW k, Running(k), k # "deadline",
         NEW after \in Seq(Completion), StartRead(after)
  PROVE  /\ deadline' = "armed" /\ deadlineWait' = FALSE
         /\ reads' \in Nat
         /\ ready' \in Seq(Completion)
         /\ DeadlineWatched => DeadlineIn(ready')
<1> DEFINE before == Tail(ready) \o WokenByDeadline
           e == <<Done("readError")>>
<1>1. before \in Seq(Completion) /\ (DeadlineWatched => DeadlineIn(before))
  BY RunningFacts, WokenTypes, DeadlineInConcat DEF DeadlineWatched
<1>2. e \in Seq(Completion) BY CompletionTypes
<1>3. /\ before \o after \in Seq(Completion)
      /\ DeadlineIn(before) => DeadlineIn(before \o after)
  BY <1>1, DeadlineInConcat
<1>4. /\ before \o e \in Seq(Completion)
      /\ DeadlineIn(before) => DeadlineIn(before \o e)
  BY <1>1, <1>2, DeadlineInConcat
<1>5. /\ before \o e \o after \in Seq(Completion)
      /\ DeadlineIn(before \o e) => DeadlineIn(before \o e \o after)
  BY <1>4, DeadlineInConcat
<1>6. ready' = before \o after \/ ready' = before \o e \o after
  BY DEF StartRead
<1>7. ready' \in Seq(Completion) /\ (DeadlineWatched => DeadlineIn(ready'))
  BY <1>1, <1>3, <1>4, <1>5, <1>6
<1>8. reads' \in Nat BY DEF StartRead, IInv, TypeOK
<1> QED BY <1>7, <1>8 DEF StartRead

(* handle_connect without error.                                           *)
LEMMA HandleConnectedIInv ==
  ASSUME IInv, HandleConnected
  PROVE  IInv'
<1>1. Running("connected") BY DEF HandleConnected
<1>2. \E after \in Seq(Completion) : StartRead(after)
  <2>1. <<>> \in Seq(Completion) /\ <<Done("writeError")>> \in Seq(Completion)
    BY CompletionTypes
  <2> QED BY <2>1 DEF HandleConnected
<1>3. /\ deadline' = "armed" /\ deadlineWait' = FALSE /\ reads' \in Nat
      /\ ready' \in Seq(Completion) /\ (DeadlineWatched => DeadlineIn(ready'))
  BY <1>1, <1>2, StartReadFacts
<1>4. /\ asked' \subseteq Requests /\ pings' \in Nat /\ ioPc' = "idle"
      /\ UNCHANGED <<m_stopped, m_connected, player, socket, connecting, heartbeatWait,
                     idle, mainPc, dialog, uiConnected, calls>>
  <2>1. \/ UNCHANGED <<asked, pings>>
        \/ asked' = asked \cup {"players"} /\ pings' = pings + 1
    BY DEF HandleConnected
  <2>2. asked' \subseteq Requests /\ pings' \in Nat
    <3>1. asked \subseteq Requests /\ pings \in Nat /\ "players" \in Requests
      BY DEF IInv, TypeOK, Requests
    <3>2. asked' \subseteq Requests BY <2>1, <3>1
    <3>3. pings' \in Nat BY <2>1, <3>1
    <3> QED BY <3>2, <3>3
  <2> QED BY <2>2 DEF HandleConnected, stateVars, uiVars
<1> USE <1>3, <1>4 DEF IInv
<1>5. FlagsOK' BY DEF TypeOK, FlagsOK
<1>6. TypeOK' BY <1>5 DEF TypeOK
<1>7. HeadPresent' BY DEF HeadPresent
<1>8. Supervised' BY DEF Supervised, DeadlineWatched
<1> QED BY <1>6, <1>7, <1>8

(* handle_read without error.                                              *)
LEMMA HandleMessageIInv ==
  ASSUME IInv, HandleMessage
  PROVE  IInv'
<1>1. Running("message") /\ <<>> \in Seq(Completion) BY DEF HandleMessage, HandleJson
<1>2. /\ deadline' = "armed" /\ deadlineWait' = FALSE /\ reads' \in Nat
      /\ ready' \in Seq(Completion) /\ (DeadlineWatched => DeadlineIn(ready'))
  BY <1>1, StartReadFacts DEF HandleMessage, HandleJson
<1>3. Head(ready).msg \in Messages
  BY <1>1, RunningFacts, CompletionFields
<1>4. idle' \in Seq(Messages \cup {"gone"})
  BY <1>3 DEF HandleMessage, HandleJson, IInv, TypeOK
<1> USE <1>2, <1>4 DEF IInv, HandleMessage, HandleJson, stateVars, uiVars
<1>5. FlagsOK' BY DEF TypeOK, FlagsOK
<1>6. TypeOK' BY <1>5 DEF TypeOK
<1>7. HeadPresent' BY DEF HeadPresent
<1>8. Supervised' BY DEF Supervised, DeadlineWatched
<1> QED BY <1>6, <1>7, <1>8

(* The next endpoint is in range, or the client stops.                     *)
LEMMA HandleConnectFailedIInv ==
  ASSUME IInv, HandleConnectFailed
  PROVE  IInv'
<1> DEFINE i == Head(ready).iter
           before == Tail(ready) \o AbortedBySocketClose
<1>1. PICK k \in {"connected", "connectError"} : Running(k)
  BY DEF HandleConnectFailed
<1>2. i \in 1..MaxEndpoints BY <1>1, RunningFacts, CompletionFields
<1>3. before \in Seq(Completion) /\ (DeadlineIn(ready) => DeadlineIn(before))
  BY <1>1, RunningFacts, AbortedType, DeadlineInConcat DEF IInv
<1>4. /\ before \o WokenByDeadline \in Seq(Completion)
      /\ DeadlineWatched => DeadlineIn(before \o WokenByDeadline)
  BY <1>3, WokenTypes, DeadlineInConcat DEF DeadlineWatched
<1> USE DEF IInv, HandleConnectFailed, NextEndpoint, stateVars, uiVars
<1>5. CASE i < MaxEndpoints
  <2>1. /\ deadline' = "armed" /\ socket' = "open" /\ connecting' = i + 1
        /\ ready' = before \o WokenByDeadline
    BY <1>5 DEF Attempt
  <2>2. i + 1 \in 0..MaxEndpoints BY <1>2, <1>5, ConnectionAssumption
  <2>3. FlagsOK' BY <1>5 DEF TypeOK, FlagsOK
  <2>4. TypeOK' BY <1>4, <1>5, <2>1, <2>2, <2>3 DEF TypeOK
  <2>5. HeadPresent' BY <1>5 DEF HeadPresent
  <2>6. Supervised' BY <1>4, <1>5, <2>1 DEF Supervised, DeadlineWatched
  <2> QED BY <2>4, <2>5, <2>6
<1>6. CASE ~(i < MaxEndpoints)
  <2>1. ready' = before /\ StopFlags /\ CloseSocket BY <1>6
  <2>2. FlagsOK' BY <1>6, <2>1 DEF TypeOK, FlagsOK, StopFlags
  <2>3. 0 \in 0..MaxEndpoints BY ConnectionAssumption
  <2>4. TypeOK' BY <1>3, <1>6, <2>1, <2>2, <2>3 DEF TypeOK, CloseSocket
  <2>5. HeadPresent' BY <1>6 DEF HeadPresent
  <2>6. Supervised' BY <2>1 DEF Supervised, StopFlags
  <2> QED BY <2>4, <2>5, <2>6
<1> QED BY <1>5, <1>6

(* An error of a read or a write stops the client.                         *)
LEMMA HandleIoErrorIInv ==
  ASSUME IInv, HandleReadError \/ HandleWriteError
  PROVE  IInv'
<1>1. ready' \in Seq(Completion)
  BY RunningFacts DEF HandleReadError, HandleWriteError, WorkerDisconnects
<1> USE <1>1 DEF IInv, HandleReadError, HandleWriteError, WorkerDisconnects, StopFlags,
        socketVars, timerVars, uiVars
<1>2. FlagsOK' BY DEF TypeOK, FlagsOK
<1>3. TypeOK' BY <1>2 DEF TypeOK
<1>4. HeadPresent' BY DEF HeadPresent
<1>5. Supervised' BY DEF Supervised
<1> QED BY <1>3, <1>4, <1>5

(* start_ping leaves the deadline alone.                                   *)
LEMMA HandlePingIInv ==
  ASSUME IInv, HandlePing
  PROVE  IInv'
<1> DEFINE e == Done("writeError")
<1>1. Running("ping") BY DEF HandlePing
<1>2. e \in Completion /\ Tail(ready) \in Seq(Completion)
  BY <1>1, CompletionTypes, RunningFacts
<1>3. /\ Append(Tail(ready), e) \in Seq(Completion)
      /\ DeadlineIn(Tail(ready)) => DeadlineIn(Append(Tail(ready), e))
  <2>1. Append(Tail(ready), e) = Tail(ready) \o <<e>> /\ <<e>> \in Seq(Completion)
    BY <1>2, AppendType
  <2> QED BY <1>2, <2>1, DeadlineInConcat
<1>4. /\ ready' \in {Tail(ready), Append(Tail(ready), e)}
      /\ pings' \in {pings, pings + 1}
  BY DEF HandlePing
<1>5. ready' \in Seq(Completion) /\ (DeadlineIn(ready) => DeadlineIn(ready'))
  <2>1. DeadlineIn(ready) => DeadlineIn(Tail(ready)) BY <1>1, RunningFacts
  <2> QED BY ONLY <1>2, <1>3, <1>4, <2>1
<1> USE <1>4, <1>5 DEF IInv, HandlePing, stateVars, timerVars, uiVars
<1>6. FlagsOK' BY DEF TypeOK, FlagsOK
<1>7. TypeOK' BY <1>6 DEF TypeOK
<1>8. HeadPresent' BY DEF HeadPresent
<1>9. Supervised' BY DEF Supervised, DeadlineWatched
<1> QED BY <1>7, <1>8, <1>9

(* check_deadline itself: it leaves the queue and waits again.             *)
LEMMA HandleDeadlineIInv ==
  ASSUME IInv, HandleDeadline
  PROVE  IInv'
<1>1. Running("deadline") /\ deadlineWait' = TRUE BY DEF HandleDeadline
<1>2. Tail(ready) \in Seq(Completion)
      /\ Tail(ready) \o AbortedBySocketClose \in Seq(Completion)
  BY <1>1, RunningFacts, AbortedType, DeadlineInConcat DEF IInv
<1>3. ready' \in Seq(Completion)
  BY <1>2 DEF HandleDeadline
<1> USE <1>1, <1>3 DEF IInv, HandleDeadline, CloseSocket, stateVars, socketVars, uiVars
<1>4. FlagsOK' BY DEF TypeOK, FlagsOK
<1>5. 0 \in 0..MaxEndpoints BY ConnectionAssumption
<1>6. TypeOK' BY <1>4, <1>5 DEF TypeOK
<1>7. HeadPresent' BY DEF HeadPresent
<1>8. Supervised' BY DEF Supervised, DeadlineWatched
<1> QED BY <1>6, <1>7, <1>8

-----------------------------------------------------------------------------
(* Every step preserves the invariant.                                     *)
LEMMA StepIInv == IInv /\ [Next]_vars => IInv'
<1> SUFFICES ASSUME IInv, [Next]_vars PROVE IInv'
  OBVIOUS
<1>1. CASE User
  BY <1>1, BeginConnectIInv, UserIInv DEF User, Start, ClickConnect
<1>2. CASE MainLoop
  BY <1>2, ResolvedIInv, UserIInv, TeardownIInv, AnswerIInv, ShowIInv, OnPongIInv
     DEF MainLoop
<1>3. CASE Worker
  BY <1>3, HandlerEnterIInv, HandleConnectedIInv, HandleConnectFailedIInv,
     HandleMessageIInv, HandleIoErrorIInv, TeardownIInv, HandlePingIInv,
     HandleDeadlineIInv
     DEF Worker
<1>4. CASE Network \/ Clock
  BY <1>4, OneCompletionIInv, PeerClosesIInv, DeadlineTicksIInv DEF Network, Clock
<1>5. CASE UNCHANGED vars
  BY <1>5 DEF vars, stateVars, socketVars, timerVars, uiVars, IInv, TypeOK, FlagsOK,
       HeadPresent, Supervised, DeadlineWatched, DeadlineIn
<1> QED BY <1>1, <1>2, <1>3, <1>4, <1>5 DEF Next

(* The invariant holds in every reachable state.                           *)
LEMMA Inductive == Spec => []IInv
BY InitIInv, StepIInv, PTL DEF Spec

(* The state of both threads keeps its types: among others, an endpoint    *)
(* past the last one is never tried.                                       *)
THEOREM TypeCorrect == Spec => []TypeOK
<1>1. IInv => TypeOK BY DEF IInv
<1> QED BY <1>1, Inductive, PTL

(* From start() to the first disconnect(), check_deadline is waiting on    *)
(* m_deadline or queued to run, in every interleaving of the two threads.  *)
THEOREM FirstSessionSupervised == Spec => []Supervised
<1>1. IInv => Supervised BY DEF IInv
<1> QED BY <1>1, Inductive, PTL
=============================================================================
