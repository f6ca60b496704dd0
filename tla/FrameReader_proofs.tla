-------------------------- MODULE FrameReader_proofs --------------------------
(***************************************************************************)
(* FrameReader for every ReadMax, MaxBytes and MaxDrops: the inductive     *)
(* invariant IInv, and the type and framing properties that follow.        *)
(***************************************************************************)
EXTENDS FrameReader, SequenceTheorems, TLAPS

(* What sending a byte does to the stream.                                 *)
LEMMA AppendFacts ==
  ASSUME NEW S, NEW s \in Seq(S), NEW e \in S
  PROVE  /\ Append(s, e) \in Seq(S)
         /\ Len(s) \in Nat /\ Len(Append(s, e)) = Len(s) + 1
         /\ \A i \in 1..Len(s) : Append(s, e)[i] = s[i]
         /\ Append(s, e)[Len(s) + 1] = e
OBVIOUS

(* What losing the bytes in flight does to it.                             *)
LEMMA PrefixFacts ==
  ASSUME NEW S, NEW s \in Seq(S), NEW n \in 0..Len(s)
  PROVE  /\ SubSeq(s, 1, n) \in Seq(S)
         /\ Len(SubSeq(s, 1, n)) = n
         /\ \A i \in 1..n : SubSeq(s, 1, n)[i] = s[i]
<1>1. \A i \in 1..n : s[i] \in S OBVIOUS
<1> QED BY <1>1, SubSeqProperties

(* At the start nothing was sent.                                          *)
LEMMA InitIInv == Init => IInv
BY FrameAssumption DEF Init, IInv, TypeOK, CursorsOrdered, EndsAreClosed,
     WellNested, CounterFollows, CleanFraming, FramesAreMessages, Ends, DepthAt

(* A frame stays a message as long as the ends up to its own do.           *)
LEMMA MessageKept ==
  ASSUME NEW k \in Nat, NEW f \in Nat \X (1..k), IsMessage(f),
         \A i \in 1..k : i \in Ends' <=> i \in Ends
  PROVE  IsMessage(f)'
<1>1. f[1] \in Nat /\ f[2] \in 1..k /\ f[1] < f[2]
  BY DEF IsMessage
<1>2. f[1] \in Ends' \cup {0} /\ f[2] \in Ends'
  BY <1>1 DEF IsMessage
<1>3. \A i \in (f[1] + 1)..(f[2] - 1) : i \notin Ends'
  BY <1>1 DEF IsMessage
<1> QED BY <1>1, <1>2, <1>3 DEF IsMessage

(* A byte sent behind the others leaves what the client has of the stream  *)
(* alone.                                                                  *)
LEMMA EmitIInv ==
  ASSUME IInv, NEW ch \in {"open", "close", "text"}, NEW after \in Nat, Emit(ch, after),
         after = 0 => ch = "close",
         clean' \in BOOLEAN,
         clean' => clean /\ after = CASE ch = "open" -> depth + 1
                                      [] ch = "close" -> depth - 1
                                      [] OTHER    -> depth
  PROVE  IInv'
<1> DEFINE n == Len(stream)
<1> USE DEF IInv, Emit, readerVars
<1>1. /\ n \in Nat /\ Len(stream') = n + 1 /\ Len(stream') <= MaxBytes
      /\ stream' \in Seq(Byte)
      /\ \A i \in 1..n : stream'[i] = stream[i]
      /\ stream'[n + 1] = [ch |-> ch, depth |-> after]
  <2>1. stream \in Seq(Byte) /\ [ch |-> ch, depth |-> after] \in Byte
    BY DEF TypeOK, Byte
  <2>2. stream' = Append(stream, [ch |-> ch, depth |-> after])
    OBVIOUS
  <2>3. /\ n \in Nat /\ Len(stream') = n + 1 /\ stream' \in Seq(Byte)
        /\ \A i \in 1..n : stream'[i] = stream[i]
        /\ stream'[n + 1] = [ch |-> ch, depth |-> after]
    BY ONLY <2>1, <2>2, AppendFacts
  <2> QED BY <2>3, FrameAssumption
<1>2. /\ pos \in 0..n /\ docStart \in 0..n /\ pos <= n
      /\ \A i \in 1..n : i \in Ends' <=> i \in Ends
  BY <1>1 DEF TypeOK, Ends
<1>3. /\ Ends \subseteq 1..n /\ \A i \in 0..n : DepthAt(i)' = DepthAt(i)
  BY <1>1 DEF Ends, DepthAt
<1>4. TypeOK' BY <1>1 DEF TypeOK
<1>5. CursorsOrdered' BY <1>1 DEF CursorsOrdered, TypeOK
<1>6. EndsAreClosed' BY <1>1 DEF EndsAreClosed
<1>7. clean' => WellNested'
  <2> SUFFICES ASSUME clean' PROVE WellNested'
    OBVIOUS
  <2>1. depth = DepthAt(n) BY DEF WellNested
  <2>2. depth' = DepthAt(Len(stream))' BY <1>1 DEF DepthAt
  <2>3. ASSUME NEW i \in 1..Len(stream')
        PROVE  stream'[i].depth = CASE stream'[i].ch = "open" -> DepthAt(i - 1)' + 1
                                    [] stream'[i].ch = "close" -> DepthAt(i - 1)' - 1
                                    [] OTHER               -> DepthAt(i - 1)'
    <3>1. CASE i \in 1..n
      <4>1. i - 1 \in 0..n BY <3>1, <1>1
      <4>2. stream'[i] = stream[i] /\ DepthAt(i - 1)' = DepthAt(i - 1)
        BY <3>1, <4>1, <1>1, <1>3
      <4> QED BY <3>1, <4>2 DEF WellNested
    <3>2. CASE i = n + 1
      <4>1. DepthAt(i - 1)' = depth BY <3>2, <1>1, <1>3, <2>1
      <4> QED BY <3>2, <4>1, <1>1
    <3> QED BY <1>1, <3>1, <3>2
  <2> QED BY <2>2, <2>3 DEF WellNested
<1>8. clean' => CounterFollows' BY <1>2, <1>3 DEF CounterFollows
<1>9. CleanFraming'
  <2> SUFFICES ASSUME clean' PROVE CleanFraming'
    BY DEF CleanFraming
  <2>1. ASSUME NEW f \in frames PROVE IsMessage(f)'
    <3>1. IsMessage(f) BY DEF CleanFraming, FramesAreMessages
    <3>2. f \in Nat \X (1..n) BY <1>3, <3>1 DEF TypeOK, IsMessage
    <3> QED BY <1>1, <1>2, <3>1, <3>2, MessageKept
  <2>2. \A i \in Ends' : i <= pos => \E f \in frames : f[2] = i
    BY <1>1, <1>2 DEF CleanFraming, Ends
  <2> QED BY <2>1, <2>2 DEF CleanFraming, FramesAreMessages
<1> QED BY <1>4, <1>5, <1>6, <1>7, <1>8, <1>9

(* Sending keeps IInv: a quoted brace clears clean, the other bytes move   *)
(* the nesting by what handle_read will count.                             *)
LEMMA SendIInv ==
  ASSUME IInv, SendOpen \/ SendClose \/ SendText \/ SendQuotedBrace
  PROVE  IInv'
<1>1. depth \in Nat /\ clean \in BOOLEAN BY DEF IInv, TypeOK
<1>2. CASE SendOpen
  <2>1. depth + 1 \in Nat /\ depth + 1 # 0 BY <1>1
  <2> QED BY <1>1, <1>2, <2>1, EmitIInv DEF SendOpen
<1>3. CASE SendClose
  <2>1. depth - 1 \in Nat BY <1>1, <1>3 DEF SendClose
  <2> QED BY <1>1, <1>3, <2>1, EmitIInv DEF SendClose
<1>4. CASE SendText BY <1>1, <1>4, EmitIInv DEF SendText
<1>5. CASE SendQuotedBrace
  <2> PICK ch \in {"open", "close"} : Emit(ch, depth)
    BY <1>5 DEF SendQuotedBrace
  <2>1. depth # 0 /\ clean' = FALSE BY <1>1, <1>5 DEF SendQuotedBrace
  <2> QED BY <1>1, <2>1, EmitIInv
<1> QED BY <1>2, <1>3, <1>4, <1>5

(* Taking bytes off the socket or out of m_input_buffer moves a cursor to  *)
(* the right, never beyond the next one.                                   *)
LEMMA ReadIInv ==
  ASSUME IInv, Receive \/ ReadComplete \/ LoopEnd
  PROVE  IInv'
<1> USE DEF IInv, serverVars, readerVars, historyVars
<1>1. stream' = stream /\ depth' = depth /\ clean' = clean /\ frames' = frames
      /\ pos' = pos /\ docStart' = docStart /\ drops' = drops
      /\ m_bracket_counter' = m_bracket_counter
  BY DEF Receive, ReadComplete, LoopEnd
<1>2. Ends' = Ends /\ \A i \in Int : DepthAt(i)' = DepthAt(i)
  BY <1>1 DEF Ends, DepthAt
<1>3. TypeOK' /\ CursorsOrdered'
  BY <1>1, FrameAssumption
     DEF TypeOK, CursorsOrdered, Receive, ReadComplete, LoopEnd, Readsome
<1>4. EndsAreClosed' BY <1>1 DEF EndsAreClosed
<1>5. clean' => WellNested' /\ CounterFollows'
  BY <1>1, <1>2 DEF WellNested, CounterFollows, TypeOK, DepthAt
<1>6. CleanFraming'
  BY <1>1, <1>2 DEF CleanFraming, FramesAreMessages, IsMessage
<1> QED BY <1>3, <1>4, <1>5, <1>6

(* The byte at which handle_read looks closes the document exactly when    *)
(* the server's message ends there.                                        *)
LEMMA CountAgrees ==
  ASSUME IInv, clean, pos < Len(stream)
  PROVE  /\ CountBracket(stream[pos + 1].ch) = stream[pos + 1].depth
         /\ ClosesDocument(stream[pos + 1].ch) <=> pos + 1 \in Ends
<1>1. pos \in Nat /\ pos + 1 \in 1..Len(stream) /\ (pos + 1) - 1 = pos
  BY DEF IInv, TypeOK
<1>2. CountBracket(stream[pos + 1].ch) = stream[pos + 1].depth
  BY <1>1 DEF IInv, WellNested, CounterFollows, CountBracket
<1> QED BY <1>1, <1>2 DEF IInv, EndsAreClosed, ClosesDocument, Ends

(* One byte of the loop: the counter follows the nesting.                  *)
LEMMA LoopByteIInv ==
  ASSUME IInv, LoopByte
  PROVE  IInv'
<1> DEFINE ch == stream[pos + 1].ch
<1> USE DEF serverVars, historyVars
<1>1. /\ pos \in Nat /\ docStart \in Nat /\ docStart <= pos /\ pos + 1 <= taken
      /\ pos + 1 \in 1..Len(stream) /\ pos' = pos + 1 /\ pos < Len(stream)
      /\ stream' = stream /\ depth' = depth /\ clean' = clean
      /\ Len(stream) \in Nat /\ Ends \subseteq 1..Len(stream)
  BY DEF IInv, TypeOK, CursorsOrdered, LoopByte, Ends
<1>2. Ends' = Ends /\ \A i \in Int : DepthAt(i)' = DepthAt(i)
  BY <1>1 DEF Ends, DepthAt
<1>3. stream[pos + 1] \in Byte
  BY <1>1 DEF IInv, TypeOK
<1>4. m_bracket_counter' \in Int
  BY <1>3 DEF IInv, TypeOK, LoopByte, CountBracket, Byte
<1>5. \/ ClosesDocument(ch) /\ frames' = frames \cup {<<docStart, pos + 1>>}
                            /\ docStart' = pos + 1
      \/ ~ClosesDocument(ch) /\ frames' = frames /\ docStart' = docStart
  BY DEF LoopByte
<1>6. TypeOK'
  BY <1>1, <1>4, <1>5 DEF IInv, TypeOK, LoopByte
<1>7. CursorsOrdered'
  <2>1. \A f \in frames : f \in Nat \X Nat /\ f[2] <= docStart
    BY DEF IInv, TypeOK, CursorsOrdered
  <2>2. \A f \in frames' : f[2] <= docStart'
    <3>1. CASE ~ClosesDocument(ch) BY <1>5, <2>1, <3>1
    <3>2. CASE ClosesDocument(ch)
      <4>1. \A f \in frames : f[2] <= pos + 1 BY <1>1, <2>1
      <4> QED BY <1>1, <1>5, <3>2, <4>1
    <3> QED BY <3>1, <3>2
  <2>3. docStart' <= pos' BY <1>1, <1>5
  <2> QED BY <1>1, <2>2, <2>3 DEF IInv, CursorsOrdered, LoopByte
<1>8. EndsAreClosed'
  BY <1>1 DEF IInv, EndsAreClosed
<1>9. clean => WellNested'
  BY <1>1, <1>2 DEF IInv, WellNested, DepthAt
<1>10. clean => ClosesDocument(ch) <=> pos + 1 \in Ends
  BY <1>1, CountAgrees
<1>11. clean => CounterFollows'
  <2> SUFFICES ASSUME clean PROVE CounterFollows'
    OBVIOUS
  <2>1. m_bracket_counter' = DepthAt(pos)'
    BY <1>1, CountAgrees DEF LoopByte, DepthAt
  <2>2. docStart' \in Ends \cup {0} /\ \A i \in (docStart' + 1)..pos' : i \notin Ends
    BY <1>1, <1>5, <1>10 DEF IInv, CounterFollows
  <2> QED BY <1>2, <2>1, <2>2 DEF CounterFollows
<1>12. CleanFraming'
  <2> SUFFICES ASSUME clean PROVE CleanFraming'
    BY <1>1 DEF CleanFraming
  <2>1. \A f \in frames' : IsMessage(f)
    <3>1. \A f \in frames : IsMessage(f)
      BY DEF IInv, CleanFraming, FramesAreMessages
    <3>2. CASE ~ClosesDocument(ch) BY <3>1, <3>2, <1>5
    <3>3. CASE ClosesDocument(ch)
      <4>1. IsMessage(<<docStart, pos + 1>>)
        BY <1>1, <1>10, <3>3 DEF IInv, CounterFollows, IsMessage
      <4> QED BY <3>1, <4>1, <3>3, <1>5
    <3> QED BY <3>2, <3>3
  <2>2. \A i \in Ends : i <= pos + 1 => \E f \in frames' : f[2] = i
    <3>1. \A i \in Ends : i <= pos => \E f \in frames' : f[2] = i
      BY <1>5 DEF IInv, CleanFraming
    <3>2. pos + 1 \in Ends => <<docStart, pos + 1>> \in frames'
      BY <1>5, <1>10
    <3> QED BY <3>1, <3>2, <1>1
  <2> QED BY <1>1, <1>2, <2>1, <2>2 DEF CleanFraming, FramesAreMessages, IsMessage
<1> QED BY <1>1, <1>6, <1>7, <1>8, <1>9, <1>11, <1>12 DEF IInv

(* A lost connection cuts the stream where m_input_buffer ends; when that  *)
(* is between two messages the counter is zero, as the new stream expects. *)
LEMMA DropIInv ==
  ASSUME IInv, DropAndReconnect
  PROVE  IInv'
<1> USE DEF IInv, DropAndReconnect, readerVars
<1>1. /\ arrived \in Nat /\ pos \in Nat /\ docStart \in Nat
      /\ docStart <= pos /\ pos <= arrived /\ taken <= arrived
      /\ arrived <= Len(stream) /\ Len(stream) \in Nat
  BY DEF TypeOK, CursorsOrdered
<1>2. /\ stream' \in Seq(Byte) /\ Len(stream') = arrived
      /\ \A i \in 1..arrived : stream'[i] = stream[i]
  BY <1>1, PrefixFacts DEF TypeOK
<1>3. /\ Ends' \subseteq Ends /\ \A i \in 1..arrived : i \in Ends' <=> i \in Ends
      /\ \A i \in 0..arrived : DepthAt(i)' = DepthAt(i)
  BY <1>1, <1>2 DEF Ends, DepthAt
<1>4. clean' \in BOOLEAN /\ (clean' => clean /\ DepthAt(arrived) = 0)
  OBVIOUS
<1>10. TypeOK'
  <2>1. drops' \in 0..MaxDrops BY FrameAssumption DEF TypeOK
  <2>2. {arrived', taken', pos', docStart'} \subseteq 0..Len(stream')
    BY <1>1, <1>2 DEF TypeOK
  <2>3. Len(stream') <= MaxBytes /\ depth' \in Nat
    BY <1>1, <1>2, FrameAssumption DEF TypeOK
  <2> QED BY <1>2, <1>4, <2>1, <2>2, <2>3 DEF TypeOK
<1>5. CursorsOrdered' BY <1>1, <1>2 DEF CursorsOrdered
<1>6. EndsAreClosed' BY <1>1, <1>2 DEF EndsAreClosed
<1>7. clean' => WellNested'
  <2> SUFFICES ASSUME clean' PROVE WellNested'
    OBVIOUS
  <2>1. depth' = DepthAt(Len(stream))' BY <1>1, <1>2, <1>3, <1>4
  <2>2. ASSUME NEW i \in 1..arrived
        PROVE  /\ i \in 1..Len(stream) /\ stream'[i] = stream[i]
               /\ DepthAt(i - 1)' = DepthAt(i - 1)
    BY <1>1, <1>2, <1>3
  <2> QED BY <1>2, <2>1, <2>2 DEF WellNested
<1>8. clean' => CounterFollows'
  <2> SUFFICES ASSUME clean' PROVE CounterFollows'
    OBVIOUS
  <2>1. docStart \in Ends' \cup {0}
    BY <1>1, <1>3, <1>4 DEF CounterFollows
  <2>2. \A i \in (docStart + 1)..pos : i \notin Ends'
    BY <1>3, <1>4 DEF CounterFollows
  <2> QED BY <1>1, <1>3, <1>4, <2>1, <2>2 DEF CounterFollows
<1>9. CleanFraming'
  <2> SUFFICES ASSUME clean' PROVE CleanFraming'
    BY DEF CleanFraming
  <2>1. ASSUME NEW f \in frames PROVE IsMessage(f)'
    <3>1. IsMessage(f) BY DEF CleanFraming, FramesAreMessages
    <3>2. f \in Nat \X Nat /\ f[2] <= arrived /\ f[1] < f[2]
      BY <1>1, <3>1 DEF TypeOK, CursorsOrdered, IsMessage
    <3>3. f \in Nat \X (1..arrived) BY <1>1, <3>2
    <3> QED BY <1>1, <1>3, <3>1, <3>3, MessageKept
  <2>2. \A i \in Ends' : i <= pos => \E f \in frames : f[2] = i
    BY <1>3 DEF CleanFraming
  <2> QED BY <2>1, <2>2 DEF CleanFraming, FramesAreMessages
<1> QED BY <1>10, <1>5, <1>6, <1>7, <1>8, <1>9

(* Every step preserves the invariant.                                     *)
LEMMA StepIInv == IInv /\ [Next]_vars => IInv'
<1> SUFFICES ASSUME IInv, [Next]_vars PROVE IInv'
  OBVIOUS
<1>1. CASE SendOpen \/ SendClose \/ SendText \/ SendQuotedBrace BY <1>1, SendIInv
<1>2. CASE Receive \/ ReadComplete \/ LoopEnd BY <1>2, ReadIInv
<1>3. CASE LoopByte BY <1>3, LoopByteIInv
<1>4. CASE DropAndReconnect BY <1>4, DropIInv
<1>5. CASE UNCHANGED vars
  BY <1>5 DEF vars, IInv, TypeOK, CursorsOrdered, EndsAreClosed, WellNested,
       CounterFollows, CleanFraming, FramesAreMessages, IsMessage, Ends, DepthAt
<1> QED BY <1>1, <1>2, <1>3, <1>4, <1>5 DEF Next

(* The invariant holds in every reachable state.                           *)
LEMMA Inductive == Spec => []IInv
BY InitIInv, StepIInv, PTL DEF Spec

(* The buffers are segments of the stream in every reachable state.        *)
THEOREM TypeCorrect == Spec => []TypeOK
<1>1. IInv => TypeOK BY DEF IInv
<1> QED BY <1>1, Inductive, PTL

(* While the stream was clean handle_read parses exactly the messages.     *)
THEOREM FramingCorrect == Spec => []CleanFraming
<1>1. IInv => CleanFraming BY DEF IInv
<1> QED BY <1>1, Inductive, PTL

(* When async_read_until waits, nothing that arrived in full is left over. *)
THEOREM NothingLeftBehind == Spec => []NothingStranded
<1>1. IInv => NothingStranded
  <2> SUFFICES ASSUME IInv, clean, WaitingForSocket,
                      NEW i \in Ends, i <= arrived
               PROVE  \E f \in frames : f[2] = i
    BY DEF NothingStranded, ArrivedAreFramed
  <2>1. pos = taken /\ pos \in Nat /\ arrived \in Nat /\ i \in 1..Len(stream)
        /\ stream[i].ch = "close"
    BY DEF IInv, TypeOK, CursorsOrdered, WaitingForSocket, Ends, EndsAreClosed
  <2>2. i <= pos
    BY <2>1 DEF WaitingForSocket, DelimiterBuffered
  <2> QED BY <2>2 DEF IInv, CleanFraming
<1> QED BY <1>1, Inductive, PTL

-----------------------------------------------------------------------------
(* FrameReader implements the safety part of Channel.                      *)

Got == {f[2] : f \in frames}

(* What has been handed over are the ends up to the start of the document  *)
(* being collected.                                                        *)
LEMMA GotIsPrefix ==
  ASSUME IInv, clean
  PROVE  Got = {i \in Ends : i <= docStart}
<1>1. \A f \in frames : f[2] \in Ends /\ f[2] <= docStart
  BY DEF IInv, CursorsOrdered, CleanFraming, FramesAreMessages, IsMessage
<1>2. ASSUME NEW i \in Ends, i <= docStart PROVE i \in Got
  BY <1>2 DEF Got, IInv, CursorsOrdered, CleanFraming, TypeOK, Ends
<1> QED BY <1>1, <1>2 DEF Got

(* At the start nothing is sent, nothing handed over.                      *)
LEMMA InitRefines == Init => Messages!ChanInit
BY DEF Init, Messages!ChanInit, Ends

(* A byte sent ends a message or not.                                      *)
LEMMA EmitRefines ==
  ASSUME IInv, clean, clean', NEW ch \in {"open", "close", "text"}, NEW after \in Nat,
         Emit(ch, after)
  PROVE  Messages!Finish \/ (Ends' = Ends /\ Got' = Got)
<1>1. stream \in Seq(Byte) /\ [ch |-> ch, depth |-> after] \in Byte
  BY DEF IInv, TypeOK, Byte
<1>2. stream' = Append(stream, [ch |-> ch, depth |-> after]) /\ frames' = frames
  BY DEF Emit, readerVars
<1> DEFINE n == Len(stream)
<1>3. /\ n \in Nat /\ Len(stream') = n + 1
      /\ \A i \in 1..n : stream'[i] = stream[i]
      /\ stream'[n + 1].depth = after
  BY ONLY <1>1, <1>2, AppendFacts
<1>4. Got' = Got BY <1>2 DEF Got
<1>5. CASE after = 0
  <2>1. Ends' = Ends \cup {n + 1} /\ n + 1 \in Ends' /\ n + 1 \notin Ends
        /\ \A i \in Ends : i < n + 1
    BY <1>3, <1>5 DEF Ends
  <2>2. \E m \in Ends' : (\A i \in Ends : i < m) /\ Ends' = Ends \cup {m}
    BY <2>1
  <2> QED BY <1>2, <1>4, <2>1, <2>2 DEF Messages!Finish, Got
<1>6. CASE after # 0
  <2>1. Ends' = Ends BY <1>3, <1>6 DEF Ends
  <2> QED BY <1>4, <2>1
<1> QED BY <1>5, <1>6

(* A byte looked at hands over the oldest message, or none.                *)
LEMMA LoopByteRefines ==
  ASSUME IInv, clean, clean', LoopByte
  PROVE  Messages!Deliver \/ (Ends' = Ends /\ Got' = Got)
<1> DEFINE ch == stream[pos + 1].ch
<1>1. /\ stream' = stream /\ pos \in Nat /\ docStart \in Nat /\ docStart <= pos
      /\ pos < Len(stream) /\ Len(stream) \in Nat
  BY DEF LoopByte, IInv, TypeOK, CursorsOrdered, serverVars
<1>2. Ends' = Ends /\ Ends \subseteq Nat BY <1>1 DEF Ends
<1>3. \A i \in (docStart + 1)..pos : i \notin Ends
  BY DEF IInv, CounterFollows
<1>4. CASE ~ClosesDocument(ch) BY <1>2, <1>4 DEF LoopByte, Got
<1>5. CASE ClosesDocument(ch)
  <2>1. pos + 1 \in Ends BY <1>1, <1>5, CountAgrees
  <2>2. Got' = Got \cup {pos + 1}
    <3>1. frames' = frames \cup {<<docStart, pos + 1>>} BY <1>5 DEF LoopByte
    <3>2. <<docStart, pos + 1>>[2] = pos + 1 OBVIOUS
    <3> QED BY <3>1, <3>2, Zenon DEF Got
  <2>3. Got = {i \in Ends : i <= docStart} BY GotIsPrefix
  <2>4. pos + 1 \in Ends \ Got /\ \A i \in Ends \ Got : pos + 1 <= i
    BY <1>1, <1>2, <1>3, <2>1, <2>3
  <2> QED BY <1>2, <2>2, <2>4 DEF Messages!Deliver, Got
<1> QED BY <1>4, <1>5

(* A connection lost takes with it messages that had not arrived, and so   *)
(* had not been handed over.                                               *)
LEMMA DropRefines ==
  ASSUME IInv, clean, clean', DropAndReconnect
  PROVE  Messages!Lose
<1>1. /\ arrived \in 0..Len(stream) /\ docStart \in Nat /\ docStart <= arrived
      /\ stream \in Seq(Byte) /\ stream' = SubSeq(stream, 1, arrived)
      /\ frames' = frames /\ Len(stream) \in Nat
  BY DEF DropAndReconnect, IInv, TypeOK, CursorsOrdered, readerVars
<1>2. /\ Len(stream') = arrived
      /\ \A i \in 1..arrived : stream'[i] = stream[i]
  BY ONLY <1>1, PrefixFacts
<1>3. Ends' = {i \in Ends : i <= arrived} /\ Ends \subseteq Nat
  BY <1>1, <1>2 DEF Ends
<1>4. Got = {i \in Ends : i <= docStart} BY GotIsPrefix
<1>5. Got \subseteq Ends'
  <2> SUFFICES ASSUME NEW i \in Ends, i <= docStart PROVE i \in Ends'
    BY <1>4
  <2>1. i \in Nat /\ i <= arrived BY <1>1, <1>3
  <2> QED BY <1>3, <2>1
<1>6. \A m \in Ends', i \in Ends \ Ends' : m < i BY <1>1, <1>3
<1> QED BY <1>1, <1>3, <1>5, <1>6 DEF Messages!Lose, Got

(* Every step is a step of the channel, or leaves it as it is.             *)
LEMMA StepRefines ==
  IInv /\ IInv' /\ [Next]_vars => [Messages!ChanNext]_(Messages!chanVars)
<1> SUFFICES ASSUME IInv, IInv', [Next]_vars
             PROVE  Messages!ChanNext \/ UNCHANGED Messages!chanVars
  OBVIOUS
<1>1. clean \in BOOLEAN /\ clean' \in BOOLEAN /\ depth \in Nat
      BY DEF IInv, TypeOK
<1>2. CASE ~clean'
  <2>1. Messages!Broken BY <1>1, <1>2 DEF Messages!Broken
  <2> QED BY <2>1 DEF Messages!ChanNext
<1>3. CASE clean'
  <2>1. clean BY <1>1, <1>3 DEF Next, vars, SendOpen, SendClose, SendText, SendQuotedBrace,
          Receive, ReadComplete, LoopByte, LoopEnd, DropAndReconnect, historyVars
  <2>2. CASE SendOpen \/ SendClose \/ SendText \/ SendQuotedBrace
    <3>1. ~SendQuotedBrace BY <1>3 DEF SendQuotedBrace
    <3>2. PICK ch \in {"open", "close", "text"}, after \in Nat : Emit(ch, after)
      BY <1>1, <2>2, <3>1 DEF SendOpen, SendClose, SendText
    <3>3. Messages!Finish \/ (Ends' = Ends /\ Got' = Got)
      BY <1>3, <2>1, <3>2, EmitRefines
    <3> QED BY <1>3, <2>1, <3>3 DEF Messages!ChanNext, Messages!chanVars, Got
  <2>3. CASE Receive \/ ReadComplete \/ LoopEnd
    BY <1>3, <2>1, <2>3 DEF Receive, ReadComplete, LoopEnd, serverVars, readerVars,
         Messages!chanVars, Ends
  <2>4. CASE LoopByte
    BY <1>3, <2>1, <2>4, LoopByteRefines DEF Messages!ChanNext, Messages!chanVars, Got
  <2>5. CASE DropAndReconnect
    BY <1>3, <2>1, <2>5, DropRefines DEF Messages!ChanNext
  <2>6. CASE UNCHANGED vars BY <2>6 DEF vars, Messages!chanVars, Ends
  <2> QED BY <2>2, <2>3, <2>4, <2>5, <2>6 DEF Next
<1> QED BY <1>2, <1>3

(* The safety part of ImplementsChannel: for every chunk size and stream   *)
(* handle_json is called with the server's messages, in order, each once,  *)
(* and a connection lost between two messages loses only what was not yet  *)
(* handed over.                                                            *)
THEOREM ChannelSafe == Spec => Messages!ChanSafe
<1>1. Init => Messages!ChanInit BY InitRefines
<1>2. IInv /\ IInv' /\ [Next]_vars => [Messages!ChanNext]_(Messages!chanVars)
  BY StepRefines
<1> QED BY <1>1, <1>2, Inductive, PTL DEF Spec, Messages!ChanSafe
=============================================================================
