----------------------------- MODULE FrameReader -----------------------------
(***************************************************************************)
(* How Client cuts the byte stream of the JSON-RPC socket into documents   *)
(* (Client::start_read and Client::handle_read, client.cc).                *)
(*                                                                         *)
(* The stream has no separators.  async_read_until fills m_input_buffer    *)
(* until it holds a '}', handle_read takes at most sizeof(ic) bytes of it  *)
(* and feeds them one by one to m_json_stream, counting brackets; when the *)
(* counter comes back to zero on a '}' the stream is handed to the parser. *)
(*                                                                         *)
(* Every byte the server has sent is kept in `stream`, and the client's    *)
(* buffers are segments of it, delimited by three cursors:                 *)
(*                                                                         *)
(*   1 .. docStart .. pos .. taken .. arrived .. Len(stream)               *)
(*      |  m_json_stream |  ic   | m_input_buffer | in flight              *)
(*                                                                         *)
(* The encoding is exact because each buffer appends what the one to its   *)
(* right gives up, in order, and nothing else.                             *)
(***************************************************************************)
EXTENDS Integers, Sequences

CONSTANTS
  ReadMax,          \* sizeof(ic): what one handle_read takes (512 in the code)
  MaxBytes,         \* bound: bytes the server sends in a behaviour
  MaxDrops,         \* bound: how often the connection is lost and made again
  BracesInStrings   \* may a JSON string hold a '{' or a '}'?

ASSUME FrameAssumption ==
  /\ ReadMax \in Nat \ {0}
  /\ MaxBytes \in Nat
  /\ MaxDrops \in Nat
  /\ BracesInStrings \in BOOLEAN

VARIABLES
  stream,             \* what was sent: [ch: the byte, depth: JSON nesting after it]
  depth,              \* nesting of the message the server is sending, 0 between two
  arrived,            \* end of m_input_buffer
  taken,              \* end of ic, start of m_input_buffer
  pos,                \* loop index i: end of m_json_stream, start of ic's rest
  docStart,           \* start of m_json_stream
  m_bracket_counter,
  frames,             \* <<from, to>> segments handed to m_reader.parse
  ioPc,               \* "reading": async_read_until outstanding; "loop": in handle_read
  drops,              \* connections lost so far
  clean               \* history: no drop inside a message, no brace in a string yet

vars == <<stream, depth, arrived, taken, pos, docStart, m_bracket_counter,
          frames, ioPc, drops, clean>>
serverVars == <<stream, depth>>
readerVars == <<taken, pos, docStart, m_bracket_counter, frames, ioPc>>
historyVars == <<drops, clean>>

Byte == [ch : {"open", "close", "text"}, depth : Nat]

(* Nesting after the first i bytes.                                        *)
DepthAt(i) == IF i = 0 THEN 0 ELSE stream[i].depth

(* The positions at which a message of the server ends.                    *)
Ends == {i \in 1..Len(stream) : stream[i].depth = 0}

(* m_input_buffer holds the delimiter async_read_until waits for.          *)
DelimiterBuffered == \E i \in (taken + 1)..arrived : stream[i].ch = "close"

Init ==
  /\ stream = <<>> /\ depth = 0
  /\ arrived = 0 /\ taken = 0 /\ pos = 0 /\ docStart = 0
  /\ m_bracket_counter = 0
  /\ frames = {}
  /\ ioPc = "reading"
  /\ drops = 0
  /\ clean = TRUE

-----------------------------------------------------------------------------
(* The server.  It writes well-formed JSON objects, byte by byte.          *)

Emit(ch, after) ==
  /\ Len(stream) < MaxBytes
  /\ stream' = Append(stream, [ch |-> ch, depth |-> after])
  /\ depth' = after
  /\ UNCHANGED <<arrived, readerVars, drops>>

SendOpen == Emit("open", depth + 1) /\ UNCHANGED clean
SendClose == depth > 0 /\ Emit("close", depth - 1) /\ UNCHANGED clean
SendText == depth > 0 /\ Emit("text", depth) /\ UNCHANGED clean

(* A brace inside a string literal: the nesting does not change.           *)
SendQuotedBrace ==
  /\ BracesInStrings
  /\ depth > 0
  /\ \E ch \in {"open", "close"} : Emit(ch, depth)
  /\ clean' = FALSE

-----------------------------------------------------------------------------
(* The I/O thread.                                                         *)

(* async_read_until: as long as the delimiter is not in m_input_buffer, it *)
(* reads whatever the socket has.                                          *)
Receive ==
  /\ ioPc = "reading"
  /\ ~DelimiterBuffered
  /\ \E n \in (arrived + 1)..Len(stream) : arrived' = n
  /\ UNCHANGED <<serverVars, readerVars, historyVars>>

MutReadsomeUnbounded == ReadMax

(* len = is.readsome(ic, sizeof(ic))                                       *)
Readsome == IF arrived - taken > ReadMax THEN ReadMax ELSE arrived - taken

(* Entry of handle_read without error.                                     *)
ReadComplete ==
  /\ ioPc = "reading"
  /\ DelimiterBuffered
  /\ taken' = taken + Readsome
  /\ ioPc' = "loop"
  /\ UNCHANGED <<serverVars, arrived, pos, docStart, m_bracket_counter, frames,
                 historyVars>>

(* m_bracket_counter after the byte ch.                                    *)
CountBracket(ch) ==
  CASE ch = "open" -> m_bracket_counter + 1
    [] ch = "close" -> m_bracket_counter - 1
    [] OTHER    -> m_bracket_counter

MutPostDecrement(ch) == ch = "close" /\ m_bracket_counter = 0

(* The byte ch closes the document collected in m_json_stream.             *)
ClosesDocument(ch) == ch = "close" /\ CountBracket(ch) = 0

(* One round of the for loop: the byte goes to m_json_stream, and when it  *)
(* closes the document the stream is handed to the parser, which reads it  *)
(* to the end (std::getline up to EOF) and so leaves it empty.             *)
LoopByte ==
  /\ ioPc = "loop"
  /\ pos < taken
  /\ pos' = pos + 1
  /\ m_bracket_counter' = CountBracket(stream[pos + 1].ch)
  /\ IF ClosesDocument(stream[pos + 1].ch)
     THEN /\ frames' = frames \cup {<<docStart, pos + 1>>}
          /\ docStart' = pos + 1
     ELSE UNCHANGED <<frames, docStart>>
  /\ UNCHANGED <<serverVars, arrived, taken, ioPc, historyVars>>

MutCounterIsLocal ==
  /\ ioPc = "loop" /\ pos = taken
  /\ ioPc' = "reading"
  /\ m_bracket_counter' = 0
  /\ UNCHANGED <<serverVars, arrived, taken, pos, docStart, frames, historyVars>>

MutBufferIsLocal ==
  /\ ioPc = "loop" /\ pos = taken
  /\ ioPc' = "reading"
  /\ taken' = arrived /\ pos' = arrived
  /\ UNCHANGED <<serverVars, arrived, docStart, m_bracket_counter, frames, historyVars>>

(* End of handle_read: start_read().                                       *)
LoopEnd ==
  /\ ioPc = "loop"
  /\ pos = taken
  /\ ioPc' = "reading"
  /\ UNCHANGED <<serverVars, arrived, taken, pos, docStart, m_bracket_counter,
                 frames, historyVars>>

(* handle_read returns (m_stopped, or an error and disconnect()); later    *)
(* connect() and handle_connect() reach start_read() again.  Nothing on    *)
(* that way resets m_input_buffer, m_json_stream or m_bracket_counter.     *)
(* Bytes in flight are lost, and the server starts between two messages.   *)
DropAndReconnect ==
  /\ ioPc = "reading"
  /\ drops < MaxDrops
  /\ drops' = drops + 1
  /\ stream' = SubSeq(stream, 1, arrived)
  /\ depth' = 0
  /\ clean' = (clean /\ DepthAt(arrived) = 0)
  /\ UNCHANGED <<arrived, readerVars>>

Next ==
  \/ SendOpen \/ SendClose \/ SendText \/ SendQuotedBrace
  \/ Receive \/ ReadComplete \/ LoopByte \/ LoopEnd
  \/ DropAndReconnect

(* The worker thread runs the io_service without pause; the server owes    *)
(* nothing and the connection need not be lost.                            *)
Fairness ==
  WF_vars(Receive) /\ WF_vars(ReadComplete) /\ WF_vars(LoopByte) /\ WF_vars(LoopEnd)

Spec == Init /\ [][Next]_vars
FairSpec == Spec /\ Fairness

-----------------------------------------------------------------------------
(* Properties.                                                             *)

TypeOK ==
  /\ stream \in Seq(Byte) /\ Len(stream) <= MaxBytes
  /\ depth \in Nat
  /\ {arrived, taken, pos, docStart} \subseteq 0..Len(stream)
  /\ m_bracket_counter \in Int
  /\ frames \subseteq (Nat \X Nat)
  /\ ioPc \in {"reading", "loop"}
  /\ drops \in 0..MaxDrops
  /\ clean \in BOOLEAN

(* <<from, to>> is exactly one message: it starts where the one before it  *)
(* ended and holds no other end.                                           *)
IsMessage(f) ==
  /\ f[1] \in Ends \cup {0}
  /\ f[2] \in Ends
  /\ f[1] < f[2]
  /\ \A i \in (f[1] + 1)..(f[2] - 1) : i \notin Ends

(* The comment in handle_read (client.cc:379-382) takes a counter that is  *)
(* back at zero for the end of a response: what is parsed is one message.  *)
FramesAreMessages == \A f \in frames : IsMessage(f)

(* The same, and no message skipped, as long as no connection was lost in  *)
(* the middle of a message and no string held a brace - whatever the       *)
(* segmentation of the stream, the 512-byte chunks, the nesting, and       *)
(* reconnections between two messages.                                     *)
CleanFraming ==
  clean => /\ FramesAreMessages
           /\ \A i \in Ends : i <= pos => \E f \in frames : f[2] = i

(* Every message that has arrived in full has been handed over.            *)
ArrivedAreFramed == \A i \in Ends : i <= arrived => \E f \in frames : f[2] = i

WaitingForSocket == ioPc = "reading" /\ ~DelimiterBuffered

(* When async_read_until waits for the socket no complete message is left  *)
(* behind for the next one to push out, although one read may bring        *)
(* several messages and one handle_read takes ReadMax bytes of them.       *)
NothingStranded == clean /\ WaitingForSocket => ArrivedAreFramed

(* The same without the history condition: the comment in handle_read      *)
(* promises it of every response.                                          *)
EveryResponseFramed == WaitingForSocket => ArrivedAreFramed

-----------------------------------------------------------------------------
(* The inductive invariant behind CleanFraming and NothingStranded.        *)

CursorsOrdered ==
  /\ docStart <= pos /\ pos <= taken /\ taken <= arrived /\ arrived <= Len(stream)
  /\ ioPc = "reading" => pos = taken
  /\ \A f \in frames : f[2] <= docStart

(* A message ends with its closing brace.                                  *)
EndsAreClosed == \A i \in 1..Len(stream) : stream[i].depth = 0 => stream[i].ch = "close"

(* Each byte of the stream changes the nesting by what it counts for.      *)
WellNested ==
  /\ depth = DepthAt(Len(stream))
  /\ \A i \in 1..Len(stream) :
       stream[i].depth = CASE stream[i].ch = "open" -> DepthAt(i - 1) + 1
                           [] stream[i].ch = "close" -> DepthAt(i - 1) - 1
                           [] OTHER              -> DepthAt(i - 1)

(* The counter is the server's nesting at the byte last looked at, and the *)
(* document being collected starts where the last message ended.           *)
CounterFollows ==
  /\ m_bracket_counter = DepthAt(pos)
  /\ docStart \in Ends \cup {0}
  /\ \A i \in (docStart + 1)..pos : i \notin Ends

IInv ==
  /\ TypeOK
  /\ CursorsOrdered
  /\ EndsAreClosed
  /\ clean => WellNested /\ CounterFollows
  /\ CleanFraming

-----------------------------------------------------------------------------
(* Until a string held a brace or a connection was lost inside a message   *)
(* the reader is a FIFO channel of messages: nothing lost but with its     *)
(* connection, no duplication, no reordering, and every message the server *)
(* finishes is handed over eventually.                                     *)
Messages ==
  INSTANCE Channel WITH sent <- Ends, got <- {f[2] : f \in frames}, broken <- ~clean
ImplementsChannel == Messages!ChanSpec
=============================================================================
