------------------------------- MODULE Channel -------------------------------
(***************************************************************************)
(* What the framing of the JSON-RPC stream promises to the rest of Client: *)
(* the messages the server finishes reach handle_json one at a time, in    *)
(* the order in which they were finished, each exactly once.  A connection *)
(* lost between two messages loses the last ones sent and nothing else;    *)
(* once the framing is broken nothing is promised any more.                *)
(*                                                                         *)
(* A message is named by a number that grows along the stream.             *)
(***************************************************************************)
EXTENDS Naturals

VARIABLES
  sent,   \* the messages the server has finished
  got,    \* the ones handed to Client::handle_json
  broken  \* the framing has been broken

chanVars == <<sent, got, broken>>

ChanInit == sent = {} /\ got = {} /\ broken = FALSE

(* The server finishes a message behind all the others.                    *)
Finish ==
  /\ ~broken
  /\ \E m \in sent' : (\A n \in sent : n < m) /\ sent' = sent \cup {m}
  /\ sent' # sent
  /\ UNCHANGED <<got, broken>>

(* The oldest message not yet handed over is handed over.                  *)
Deliver ==
  /\ ~broken
  /\ \E m \in sent \ got : (\A n \in sent \ got : m <= n) /\ got' = got \cup {m}
  /\ UNCHANGED <<sent, broken>>

(* The connection is lost, and with it the last messages sent.             *)
Lose ==
  /\ ~broken
  /\ sent' \subseteq sent /\ got \subseteq sent'
  /\ \A m \in sent', n \in sent \ sent' : m < n
  /\ UNCHANGED <<got, broken>>

(* What is promised of a channel that is broken: nothing.                  *)
Broken == broken' = TRUE

ChanNext == Finish \/ Deliver \/ Lose \/ Broken

ChanSafe == ChanInit /\ [][ChanNext]_chanVars
ChanSpec == ChanSafe /\ WF_chanVars(Deliver)
=============================================================================
