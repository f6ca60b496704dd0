----------------------- MODULE ConnectionBounds_proofs -----------------------
(***************************************************************************)
(* What a call of connect() leaves under way, for any number of calls and  *)
(* endpoints: one chain of attempts and reads, one cycle of pings, one     *)
(* handshake; and what the last says of a client that connects once, or    *)
(* again only when it has come to rest.                                    *)
(***************************************************************************)
EXTENDS Connection_proofs, FiniteSetTheorems

(* How many elements of s are in K.                                        *)
Places(s, K) == {i \in DOMAIN s : s[i] \in K}
Count(s, K) == Cardinality(Places(s, K))

-----------------------------------------------------------------------------
(* Counting in a queue.                                                    *)

(* What is counted in a sequence is finitely much.                         *)
LEMMA CountType ==
  ASSUME NEW S, NEW s \in Seq(S), NEW K
  PROVE  IsFiniteSet(Places(s, K)) /\ Count(s, K) \in Nat
<1>1. IsFiniteSet(1..Len(s)) BY FS_Interval
<1>2. Places(s, K) \subseteq 1..Len(s) BY DEF Places
<1>3. IsFiniteSet(Places(s, K)) BY <1>1, <1>2, FS_Subset
<1> QED BY <1>3, FS_CardinalityType DEF Count

(* Nothing is counted in the empty queue, and what holds one element of K  *)
(* counts one at least.                                                    *)
LEMMA CountPresent ==
  ASSUME NEW S, NEW s \in Seq(S), NEW K
  PROVE  /\ Count(<<>>, K) = 0
         /\ \A i \in DOMAIN s : s[i] \in K => Count(s, K) > 0
<1>1. Places(<<>>, K) = {} BY DEF Places
<1>2. Count(<<>>, K) = 0 BY <1>1, FS_EmptySet DEF Count
<1>3. ASSUME NEW i \in DOMAIN s, s[i] \in K PROVE Count(s, K) > 0
  <2>1. Places(s, K) # {} BY <1>3 DEF Places
  <2>2. Count(s, K) # 0 BY <2>1, CountType, FS_EmptySet DEF Count
  <2> QED BY <2>2, CountType
<1> QED BY <1>2, <1>3

(* A smaller set counts less.                                              *)
LEMMA CountSubset ==
  ASSUME NEW S, NEW s \in Seq(S), NEW K, NEW L, L \subseteq K
  PROVE  Count(s, L) <= Count(s, K)
<1>1. Places(s, L) \subseteq Places(s, K) BY DEF Places
<1> QED BY <1>1, CountType, FS_Subset DEF Count

(* One element counts one or nothing.                                      *)
LEMMA CountOne ==
  ASSUME NEW e, NEW K
  PROVE  Count(<<e>>, K) = IF e \in K THEN 1 ELSE 0
<1>1. Places(<<e>>, K) = IF e \in K THEN {1} ELSE {} BY DEF Places
<1> QED BY <1>1, FS_EmptySet, FS_Singleton DEF Count

(* The places of K in s \o t are those in s, and those in t further on.    *)
LEMMA CountConcat ==
  ASSUME NEW S, NEW s \in Seq(S), NEW t \in Seq(S), NEW K
  PROVE  Count(s \o t, K) = Count(s, K) + Count(t, K)
<1> DEFINE n == Len(s)
           A == Places(s, K)
           B == Places(t, K)
           C == {j \in n + 1 .. n + Len(t) : (s \o t)[j] \in K}
           f == [i \in B |-> n + i]
<1>1. n \in Nat /\ Len(t) \in Nat /\ DOMAIN s = 1..n /\ DOMAIN t = 1..Len(t)
      /\ DOMAIN (s \o t) = 1 .. n + Len(t)
      /\ (\A i \in 1..n : (s \o t)[i] = s[i])
      /\ (\A i \in 1..Len(t) : (s \o t)[n + i] = t[i])
  OBVIOUS
<1>2. Places(s \o t, K) = A \cup C /\ A \cap C = {}
  <2>1. A = {i \in 1..n : s[i] \in K} BY <1>1 DEF Places
  <2>2. Places(s \o t, K) = {i \in 1 .. n + Len(t) : (s \o t)[i] \in K}
    BY <1>1 DEF Places
  <2>3. A = {i \in 1..n : (s \o t)[i] \in K} BY ONLY <1>1, <2>1
  <2> HIDE DEF n, A
  <2>4. 1 .. n + Len(t) = 1..n \cup (n + 1 .. n + Len(t))
        /\ 1..n \cap (n + 1 .. n + Len(t)) = {}
    BY <1>1
  <2> QED BY <2>2, <2>3, <2>4
<1>3. f \in Bijection(B, C)
  <2>1. B = {i \in 1..Len(t) : t[i] \in K} BY <1>1 DEF Places
  <2> HIDE DEF n, B
  <2>2. f \in [B -> C] BY <1>1, <2>1
  <2>3. \A i, j \in B : f[i] = f[j] => i = j BY <1>1, <2>1
  <2>4. \A j \in C : \E i \in B : f[i] = j
    <3>1. SUFFICES ASSUME NEW j \in C PROVE \E i \in B : f[i] = j
      OBVIOUS
    <3>2. j - n \in 1..Len(t) /\ n + (j - n) = j BY <1>1
    <3>3. j - n \in B BY <1>1, <2>1, <3>2
    <3>4. f[j - n] = j BY <3>2, <3>3
    <3> QED BY <3>3, <3>4
  <2> QED BY <2>2, <2>3, <2>4 DEF Bijection, Injection, Surjection, IsInjective
<1>4. IsFiniteSet(A) /\ IsFiniteSet(B) /\ Cardinality(A) \in Nat BY CountType DEF Count
<1>5. IsFiniteSet(C) /\ Cardinality(C) = Cardinality(B)
  BY <1>3, <1>4, FS_Bijection DEF ExistsBijection
<1>6. Cardinality(B) \in Nat BY <1>4, FS_CardinalityType
<1>7. Cardinality(A \cup C) = Cardinality(A) + Cardinality(C) - Cardinality(A \cap C)
  BY <1>4, <1>5, FS_Union
<1>8. Cardinality(A \cap C) = 0 BY <1>2, FS_EmptySet
<1>9. Cardinality(A \cup C) = Cardinality(A) + Cardinality(B)
  <2> HIDE DEF A, B, C
  <2> QED BY <1>4, <1>5, <1>6, <1>7, <1>8
<1> QED BY <1>2, <1>9 DEF Count

(* Appending counts the element.                                           *)
LEMMA CountAppend ==
  ASSUME NEW S, NEW s \in Seq(S), NEW e \in S, NEW K
  PROVE  Count(Append(s, e), K) = Count(s, K) + (IF e \in K THEN 1 ELSE 0)
<1>1. <<e>> \in Seq(S) OBVIOUS
<1>2. Append(s, e) = s \o <<e>> BY AppendIsConcat
<1>3. Count(s \o <<e>>, K) = Count(s, K) + Count(<<e>>, K) BY <1>1, CountConcat
<1> QED BY <1>2, <1>3, CountOne

(* Popping takes the head away.                                            *)
LEMMA CountTail ==
  ASSUME NEW S, NEW s \in Seq(S), s # <<>>, NEW K
  PROVE  /\ Head(s) \in S /\ Tail(s) \in Seq(S)
         /\ Count(s, K) = Count(Tail(s), K) + (IF Head(s) \in K THEN 1 ELSE 0)
<1>1. Head(s) \in S /\ Tail(s) \in Seq(S) /\ <<Head(s)>> \in Seq(S) OBVIOUS
<1>2. s = <<Head(s)>> \o Tail(s) OBVIOUS
<1>3. Count(s, K) = Count(<<Head(s)>>, K) + Count(Tail(s), K)
  BY <1>1, <1>2, CountConcat
<1>4. Count(Tail(s), K) \in Nat BY <1>1, CountType
<1> QED BY <1>1, <1>3, <1>4, CountOne

(* n equal completions count n or nothing.                                 *)
LEMMA CountRepeat ==
  ASSUME NEW k, NEW n \in Nat, NEW K
  PROVE  Count(Repeat(k, n), K) = IF Done(k) \in K THEN n ELSE 0
<1>1. Places(Repeat(k, n), K) = IF Done(k) \in K THEN 1..n ELSE {}
  BY DEF Places, Repeat
<1>2. Cardinality(1..n) = n BY FS_Interval
<1> QED BY <1>1, <1>2, FS_EmptySet DEF Count

-----------------------------------------------------------------------------
(* The three totals and the completions each counts.                       *)

(* The completions that belong to an attempt or a read.                    *)
ChainDone ==
  {c \in Completion : c.kind \in {"connected", "connectError", "message", "readError"}}

(* Those that belong to a ping, or to the attempt that will send one.      *)
CycleDone ==
  {c \in Completion : c.kind \in {"connected", "connectError", "ping"} \/ c.msg = "pong"}

(* Those that carry the handshake: what follows an attempt, one answer     *)
(* after the other, until the connection is shown.                         *)
Steps == Requests \cup {"refused"}
StepDone ==
  {c \in Completion : c.kind \in {"connected", "connectError"} \/ c.msg \in Steps}

Resolving == IF mainPc = "resolving" THEN 1 ELSE 0
Attempting == IF connecting > 0 THEN 1 ELSE 0
Beating == IF heartbeatWait THEN 1 ELSE 0
Shown == m_connected \/ uiConnected \/ dialog = "disconnect"
Showing == IF Shown THEN 1 ELSE 0

ChainTotal == reads + Attempting + Resolving + Count(ready, ChainDone)
CycleTotal == pings + Beating + Attempting + Resolving
              + Count(ready, CycleDone) + Count(idle, {"pong"})
StepTotal == Cardinality(asked) + Showing + Attempting + Resolving
             + Count(ready, StepDone) + Count(idle, Steps)

Within(max) == ChainTotal <= max /\ CycleTotal <= max /\ StepTotal <= max

(* All that is added up is a natural number.                               *)
LEMMA TotalTypes ==
  ASSUME TypeOK
  PROVE  /\ reads \in Nat /\ pings \in Nat /\ calls \in Nat
         /\ Cardinality(asked) \in Nat /\ IsFiniteSet(asked)
         /\ Resolving \in {0, 1} /\ Attempting \in {0, 1}
         /\ Beating \in {0, 1} /\ Showing \in {0, 1}
         /\ Count(ready, ChainDone) \in Nat /\ Count(ready, CycleDone) \in Nat
         /\ Count(ready, StepDone) \in Nat
         /\ Count(idle, {"pong"}) \in Nat /\ Count(idle, Steps) \in Nat
<1>1. Requests = ({"players"} \cup {"items"}) \cup {"props"} BY DEF Requests
<1>2. IsFiniteSet({"players"}) BY FS_Singleton
<1>3. IsFiniteSet({"players"} \cup {"items"}) BY <1>2, FS_AddElement
<1>4. IsFiniteSet(Requests) BY <1>1, <1>3, FS_AddElement
<1>5. IsFiniteSet(asked) /\ Cardinality(asked) \in Nat
  BY <1>4, FS_Subset, FS_CardinalityType DEF TypeOK
<1>6. \A K : Count(ready, K) \in Nat /\ Count(idle, K) \in Nat
  BY CountType DEF TypeOK
<1>7. reads \in Nat /\ pings \in Nat /\ calls \in Nat
  BY ConnectionAssumption DEF TypeOK
<1> QED BY <1>5, <1>6, <1>7 DEF Resolving, Attempting, Beating, Showing

(* The totals before a step.                                               *)
LEMMA TotalsNow ==
  /\ ChainTotal = reads + Attempting + Resolving + Count(ready, ChainDone)
  /\ CycleTotal = pings + Beating + Attempting + Resolving
                   + Count(ready, CycleDone) + Count(idle, {"pong"})
  /\ StepTotal = Cardinality(asked) + Showing + Attempting + Resolving
                  + Count(ready, StepDone) + Count(idle, Steps)
BY DEF ChainTotal, CycleTotal, StepTotal

(* The totals after a step.                                                *)
LEMMA TotalsNext ==
  /\ ChainTotal' = reads' + Attempting' + Resolving' + Count(ready', ChainDone)
  /\ CycleTotal' = pings' + Beating' + Attempting' + Resolving'
                    + Count(ready', CycleDone) + Count(idle', {"pong"})
  /\ StepTotal' = Cardinality(asked') + Showing' + Attempting' + Resolving'
                   + Count(ready', StepDone) + Count(idle', Steps)
BY DEF ChainTotal, CycleTotal, StepTotal

(* Each bound before a step, and what it says after it.                    *)
LEMMA ChainBound ==
  ASSUME NEW max \in Nat, IInv, Within(max)
  PROVE  /\ reads \in Nat /\ Attempting \in {0, 1} /\ Resolving \in {0, 1}
         /\ Count(ready, ChainDone) \in Nat
         /\ reads + Attempting + Resolving + Count(ready, ChainDone) <= max
         /\ reads' + Attempting' + Resolving' + Count(ready', ChainDone) <= max
              => ChainTotal' <= max
<1>1. reads' + Attempting' + Resolving' + Count(ready', ChainDone) <= max
        => ChainTotal' <= max
  BY TotalsNext
<1>2. reads + Attempting + Resolving + Count(ready, ChainDone) <= max
  BY TotalsNow DEF Within
<1> QED BY <1>1, <1>2, TotalTypes DEF IInv

LEMMA CycleBound ==
  ASSUME NEW max \in Nat, IInv, Within(max)
  PROVE  /\ pings \in Nat /\ Attempting \in {0, 1} /\ Resolving \in {0, 1}
         /\ Beating \in {0, 1}
         /\ Count(ready, CycleDone) \in Nat /\ Count(idle, {"pong"}) \in Nat
         /\ pings + Beating + Attempting + Resolving
              + Count(ready, CycleDone) + Count(idle, {"pong"}) <= max
         /\ pings' + Beating' + Attempting' + Resolving'
              + Count(ready', CycleDone) + Count(idle', {"pong"}) <= max
              => CycleTotal' <= max
<1>1. pings' + Beating' + Attempting' + Resolving'
        + Count(ready', CycleDone) + Count(idle', {"pong"}) <= max
        => CycleTotal' <= max
  BY TotalsNext
<1>2. pings + Beating + Attempting + Resolving
        + Count(ready, CycleDone) + Count(idle, {"pong"}) <= max
  BY TotalsNow DEF Within
<1> QED BY <1>1, <1>2, TotalTypes DEF IInv

LEMMA StepBound ==
  ASSUME NEW max \in Nat, IInv, Within(max)
  PROVE  /\ Cardinality(asked) \in Nat
         /\ Attempting \in {0, 1} /\ Resolving \in {0, 1} /\ Showing \in {0, 1}
         /\ Count(ready, StepDone) \in Nat /\ Count(idle, Steps) \in Nat
         /\ Cardinality(asked) + Showing + Attempting + Resolving
              + Count(ready, StepDone) + Count(idle, Steps) <= max
         /\ Cardinality(asked') + Showing' + Attempting' + Resolving'
              + Count(ready', StepDone) + Count(idle', Steps) <= max
              => StepTotal' <= max
<1>1. Cardinality(asked') + Showing' + Attempting' + Resolving'
        + Count(ready', StepDone) + Count(idle', Steps) <= max
        => StepTotal' <= max
  BY TotalsNext
<1>2. Cardinality(asked) + Showing + Attempting + Resolving
        + Count(ready, StepDone) + Count(idle, Steps) <= max
  BY TotalsNow DEF Within
<1> QED BY <1>1, <1>2, TotalTypes DEF IInv

(* Which completions each total counts.                                    *)
LEMMA Counted ==
  /\ \A i \in 1..MaxEndpoints, k \in {"connected", "connectError"} :
       /\ ConnectDone(k, i) \in ChainDone
       /\ ConnectDone(k, i) \in CycleDone
       /\ ConnectDone(k, i) \in StepDone
  /\ \A m \in Messages :
       /\ MessageRead(m) \in ChainDone
       /\ MessageRead(m) \in CycleDone <=> m = "pong"
       /\ MessageRead(m) \in StepDone <=> m \in Steps
  /\ Done("readError") \in ChainDone
  /\ Done("readError") \notin CycleDone /\ Done("readError") \notin StepDone
  /\ Done("ping") \in CycleDone
  /\ Done("ping") \notin ChainDone /\ Done("ping") \notin StepDone
  /\ \A k \in {"writeError", "deadline"} :
       Done(k) \notin ChainDone /\ Done(k) \notin CycleDone /\ Done(k) \notin StepDone
<1> USE CompletionTypes DEF ChainDone, CycleDone, StepDone, Steps, Requests
<1>1. \A i \in 1..MaxEndpoints, k \in {"connected", "connectError"} :
       /\ ConnectDone(k, i) \in ChainDone
       /\ ConnectDone(k, i) \in CycleDone
       /\ ConnectDone(k, i) \in StepDone
  BY DEF ConnectDone
<1>2. \A m \in Messages :
       /\ MessageRead(m) \in ChainDone
       /\ MessageRead(m) \in CycleDone <=> m = "pong"
       /\ MessageRead(m) \in StepDone <=> m \in Steps
  BY DEF MessageRead
<1>3. \A k \in {"readError", "writeError", "ping", "deadline"} :
       /\ Done(k) \in ChainDone <=> k = "readError"
       /\ Done(k) \in CycleDone <=> k = "ping"
       /\ Done(k) \notin StepDone
  BY DEF Done
<1> QED BY <1>1, <1>2, <1>3

(* Nothing is under way before start().                                    *)
LEMMA InitTotals == Init => Within(0)
<1> SUFFICES ASSUME Init PROVE Within(0)
  OBVIOUS
<1>1. \A K : Count(<<>>, K) = 0
  <2>1. <<>> \in Seq(Completion) OBVIOUS
  <2> QED BY <2>1, CountPresent
<1>2. Cardinality({}) = 0 BY FS_EmptySet
<1> QED BY <1>1, <1>2 DEF Init, Within, ChainTotal, CycleTotal, StepTotal, Resolving,
        Attempting, Beating, Showing, Shown

-----------------------------------------------------------------------------
(* What the queues count after the pieces that Client's handlers share.    *)

(* Closing the socket turns attempt and reads into completions.            *)
LEMMA AbortedCount ==
  ASSUME TypeOK
  PROVE  /\ Count(AbortedBySocketClose, ChainDone) = Attempting + reads
         /\ Count(AbortedBySocketClose, CycleDone) = Attempting
         /\ Count(AbortedBySocketClose, StepDone) = Attempting
<1> DEFINE a == IF connecting > 0 THEN <<ConnectDone("connectError", connecting)>> ELSE <<>>
           r == Repeat("readError", reads)
<1>1. reads \in Nat BY DEF TypeOK
<1>2. r \in Seq(Completion) BY <1>1, RepeatType
<1>3. connecting > 0 => connecting \in 1..MaxEndpoints
  BY ConnectionAssumption DEF TypeOK
<1>4. a \in Seq(Completion) BY <1>3, CompletionTypes
<1>5. \A K : Count(AbortedBySocketClose, K) = Count(a, K) + Count(r, K)
  BY <1>2, <1>4, CountConcat DEF AbortedBySocketClose
<1>6. /\ Count(r, ChainDone) = reads
      /\ Count(r, CycleDone) = 0 /\ Count(r, StepDone) = 0
  BY <1>1, CountRepeat, Counted
<1>7. /\ Count(a, ChainDone) = Attempting
      /\ Count(a, CycleDone) = Attempting /\ Count(a, StepDone) = Attempting
  <2>1. \A K : Count(<<>>, K) = 0 BY <1>4, CountPresent
  <2>2. CASE connecting > 0
    <3>1. \A K : Count(a, K) = IF ConnectDone("connectError", connecting) \in K THEN 1 ELSE 0
      BY <2>2, CountOne
    <3> HIDE DEF a
    <3> QED BY <1>3, <2>2, <3>1, Counted DEF Attempting
  <2>3. CASE ~(connecting > 0) BY <2>1, <2>3 DEF Attempting
  <2> QED BY <2>2, <2>3
<1> HIDE DEF a, r
<1> QED BY <1>1, <1>5, <1>6, <1>7 DEF Attempting

(* Of the waits that end, the heartbeat's is part of the cycle.            *)
LEMMA WokenCount ==
  /\ Count(WokenByDeadline, ChainDone) = 0
  /\ Count(WokenByDeadline, CycleDone) = 0
  /\ Count(WokenByDeadline, StepDone) = 0
  /\ Count(WokenByHeartbeat, ChainDone) = 0
  /\ Count(WokenByHeartbeat, CycleDone) = Beating
  /\ Count(WokenByHeartbeat, StepDone) = 0
<1>1. \A K : Count(<<>>, K) = 0
  <2>1. <<>> \in Seq(Completion) OBVIOUS
  <2> QED BY <2>1, CountPresent
<1>2. \A K : /\ Count(<<Done("deadline")>>, K) = IF Done("deadline") \in K THEN 1 ELSE 0
             /\ Count(<<Done("ping")>>, K) = IF Done("ping") \in K THEN 1 ELSE 0
  BY CountOne
<1> QED BY <1>1, <1>2, Counted DEF WokenByDeadline, WokenByHeartbeat, Beating

(* Two queues, one behind the other.                                       *)
LEMMA BothCounts ==
  ASSUME NEW s \in Seq(Completion), NEW t \in Seq(Completion)
  PROVE  /\ s \o t \in Seq(Completion)
         /\ Count(s \o t, ChainDone) = Count(s, ChainDone) + Count(t, ChainDone)
         /\ Count(s \o t, CycleDone) = Count(s, CycleDone) + Count(t, CycleDone)
         /\ Count(s \o t, StepDone) = Count(s, StepDone) + Count(t, StepDone)
         /\ Count(s, ChainDone) \in Nat /\ Count(t, ChainDone) \in Nat
         /\ Count(s, CycleDone) \in Nat /\ Count(t, CycleDone) \in Nat
         /\ Count(s, StepDone) \in Nat /\ Count(t, StepDone) \in Nat
<1>1. s \o t \in Seq(Completion) OBVIOUS
<1> QED BY <1>1, CountConcat, CountType

(* One completion more.                                                    *)
LEMMA OneMore ==
  ASSUME NEW s \in Seq(Completion), NEW e \in Completion
  PROVE  /\ Append(s, e) \in Seq(Completion)
         /\ Count(Append(s, e), ChainDone)
              = Count(s, ChainDone) + (IF e \in ChainDone THEN 1 ELSE 0)
         /\ Count(Append(s, e), CycleDone)
              = Count(s, CycleDone) + (IF e \in CycleDone THEN 1 ELSE 0)
         /\ Count(Append(s, e), StepDone)
              = Count(s, StepDone) + (IF e \in StepDone THEN 1 ELSE 0)
BY CountAppend

(* The completion that a handler consumes.                                 *)
LEMMA HeadCounted ==
  ASSUME IInv, NEW k, Running(k)
  PROVE  /\ Head(ready) \in Completion /\ Head(ready).kind = k
         /\ Tail(ready) \in Seq(Completion)
         /\ \A K : /\ Count(Tail(ready), K) \in Nat
                   /\ Count(ready, K)
                        = Count(Tail(ready), K) + (IF Head(ready) \in K THEN 1 ELSE 0)
<1>1. ready # <<>> /\ ready \in Seq(Completion) /\ Head(ready) \in Completion
      /\ Head(ready).kind = k /\ Tail(ready) \in Seq(Completion)
  BY RunningFacts DEF IInv, TypeOK
<1>2. ASSUME NEW K
      PROVE  /\ Count(Tail(ready), K) \in Nat
             /\ Count(ready, K) = Count(Tail(ready), K) + (IF Head(ready) \in K THEN 1 ELSE 0)
  <2>1. Count(Tail(ready), K) \in Nat BY <1>1, CountType
  <2>2. Count(ready, K) = Count(Tail(ready), K) + (IF Head(ready) \in K THEN 1 ELSE 0)
    BY <1>1, CountTail
  <2> QED BY <2>1, <2>2
<1> QED BY <1>1, <1>2

(* What a handler of a given kind consumes of each total.                  *)
LEMMA HeadOf ==
  ASSUME IInv, NEW k, Running(k)
  PROVE  /\ k \in {"connected", "connectError"} =>
              Head(ready) \in ChainDone /\ Head(ready) \in CycleDone /\ Head(ready) \in StepDone
         /\ k \in {"message", "readError"} => Head(ready) \in ChainDone
         /\ k = "ping" => Head(ready) \in CycleDone
         /\ Head(ready).msg = "pong" => Head(ready) \in CycleDone
         /\ Head(ready).msg \in Steps => Head(ready) \in StepDone
BY HeadCounted DEF ChainDone, CycleDone, StepDone

-----------------------------------------------------------------------------
(* The main thread.                                                        *)

(* A call of connect() adds one to each total: the name to resolve.        *)
LEMMA BeginConnectTotals ==
  ASSUME NEW max \in Nat, IInv, Within(max), Start \/ ClickConnect
  PROVE  Within(max + 1)'
<1>1. /\ Resolving = 0 /\ Resolving' = 1 /\ calls' = calls + 1
      /\ UNCHANGED <<reads, pings, asked, ready, idle, Attempting, Beating, Showing>>
  BY DEF Start, ClickConnect, BeginConnect, socketVars, timerVars, uiVars, Resolving,
         Attempting, Beating, Showing, Shown
<1> QED BY <1>1, TotalTypes, TotalsNow, TotalsNext DEF IInv, Within

(* The name resolved turns into an attempt, or its failure.                *)
LEMMA ResolvedTotals ==
  ASSUME NEW max \in Nat, IInv, Within(max), Resolved
  PROVE  Within(max)'
<1> DEFINE woken == ready \o WokenByDeadline
<1>1. ready \in Seq(Completion) BY DEF IInv, TypeOK
<1>2. PICK i \in 1..MaxEndpoints : Attempt(i, socket = "closed", woken)
  BY DEF Resolved
<1>7. woken \in Seq(Completion) BY <1>1, BothCounts, WokenTypes
<1>3. /\ Count(woken, ChainDone) = Count(ready, ChainDone)
      /\ Count(woken, CycleDone) = Count(ready, CycleDone)
      /\ Count(woken, StepDone) = Count(ready, StepDone)
  BY <1>1, BothCounts, WokenTypes, WokenCount
<1>4. /\ Resolving = 1 /\ Resolving' = 0 /\ calls' = calls
      /\ UNCHANGED <<reads, pings, asked, idle, Beating, Showing>>
  BY DEF Resolved, stateVars, uiVars, Resolving, Beating, Showing, Shown
<1>5. CASE socket = "closed"
  <2>1. ready' = woken /\ Attempting' = 1
    BY <1>2, <1>5 DEF Attempt, Attempting
  <2> HIDE DEF woken
  <2> QED BY <1>3, <1>4, <2>1, TotalTypes, TotalsNow, TotalsNext DEF IInv, Within
<1>6. CASE socket # "closed"
  <2> DEFINE e == ConnectDone("connectError", i)
  <2>1. ready' = Append(woken, e) BY <1>2, <1>6 DEF Attempt
  <2>4. Attempting' = Attempting BY <1>2, <1>6 DEF Attempt, Attempting
  <2>2. e \in Completion /\ e \in ChainDone /\ e \in CycleDone /\ e \in StepDone
    BY CompletionTypes, Counted
  <2> HIDE DEF woken, e
  <2>3. /\ Count(ready', ChainDone) = Count(ready, ChainDone) + 1
        /\ Count(ready', CycleDone) = Count(ready, CycleDone) + 1
        /\ Count(ready', StepDone) = Count(ready, StepDone) + 1
    BY <1>3, <1>7, <2>1, <2>2, OneMore
  <2> QED BY <1>4, <2>3, <2>4, TotalTypes, TotalsNow, TotalsNext DEF IInv, Within
<1> QED BY <1>5, <1>6

(* The dialog, the resolver's exception, the flags of ClickDisconnect.     *)
LEMMA UserTotals ==
  ASSUME NEW max \in Nat, IInv, Within(max),
         OpenDialog \/ CloseDialog \/ ResolveFails \/ ClickDisconnect
  PROVE  Within(max)'
<1>1. /\ Resolving' \in {0, Resolving} /\ calls' = calls
      /\ UNCHANGED <<reads, pings, asked, ready, idle, Attempting, Beating>>
      /\ Showing' \in {0, Showing}
  BY DEF OpenDialog, ConstructConnectionPage, CloseDialog, ResolveFails, ClickDisconnect,
         StopFlags, stateVars, socketVars, timerVars, uiVars, Resolving,
         Attempting, Beating, Showing, Shown
<1> QED BY <1>1, TotalTypes, TotalsNow, TotalsNext DEF IInv, Within

(* disconnect() turns what it ends into completions.                       *)
LEMMA TeardownTotals ==
  ASSUME NEW max \in Nat, IInv, Within(max), MainTeardown \/ WorkerTeardown
  PROVE  Within(max)'
<1> DEFINE x == ready \o AbortedBySocketClose
           y == x \o WokenByDeadline
<1>1. ready \in Seq(Completion) /\ TypeOK /\ idle \in Seq(Messages \cup {"gone"})
  BY DEF IInv, TypeOK
<1>2. Teardown /\ Resolving' \in {0, Resolving} /\ calls' = calls /\ Showing' = Showing
  BY DEF MainTeardown, WorkerTeardown, stateVars, uiVars, Resolving, Showing, Shown
<1>3. ready' = y \o WokenByHeartbeat BY <1>2 DEF Teardown
<1>4. /\ x \in Seq(Completion)
      /\ Count(x, ChainDone) = Count(ready, ChainDone) + Attempting + reads
      /\ Count(x, CycleDone) = Count(ready, CycleDone) + Attempting
      /\ Count(x, StepDone) = Count(ready, StepDone) + Attempting
  BY <1>1, BothCounts, AbortedType, AbortedCount, TotalTypes
<1> HIDE DEF x
<1>5. /\ y \in Seq(Completion)
      /\ Count(y, ChainDone) = Count(x, ChainDone)
      /\ Count(y, CycleDone) = Count(x, CycleDone)
      /\ Count(y, StepDone) = Count(x, StepDone)
  BY <1>4, BothCounts, WokenTypes, WokenCount
<1> HIDE DEF y
<1>6. /\ Count(ready', ChainDone) = Count(y, ChainDone)
      /\ Count(ready', CycleDone) = Count(y, CycleDone) + Beating
      /\ Count(ready', StepDone) = Count(y, StepDone)
  BY <1>3, <1>5, BothCounts, WokenTypes, WokenCount
<1>7. reads' = 0 /\ pings' = 0 /\ asked' = {} /\ Attempting' = 0 /\ Beating' = 0
  BY <1>2 DEF Teardown, CloseSocket, Attempting, Beating
<1>8. Cardinality({}) = 0 BY FS_EmptySet
<1>9. Count(idle', {"pong"}) = Count(idle, {"pong"})
      /\ Count(idle', Steps) = Count(idle, Steps)
  <2>1. idle' = Append(idle, "gone") BY <1>2 DEF Teardown
  <2>2. "gone" \notin {"pong"} /\ "gone" \notin Steps BY DEF Steps, Requests
  <2>3. \A K : Count(idle', K) = Count(idle, K) + (IF "gone" \in K THEN 1 ELSE 0)
    BY <1>1, <2>1, CountAppend
  <2> QED BY <1>1, <2>2, <2>3, TotalTypes
<1>10. /\ Count(ready', ChainDone) = Count(ready, ChainDone) + Attempting + reads
       /\ Count(ready', CycleDone) = Count(ready, CycleDone) + Attempting + Beating
       /\ Count(ready', StepDone) = Count(ready, StepDone) + Attempting
  BY <1>4, <1>5, <1>6
<1> QED BY <1>2, <1>7, <1>8, <1>9, <1>10, TotalTypes, TotalsNow, TotalsNext
        DEF IInv, Within

(* write() of a request: at most that request is added.                    *)
LEMMA WriteCount ==
  ASSUME IInv, NEW r \in Requests, Write(r)
  PROVE  /\ Cardinality(asked') \in Nat /\ Cardinality(asked') <= Cardinality(asked) + 1
         /\ Count(ready', ChainDone) = Count(ready, ChainDone)
         /\ Count(ready', CycleDone) = Count(ready, CycleDone)
         /\ Count(ready', StepDone) = Count(ready, StepDone)
<1>1. Cardinality(asked') \in Nat /\ Cardinality(asked') <= Cardinality(asked) + 1
  <2>1. TypeOK BY DEF IInv
  <2>2. IsFiniteSet(asked) /\ Cardinality(asked) \in Nat BY <2>1, TotalTypes
  <2>3. asked' \in {asked, asked \cup {r}} BY DEF Write
  <2>4. Cardinality(asked \cup {r}) \in {Cardinality(asked), Cardinality(asked) + 1}
    BY <2>2, FS_AddElement
  <2>5. CASE asked' = asked BY <2>2, <2>5
  <2>6. CASE asked' = asked \cup {r} BY <2>2, <2>4, <2>6
  <2> QED BY <2>3, <2>5, <2>6
<1>2. ready' \in {ready, Append(ready, Done("writeError"))} BY DEF Write
<1>3. /\ Done("writeError") \in Completion /\ Done("writeError") \notin ChainDone
      /\ Done("writeError") \notin CycleDone /\ Done("writeError") \notin StepDone
  BY CompletionTypes, Counted
<1>4. ready \in Seq(Completion) /\ TypeOK BY DEF IInv, TypeOK
<1>5. /\ Count(Append(ready, Done("writeError")), ChainDone) = Count(ready, ChainDone)
      /\ Count(Append(ready, Done("writeError")), CycleDone) = Count(ready, CycleDone)
      /\ Count(Append(ready, Done("writeError")), StepDone) = Count(ready, StepDone)
  BY <1>3, <1>4, OneMore, TotalTypes
<1> QED BY <1>1, <1>2, <1>5

(* A callback that the main loop takes from its queue.                     *)
LEMMA DispatchCount ==
  ASSUME IInv, NEW m, Dispatch(m)
  PROVE  /\ Resolving = 0 /\ Resolving' = 0
         /\ Count(idle', {"pong"}) \in Nat /\ Count(idle', Steps) \in Nat
         /\ Count(idle, {"pong"}) = Count(idle', {"pong"}) + (IF m = "pong" THEN 1 ELSE 0)
         /\ Count(idle, Steps) = Count(idle', Steps) + (IF m \in Steps THEN 1 ELSE 0)
<1>1. idle \in Seq(Messages \cup {"gone"}) /\ idle # <<>> /\ Head(idle) = m
  BY DEF IInv, TypeOK, Dispatch
<1>2. idle' = Tail(idle) BY DEF Dispatch
<1>3. \A K : /\ Count(Tail(idle), K) \in Nat
             /\ Count(idle, K) = Count(Tail(idle), K) + (IF m \in K THEN 1 ELSE 0)
  <2> SUFFICES ASSUME NEW K
               PROVE  /\ Count(Tail(idle), K) \in Nat
                      /\ Count(idle, K) = Count(Tail(idle), K) + (IF m \in K THEN 1 ELSE 0)
    OBVIOUS
  <2>1. Tail(idle) \in Seq(Messages \cup {"gone"})
        /\ Count(idle, K) = Count(Tail(idle), K) + (IF Head(idle) \in K THEN 1 ELSE 0)
    BY <1>1, CountTail
  <2>2. Count(Tail(idle), K) \in Nat BY <2>1, CountType
  <2> QED BY <1>1, <2>1, <2>2
<1>4. Resolving = 0 /\ Resolving' = 0 BY DEF Dispatch, Resolving
<1> QED BY <1>2, <1>3, <1>4

(* An answer gives way to the next request of the handshake.               *)
LEMMA AnswerTotals ==
  ASSUME NEW max \in Nat, IInv, Within(max), OnPlayers \/ OnItemsPlayer
  PROVE  Within(max)'
<1>1. PICK m \in {"players", "items"}, r \in Requests : Dispatch(m) /\ Write(r)
  BY DEF OnPlayers, OnItemsPlayer, Requests
<1>2. m \in Steps /\ m # "pong" BY DEF Steps, Requests
<1>3. /\ calls' = calls
      /\ UNCHANGED <<reads, pings, Attempting, Beating, Showing>>
  <2>1. UNCHANGED <<calls, reads, pings, connecting, heartbeatWait>>
    BY <1>1 DEF OnPlayers, OnItemsPlayer, Dispatch
  <2>2. UNCHANGED <<m_connected, uiConnected, dialog>>
    BY DEF OnPlayers, OnItemsPlayer, stateVars, uiVars
  <2> QED BY <2>1, <2>2 DEF Attempting, Beating, Showing, Shown
<1>4. /\ Cardinality(asked') \in Nat /\ Cardinality(asked') <= Cardinality(asked) + 1
      /\ Count(ready', ChainDone) = Count(ready, ChainDone)
      /\ Count(ready', CycleDone) = Count(ready, CycleDone)
      /\ Count(ready', StepDone) = Count(ready, StepDone)
  BY <1>1, WriteCount
<1>5. /\ Resolving = 0 /\ Resolving' = 0
      /\ Count(idle', {"pong"}) = Count(idle, {"pong"})
      /\ Count(idle, Steps) = Count(idle', Steps) + 1 /\ Count(idle', Steps) \in Nat
  BY <1>1, <1>2, DispatchCount
<1> QED BY <1>3, <1>4, <1>5, TotalTypes, TotalsNow, TotalsNext DEF IInv, Within

(* The last answer of the handshake gives way to the connection shown.     *)
LEMMA HandshakeDoneTotals ==
  ASSUME NEW max \in Nat, IInv, Within(max), HandshakeDone
  PROVE  Within(max)'
<1>1. PICK m \in {"props", "items"} : Dispatch(m)
  BY DEF HandshakeDone
<1>2. m \in Steps /\ m # "pong" BY DEF Steps, Requests
<1>3. /\ calls' = calls
      /\ UNCHANGED <<reads, pings, asked, ready, Attempting, Beating>>
      /\ Showing' \in {0, 1}
  BY <1>1 DEF HandshakeDone, Dispatch, Attempting, Beating, Showing
<1>4. /\ Resolving = 0 /\ Resolving' = 0
      /\ Count(idle', {"pong"}) = Count(idle, {"pong"})
      /\ Count(idle, Steps) = Count(idle', Steps) + 1 /\ Count(idle', Steps) \in Nat
  BY <1>1, <1>2, DispatchCount
<1> QED BY <1>3, <1>4, TotalTypes, TotalsNow, TotalsNext DEF IInv, Within

(* A refused request ends its handshake, and "gone" shows nothing new.     *)
LEMMA EndTotals ==
  ASSUME NEW max \in Nat, IInv, Within(max), OnRefused \/ OnGone
  PROVE  Within(max)'
<1>1. PICK m \in {"refused", "gone"} : Dispatch(m)
  BY DEF OnRefused, OnGone
<1>2. m # "pong" BY <1>1
<1>3. /\ calls' = calls
      /\ UNCHANGED <<reads, pings, asked, ready, Attempting, Beating>>
      /\ Showing' \in {0, Showing}
  BY <1>1 DEF OnRefused, OnGone, ShowConnection, SetConnectionWidgets, Dispatch, stateVars, uiVars, Attempting,
              Beating, Showing, Shown
<1>4. /\ Resolving = 0 /\ Resolving' = 0
      /\ Count(idle', {"pong"}) = Count(idle, {"pong"})
      /\ Count(idle', Steps) \in Nat /\ Count(idle', Steps) <= Count(idle, Steps)
  BY <1>1, <1>2, DispatchCount
<1> QED BY <1>3, <1>4, TotalTypes, TotalsNow, TotalsNext DEF IInv, Within

(* A pong starts the timer; the wait it cuts short is the timer's own.     *)
LEMMA OnPongTotals ==
  ASSUME NEW max \in Nat, IInv, Within(max), OnPong
  PROVE  Within(max)'
<1>1. Dispatch("pong") BY DEF OnPong
<1>2. "pong" \notin Steps BY DEF Steps, Requests
<1>3. /\ calls' = calls
      /\ UNCHANGED <<reads, pings, asked, Attempting, Showing>>
      /\ Beating' = 1
  BY <1>1 DEF OnPong, Dispatch, stateVars, uiVars, Attempting, Beating, Showing, Shown
<1>4. /\ Resolving = 0 /\ Resolving' = 0
      /\ Count(idle, {"pong"}) = Count(idle', {"pong"}) + 1 /\ Count(idle', {"pong"}) \in Nat
      /\ Count(idle', Steps) = Count(idle, Steps)
  BY <1>1, <1>2, DispatchCount
<1>5. ready \in Seq(Completion) BY DEF IInv, TypeOK
<1>6. ready' = ready \o WokenByHeartbeat BY DEF OnPong
<1>7. /\ Count(ready', ChainDone) = Count(ready, ChainDone)
      /\ Count(ready', CycleDone) = Count(ready, CycleDone) + Beating
      /\ Count(ready', StepDone) = Count(ready, StepDone)
  BY <1>5, <1>6, BothCounts, WokenTypes, WokenCount
<1> QED BY <1>3, <1>4, <1>7, TotalTypes, TotalsNow, TotalsNext DEF IInv, Within

-----------------------------------------------------------------------------
(* Network and clock.                                                      *)

(* An attempt ends in a completion.                                        *)
LEMMA AttemptEndsTotals ==
  ASSUME NEW max \in Nat, IInv, Within(max), Established \/ Unreachable
  PROVE  Within(max)'
<1>1. PICK k \in {"connected", "connectError"} : ready' = Append(ready, ConnectDone(k, connecting))
  BY DEF Established, Unreachable
<1>2. connecting \in 1..MaxEndpoints
  BY ConnectionAssumption DEF Established, Unreachable, IInv, TypeOK
<1> DEFINE e == ConnectDone(k, connecting)
<1>3. e \in Completion /\ e \in ChainDone /\ e \in CycleDone /\ e \in StepDone
  BY <1>2, CompletionTypes, Counted
<1>4. ready \in Seq(Completion) BY DEF IInv, TypeOK
<1> HIDE DEF e
<1>5. /\ Count(ready', ChainDone) = Count(ready, ChainDone) + 1
      /\ Count(ready', CycleDone) = Count(ready, CycleDone) + 1
      /\ Count(ready', StepDone) = Count(ready, StepDone) + 1
  BY <1>1, <1>3, <1>4, OneMore DEF e
<1>6. /\ Attempting = 1 /\ Attempting' = 0 /\ calls' = calls
      /\ UNCHANGED <<reads, pings, asked, idle, Beating, Showing, Resolving>>
  BY DEF Established, Unreachable, EnvUnchanged, stateVars, uiVars, timerVars,
         Attempting, Beating, Showing, Shown, Resolving
<1> QED BY <1>5, <1>6, TotalTypes, TotalsNow, TotalsNext DEF IInv, Within

(* An answer takes the place of its request, and the read's completion     *)
(* that of the read.                                                       *)
LEMMA ReplyTotals ==
  ASSUME NEW max \in Nat, IInv, Within(max), Reply
  PROVE  Within(max)'
<1>1. /\ reads' = reads - 1 /\ calls' = calls
      /\ idle' = idle /\ Attempting' = Attempting /\ Beating' = Beating
      /\ Showing' = Showing /\ Resolving' = Resolving
  BY DEF Reply, EnvUnchanged, stateVars, uiVars, timerVars,
         Attempting, Beating, Showing, Shown, Resolving
<1>2. ready \in Seq(Completion) BY DEF IInv, TypeOK
<1>3. CASE \E r \in asked : \E m \in {r, "refused"} :
             /\ asked' = asked \ {r}
             /\ ready' = Append(ready, MessageRead(m))
             /\ UNCHANGED pings
  <2> PICK r \in asked : \E m \in {r, "refused"} :
          /\ asked' = asked \ {r}
          /\ ready' = Append(ready, MessageRead(m))
          /\ UNCHANGED pings
    BY <1>3
  <2>1. PICK m \in {r, "refused"} :
          /\ asked' = asked \ {r}
          /\ ready' = Append(ready, MessageRead(m))
          /\ UNCHANGED pings
    OBVIOUS
  <2>2. r \in Requests BY DEF IInv, TypeOK
  <2>3. m \in Messages /\ m \in Steps /\ m # "pong" BY <2>2 DEF Messages, Steps, Requests
  <2> DEFINE e == MessageRead(m)
  <2>4. e \in Completion /\ e \in ChainDone /\ e \notin CycleDone /\ e \in StepDone
    BY <2>3, CompletionTypes, Counted
  <2> HIDE DEF e
  <2>5. /\ Count(Append(ready, e), ChainDone) = Count(ready, ChainDone) + 1
        /\ Count(Append(ready, e), CycleDone) = Count(ready, CycleDone)
        /\ Count(Append(ready, e), StepDone) = Count(ready, StepDone) + 1
    <3>1. Count(ready, CycleDone) \in Nat BY TotalTypes DEF IInv
    <3> QED BY <1>2, <2>4, <3>1, OneMore
  <2>6. ready' = Append(ready, e) BY <2>1 DEF e
  <2>7. /\ Count(ready', ChainDone) = Count(ready, ChainDone) + 1
        /\ Count(ready', CycleDone) = Count(ready, CycleDone)
        /\ Count(ready', StepDone) = Count(ready, StepDone) + 1
    BY <2>5, <2>6
  <2>8. Cardinality(asked') = Cardinality(asked) - 1
    <3>1. IsFiniteSet(asked) BY TotalTypes DEF IInv
    <3> QED BY <2>1, <3>1, FS_RemoveElement
  <2>9. pings' = pings BY <2>1
  <2>10. ChainTotal' <= max BY <1>1, <2>7, ChainBound
  <2>11. CycleTotal' <= max
    BY <1>1, <2>7, <2>9, CycleBound
  <2>12. StepTotal' <= max
    <3>1. /\ Cardinality(asked) \in Nat
         /\ Attempting \in {0, 1} /\ Resolving \in {0, 1} /\ Showing \in {0, 1}
         /\ Count(ready, StepDone) \in Nat /\ Count(idle, Steps) \in Nat
         /\ Cardinality(asked) + Showing + Attempting + Resolving
              + Count(ready, StepDone) + Count(idle, Steps) <= max
      BY StepBound
    <3>2. Cardinality(asked') + Showing' + Attempting' + Resolving'
           + Count(ready', StepDone) + Count(idle', Steps) <= max
      BY <1>1, <2>7, <2>8, <3>1
    <3> QED BY <3>2, TotalsNext
  <2> QED BY <2>10, <2>11, <2>12 DEF Within
<1>4. CASE /\ pings > 0 /\ pings' = pings - 1
           /\ ready' = Append(ready, MessageRead("pong"))
           /\ UNCHANGED asked
  <2> DEFINE e == MessageRead("pong")
  <2>1. e \in Completion /\ e \in ChainDone /\ e \in CycleDone /\ e \notin StepDone
    BY CompletionTypes, Counted DEF Messages, Steps, Requests
  <2> HIDE DEF e
  <2>2. ready' = Append(ready, e) BY <1>4 DEF e
  <2>3. /\ Count(ready', ChainDone) = Count(ready, ChainDone) + 1
        /\ Count(ready', CycleDone) = Count(ready, CycleDone) + 1
        /\ Count(ready', StepDone) = Count(ready, StepDone)
    <3>1. Count(ready, StepDone) \in Nat BY TotalTypes DEF IInv
    <3> QED BY <1>2, <2>1, <2>2, <3>1, OneMore
  <2>4. pings' = pings - 1 /\ asked' = asked BY <1>4
  <2> QED BY <1>1, <2>3, <2>4, TotalTypes, TotalsNow, TotalsNext DEF IInv, Within
<1> QED BY <1>3, <1>4 DEF Reply

(* A reset ends the reads, and what was asked is lost.                     *)
LEMMA PeerClosesTotals ==
  ASSUME NEW max \in Nat, IInv, Within(max), PeerCloses
  PROVE  Within(max)'
<1> DEFINE r == Repeat("readError", reads)
<1>1. ready \in Seq(Completion) /\ reads \in Nat BY DEF IInv, TypeOK
<1>2. r \in Seq(Completion) BY <1>1, RepeatType
<1>3. Count(r, ChainDone) = reads /\ Count(r, CycleDone) = 0 /\ Count(r, StepDone) = 0
  BY <1>1, CountRepeat, Counted
<1>4. ready' = ready \o r BY DEF PeerCloses
<1> HIDE DEF r
<1>5. /\ Count(ready', ChainDone) = Count(ready, ChainDone) + reads
      /\ Count(ready', CycleDone) = Count(ready, CycleDone)
      /\ Count(ready', StepDone) = Count(ready, StepDone)
  BY <1>1, <1>2, <1>3, <1>4, BothCounts
<1>6. /\ reads' = 0 /\ pings' = 0 /\ asked' = {} /\ calls' = calls
      /\ idle' = idle /\ Attempting' = Attempting /\ Beating' = Beating
      /\ Showing' = Showing /\ Resolving' = Resolving
  BY DEF PeerCloses, EnvUnchanged, stateVars, uiVars, timerVars,
         Attempting, Beating, Showing, Shown, Resolving
<1>7. Cardinality({}) = 0 BY FS_EmptySet
<1> QED BY <1>5, <1>6, <1>7, TotalTypes, TotalsNow, TotalsNext DEF IInv, Within

(* check_deadline's completion belongs to no total.                        *)
LEMMA DeadlineTicksTotals ==
  ASSUME NEW max \in Nat, IInv, Within(max), DeadlineTicks
  PROVE  Within(max)'
<1>1. ready \in Seq(Completion) BY DEF IInv, TypeOK
<1>2. ready' = ready \/ ready' = ready \o WokenByDeadline
  BY DEF DeadlineTicks
<1>3. /\ Count(ready \o WokenByDeadline, ChainDone) = Count(ready, ChainDone)
      /\ Count(ready \o WokenByDeadline, CycleDone) = Count(ready, CycleDone)
      /\ Count(ready \o WokenByDeadline, StepDone) = Count(ready, StepDone)
  BY <1>1, BothCounts, WokenTypes, WokenCount
<1>4. /\ Count(ready', ChainDone) = Count(ready, ChainDone)
      /\ Count(ready', CycleDone) = Count(ready, CycleDone)
      /\ Count(ready', StepDone) = Count(ready, StepDone)
  BY <1>2, <1>3
<1>5. /\ calls' = calls
      /\ reads' = reads /\ pings' = pings /\ asked' = asked /\ idle' = idle
      /\ Attempting' = Attempting /\ Beating' = Beating /\ Showing' = Showing
      /\ Resolving' = Resolving
  BY DEF DeadlineTicks, EnvUnchanged, stateVars, uiVars, socketVars,
         Attempting, Beating, Showing, Shown, Resolving
<1> QED BY <1>4, <1>5, TotalTypes, TotalsNow, TotalsNext DEF IInv, Within

(* The timer's wait ends in the completion that will ping.                 *)
LEMMA HeartbeatPassesTotals ==
  ASSUME NEW max \in Nat, IInv, Within(max), HeartbeatPasses
  PROVE  Within(max)'
<1> DEFINE e == Done("ping")
<1>1. ready \in Seq(Completion) BY DEF IInv, TypeOK
<1>2. e \in Completion /\ e \notin ChainDone /\ e \in CycleDone /\ e \notin StepDone
  BY CompletionTypes, Counted
<1>3. ready' = Append(ready, e) BY DEF HeartbeatPasses
<1> HIDE DEF e
<1>4. /\ Count(ready', ChainDone) = Count(ready, ChainDone)
      /\ Count(ready', CycleDone) = Count(ready, CycleDone) + 1
      /\ Count(ready', StepDone) = Count(ready, StepDone)
  <2>1. Count(ready, ChainDone) \in Nat /\ Count(ready, StepDone) \in Nat
    BY TotalTypes DEF IInv
  <2> QED BY <1>1, <1>2, <1>3, <2>1, OneMore
<1>5. /\ calls' = calls /\ Beating = 1 /\ Beating' = 0
      /\ reads' = reads /\ pings' = pings /\ asked' = asked /\ idle' = idle
      /\ Attempting' = Attempting /\ Showing' = Showing /\ Resolving' = Resolving
  BY DEF HeartbeatPasses, EnvUnchanged, stateVars, uiVars, socketVars,
         Attempting, Beating, Showing, Shown, Resolving
<1> QED BY <1>4, <1>5, TotalTypes, TotalsNow, TotalsNext DEF IInv, Within

-----------------------------------------------------------------------------
(* The worker.                                                             *)

(* A handler that m_stopped keeps from running loses its completion.       *)
LEMMA HandlerEnterTotals ==
  ASSUME NEW max \in Nat, IInv, Within(max), HandlerEnter
  PROVE  Within(max)'
<1>1. ready \in Seq(Completion) /\ ready # <<>> BY DEF IInv, TypeOK, HandlerEnter
<1>2. /\ Count(Tail(ready), ChainDone) \in Nat
      /\ Count(Tail(ready), ChainDone) <= Count(ready, ChainDone)
      /\ Count(Tail(ready), CycleDone) \in Nat
      /\ Count(Tail(ready), CycleDone) <= Count(ready, CycleDone)
      /\ Count(Tail(ready), StepDone) \in Nat
      /\ Count(Tail(ready), StepDone) <= Count(ready, StepDone)
  <2>1. Tail(ready) \in Seq(Completion) BY <1>1
  <2>2. \A K : Count(Tail(ready), K) \in Nat BY <2>1, CountType
  <2>3. ASSUME NEW K PROVE Count(Tail(ready), K) <= Count(ready, K)
    <3>1. Count(ready, K) = Count(Tail(ready), K) + (IF Head(ready) \in K THEN 1 ELSE 0)
      BY <1>1, CountTail
    <3> QED BY <2>2, <3>1
  <2> QED BY <2>2, <2>3
<1>3. ready' = ready \/ ready' = Tail(ready) BY DEF HandlerEnter
<1>4. /\ calls' = calls
      /\ reads' = reads /\ pings' = pings /\ asked' = asked /\ idle' = idle
      /\ Attempting' = Attempting /\ Beating' = Beating /\ Showing' = Showing
      /\ Resolving' = Resolving
  BY DEF HandlerEnter, stateVars, uiVars, socketVars, timerVars,
         Attempting, Beating, Showing, Shown, Resolving
<1>5. /\ Count(ready', ChainDone) \in Nat
      /\ Count(ready', ChainDone) <= Count(ready, ChainDone)
      /\ Count(ready', CycleDone) \in Nat
      /\ Count(ready', CycleDone) <= Count(ready, CycleDone)
      /\ Count(ready', StepDone) \in Nat
      /\ Count(ready', StepDone) <= Count(ready, StepDone)
  <2>1. CASE ready' = ready BY <2>1, TotalTypes DEF IInv
  <2>2. CASE ready' = Tail(ready) BY <1>2, <2>2
  <2> QED BY <1>3, <2>1, <2>2
<1> QED BY <1>4, <1>5, TotalTypes, TotalsNow, TotalsNext DEF IInv, Within

(* start_read() queues one read, or its failure, and no more.              *)
LEMMA StartReadTail ==
  ASSUME IInv, NEW k, Running(k),
         NEW after \in {<<>>, <<Done("writeError")>>}, StartRead(after)
  PROVE  /\ reads' \in Nat
         /\ reads' + Count(ready', ChainDone) = reads + Count(Tail(ready), ChainDone) + 1
         /\ Count(ready', ChainDone) \in Nat
         /\ Count(ready', CycleDone) = Count(Tail(ready), CycleDone)
         /\ Count(ready', StepDone) = Count(Tail(ready), StepDone)
<1> DEFINE before == Tail(ready) \o WokenByDeadline
           e == <<Done("readError")>>
<1>1. Tail(ready) \in Seq(Completion) BY HeadCounted
<1>2. /\ before \in Seq(Completion)
      /\ Count(before, ChainDone) = Count(Tail(ready), ChainDone)
      /\ Count(before, CycleDone) = Count(Tail(ready), CycleDone)
      /\ Count(before, StepDone) = Count(Tail(ready), StepDone)
      /\ Count(before, ChainDone) \in Nat
  <2> DEFINE t == Tail(ready)
  <2> HIDE DEF t
  <2>1. t \in Seq(Completion) BY <1>1 DEF t
  <2>2. /\ t \o WokenByDeadline \in Seq(Completion)
        /\ Count(t \o WokenByDeadline, ChainDone) = Count(t, ChainDone)
        /\ Count(t \o WokenByDeadline, CycleDone) = Count(t, CycleDone)
        /\ Count(t \o WokenByDeadline, StepDone) = Count(t, StepDone)
        /\ Count(t, ChainDone) \in Nat
    BY <2>1, BothCounts, WokenTypes, WokenCount
  <2> QED BY <2>2 DEF t
<1>3. /\ after \in Seq(Completion)
      /\ Count(after, ChainDone) = 0 /\ Count(after, CycleDone) = 0
      /\ Count(after, StepDone) = 0
  <2>1. CASE after = <<>>
    <3>1. <<>> \in Seq(Completion) OBVIOUS
    <3> QED BY <2>1, <3>1, CountPresent
  <2>2. CASE after = <<Done("writeError")>>
    <3>1. Done("writeError") \in Completion BY CompletionTypes
    <3>2. after \in Seq(Completion) BY <2>2, <3>1
    <3> QED BY <2>2, <3>2, CountOne, Counted
  <2> QED BY <2>1, <2>2
<1>4. /\ e \in Seq(Completion)
      /\ Count(e, ChainDone) = 1 /\ Count(e, CycleDone) = 0 /\ Count(e, StepDone) = 0
  <2>1. Done("readError") \in Completion BY CompletionTypes
  <2>2. e \in Seq(Completion) BY <2>1
  <2> QED BY <2>2, CountOne, Counted
<1>5. \/ socket = "connected" /\ reads' = reads + 1 /\ ready' = before \o after
      \/ reads' = reads /\ ready' = (before \o e) \o after
  BY DEF StartRead
<1>6. reads \in Nat BY DEF IInv, TypeOK
<1> HIDE DEF before, e
<1>7. /\ Count(before \o after, ChainDone) = Count(Tail(ready), ChainDone)
      /\ Count(before \o after, CycleDone) = Count(Tail(ready), CycleDone)
      /\ Count(before \o after, StepDone) = Count(Tail(ready), StepDone)
  BY <1>2, <1>3, BothCounts
<1>8. /\ before \o e \in Seq(Completion)
      /\ Count(before \o e, ChainDone) = Count(Tail(ready), ChainDone) + 1
      /\ Count(before \o e, CycleDone) = Count(Tail(ready), CycleDone)
      /\ Count(before \o e, StepDone) = Count(Tail(ready), StepDone)
  BY <1>2, <1>4, BothCounts
<1>9. /\ Count((before \o e) \o after, ChainDone) = Count(Tail(ready), ChainDone) + 1
      /\ Count((before \o e) \o after, CycleDone) = Count(Tail(ready), CycleDone)
      /\ Count((before \o e) \o after, StepDone) = Count(Tail(ready), StepDone)
  <2> DEFINE b == before \o e
  <2>1. b \in Seq(Completion) BY <1>8
  <2>2. /\ Count(b, ChainDone) = Count(Tail(ready), ChainDone) + 1
        /\ Count(b, CycleDone) = Count(Tail(ready), CycleDone)
        /\ Count(b, StepDone) = Count(Tail(ready), StepDone)
    BY <1>8
  <2> HIDE DEF b
  <2>3. /\ Count(b \o after, ChainDone) = Count(b, ChainDone)
        /\ Count(b \o after, CycleDone) = Count(b, CycleDone)
        /\ Count(b \o after, StepDone) = Count(b, StepDone)
    BY <1>3, <2>1, BothCounts
  <2> QED BY <2>2, <2>3 DEF b
<1>10. Count(Tail(ready), ChainDone) \in Nat BY <1>1, CountType
<1>11. CASE reads' = reads + 1 /\ ready' = before \o after
  BY <1>6, <1>7, <1>10, <1>11
<1>12. CASE reads' = reads /\ ready' = (before \o e) \o after
  BY <1>6, <1>9, <1>10, <1>12
<1> QED BY <1>5, <1>11, <1>12

(* After a completion of the chain, that read takes its place.             *)
LEMMA StartReadCount ==
  ASSUME IInv, NEW k, Running(k), k \in {"connected", "message"},
         NEW after \in {<<>>, <<Done("writeError")>>}, StartRead(after)
  PROVE  /\ reads' \in Nat /\ Count(ready', ChainDone) \in Nat
         /\ Count(ready', CycleDone) \in Nat /\ Count(ready', StepDone) \in Nat
         /\ reads' + Count(ready', ChainDone) = reads + Count(ready, ChainDone)
         /\ Count(ready, CycleDone) = Count(ready', CycleDone)
                                        + (IF Head(ready) \in CycleDone THEN 1 ELSE 0)
         /\ Count(ready, StepDone) = Count(ready', StepDone)
                                       + (IF Head(ready) \in StepDone THEN 1 ELSE 0)
<1> DEFINE t == Tail(ready)
<1>1. /\ Count(ready, ChainDone) = Count(t, ChainDone) + 1
      /\ Count(ready, CycleDone) = Count(t, CycleDone)
                                     + (IF Head(ready) \in CycleDone THEN 1 ELSE 0)
      /\ Count(ready, StepDone) = Count(t, StepDone)
                                    + (IF Head(ready) \in StepDone THEN 1 ELSE 0)
      /\ Count(t, ChainDone) \in Nat /\ Count(t, CycleDone) \in Nat
      /\ Count(t, StepDone) \in Nat
  <2>1. Head(ready) \in ChainDone BY HeadOf
  <2> QED BY <2>1, HeadCounted
<1>2. /\ reads' \in Nat
      /\ reads' + Count(ready', ChainDone) = reads + Count(t, ChainDone) + 1
      /\ Count(ready', ChainDone) \in Nat
      /\ Count(ready', CycleDone) = Count(t, CycleDone)
      /\ Count(ready', StepDone) = Count(t, StepDone)
  BY StartReadTail
<1>3. reads \in Nat BY DEF IInv, TypeOK
<1> HIDE DEF t
<1> QED BY <1>1, <1>2, <1>3

(* An attempt that succeeded gives way to a read, a ping and the first     *)
(* request of the handshake.                                               *)
LEMMA HandleConnectedTotals ==
  ASSUME NEW max \in Nat, IInv, Within(max), HandleConnected
  PROVE  Within(max)'
<1>1. Running("connected") BY DEF HandleConnected
<1>2. \E after \in {<<>>, <<Done("writeError")>>} : StartRead(after)
  BY DEF HandleConnected
<1>3. Head(ready) \in CycleDone /\ Head(ready) \in StepDone BY <1>1, HeadOf
<1>4. /\ reads' \in Nat /\ Count(ready', ChainDone) \in Nat
      /\ reads' + Count(ready', ChainDone) = reads + Count(ready, ChainDone)
  BY <1>1, <1>2, StartReadCount
<1>5. /\ Count(ready', CycleDone) \in Nat /\ Count(ready', StepDone) \in Nat
      /\ Count(ready, CycleDone) = Count(ready', CycleDone) + 1
      /\ Count(ready, StepDone) = Count(ready', StepDone) + 1
  BY <1>1, <1>2, <1>3, StartReadCount
<1>6. /\ calls' = calls
      /\ idle' = idle /\ Attempting' = Attempting /\ Beating' = Beating
      /\ Showing' = Showing /\ Resolving' = Resolving
  BY DEF HandleConnected, stateVars, uiVars, Attempting, Beating, Showing, Shown, Resolving
<1>7. /\ Cardinality(asked') \in Nat /\ Cardinality(asked') <= Cardinality(asked) + 1
      /\ pings' \in {pings, pings + 1}
  <2>1. asked' \in {asked, asked \cup {"players"}} /\ pings' \in {pings, pings + 1}
    BY DEF HandleConnected
  <2>2. IsFiniteSet(asked) /\ Cardinality(asked) \in Nat BY TotalTypes DEF IInv
  <2>3. Cardinality(asked \cup {"players"}) \in {Cardinality(asked), Cardinality(asked) + 1}
    BY <2>2, FS_AddElement
  <2>4. CASE asked' = asked BY <2>1, <2>2, <2>4
  <2>5. CASE asked' = asked \cup {"players"} BY <2>1, <2>2, <2>3, <2>5
  <2> QED BY <2>1, <2>4, <2>5
<1>8. ChainTotal' <= max
  BY <1>4, <1>6, ChainBound
<1>9. CycleTotal' <= max
  <2>1. pings' \in Nat /\ pings' <= pings + 1 BY <1>7, CycleBound
  <2>2. pings' + Count(ready', CycleDone) <= pings + Count(ready, CycleDone)
    BY <1>5, <2>1, CycleBound
  <2>3. Count(ready', CycleDone) \in Nat BY <1>5
  <2> QED BY <1>6, <2>1, <2>2, <2>3, CycleBound
<1>10. StepTotal' <= max
  <2>1. Cardinality(asked') \in Nat /\ Cardinality(asked') <= Cardinality(asked) + 1
    BY <1>7
  <2>2. Cardinality(asked') + Count(ready', StepDone)
          <= Cardinality(asked) + Count(ready, StepDone)
    BY <1>5, <2>1, StepBound
  <2>3. Count(ready', StepDone) \in Nat BY <1>5
  <2> QED BY <1>6, <2>1, <2>2, <2>3, StepBound
<1> QED BY <1>8, <1>9, <1>10 DEF Within

(* A message read gives way to the next read, and waits for the main loop. *)
LEMMA HandleMessageTotals ==
  ASSUME NEW max \in Nat, IInv, Within(max), HandleMessage
  PROVE  Within(max)'
<1> DEFINE m == Head(ready).msg
<1>1. Running("message") BY DEF HandleMessage
<1>2. StartRead(<<>>) BY DEF HandleMessage
<1>3. Head(ready) \in ChainDone /\ Head(ready) \in Completion /\ m \in Messages
  BY <1>1, HeadOf, HeadCounted, CompletionFields
<1>4. /\ reads' \in Nat /\ Count(ready', ChainDone) \in Nat
      /\ reads' + Count(ready', ChainDone) = reads + Count(ready, ChainDone)
  BY <1>1, <1>2, StartReadCount
<1>5. /\ Count(ready', CycleDone) \in Nat /\ Count(ready', StepDone) \in Nat
      /\ Count(ready, CycleDone) = Count(ready', CycleDone)
                                     + (IF Head(ready) \in CycleDone THEN 1 ELSE 0)
      /\ Count(ready, StepDone) = Count(ready', StepDone)
                                    + (IF Head(ready) \in StepDone THEN 1 ELSE 0)
  BY <1>1, <1>2, StartReadCount
<1>6. /\ Count(idle', {"pong"}) = Count(idle, {"pong"}) + (IF m \in {"pong"} THEN 1 ELSE 0)
      /\ Count(idle', Steps) = Count(idle, Steps) + (IF m \in Steps THEN 1 ELSE 0)
  <2>1. idle \in Seq(Messages \cup {"gone"}) /\ idle' = Append(idle, m)
    BY DEF IInv, TypeOK, HandleMessage, HandleJson
  <2> QED BY <1>3, <2>1, CountAppend
<1>7. m \in {"pong"} => Head(ready) \in CycleDone BY <1>1, HeadOf
<1>8. m \in Steps => Head(ready) \in StepDone BY <1>1, HeadOf
<1>9. /\ calls' = calls
      /\ pings' = pings /\ asked' = asked /\ Attempting' = Attempting
      /\ Beating' = Beating /\ Showing' = Showing /\ Resolving' = Resolving
  BY DEF HandleMessage, stateVars, uiVars, Attempting, Beating, Showing, Shown, Resolving
<1> HIDE DEF m
<1>10. /\ Count(ready', CycleDone) + Count(idle', {"pong"})
            <= Count(ready, CycleDone) + Count(idle, {"pong"})
       /\ Count(ready', StepDone) + Count(idle', Steps)
            <= Count(ready, StepDone) + Count(idle, Steps)
       /\ Count(ready', CycleDone) \in Nat /\ Count(idle', {"pong"}) \in Nat
       /\ Count(ready', StepDone) \in Nat /\ Count(idle', Steps) \in Nat
  <2>1. Count(idle, {"pong"}) \in Nat /\ Count(idle, Steps) \in Nat
    BY TotalTypes DEF IInv
  <2> QED BY <1>5, <1>6, <1>7, <1>8, <2>1
<1>11. ChainTotal' <= max
  BY <1>4, <1>9, ChainBound
<1>12. CycleTotal' <= max
  BY <1>9, <1>10, CycleBound
<1>13. StepTotal' <= max
  BY <1>9, <1>10, StepBound
<1> QED BY <1>11, <1>12, <1>13 DEF Within

(* A failed attempt gives way to the next one, if any.                     *)
LEMMA HandleConnectFailedTotals ==
  ASSUME NEW max \in Nat, IInv, Within(max), HandleConnectFailed
  PROVE  Within(max)'
<1> DEFINE i == Head(ready).iter
           t == Tail(ready)
           before == t \o AbortedBySocketClose
<1>1. PICK k \in {"connected", "connectError"} : Running(k)
  BY DEF HandleConnectFailed
<1>2. /\ Head(ready) \in ChainDone /\ Head(ready) \in CycleDone /\ Head(ready) \in StepDone
  BY <1>1, HeadOf
<1>3. /\ t \in Seq(Completion)
      /\ Count(ready, ChainDone) = Count(t, ChainDone) + 1
      /\ Count(ready, CycleDone) = Count(t, CycleDone) + 1
      /\ Count(ready, StepDone) = Count(t, StepDone) + 1
  BY <1>1, <1>2, HeadCounted
<1>4. i \in 1..MaxEndpoints BY <1>1, RunningFacts, CompletionFields
<1>5. NextEndpoint(i) BY DEF HandleConnectFailed
<1>6. /\ calls' = calls
      /\ idle' = idle /\ Beating' = Beating /\ Resolving' = Resolving
      /\ Showing' \in {0, Showing}
  BY DEF HandleConnectFailed, NextEndpoint, StopFlags, stateVars, uiVars, Beating, Showing,
         Shown, Resolving
<1>7. /\ (i < MaxEndpoints => ready' = before \o WokenByDeadline)
      /\ (~(i < MaxEndpoints) => ready' = before)
  BY <1>5 DEF NextEndpoint, Attempt
<1>8. /\ reads' = 0 /\ pings' = 0 /\ asked' = {}
      /\ Attempting' \in {0, 1}
  BY <1>5 DEF NextEndpoint, CloseSocket, Attempting
<1> HIDE DEF t
<1>9. /\ before \in Seq(Completion)
      /\ Count(before, ChainDone) = Count(t, ChainDone) + Attempting + reads
      /\ Count(before, CycleDone) = Count(t, CycleDone) + Attempting
      /\ Count(before, StepDone) = Count(t, StepDone) + Attempting
      /\ Count(t, ChainDone) \in Nat /\ Count(t, CycleDone) \in Nat
      /\ Count(t, StepDone) \in Nat
  <2>1. TypeOK BY DEF IInv
  <2>2. Attempting \in Nat /\ reads \in Nat BY <2>1, TotalTypes
  <2>3. AbortedBySocketClose \in Seq(Completion) BY <2>1, AbortedType
  <2>4. /\ Count(before, ChainDone) = Count(t, ChainDone) + Count(AbortedBySocketClose, ChainDone)
        /\ Count(before, CycleDone) = Count(t, CycleDone) + Count(AbortedBySocketClose, CycleDone)
        /\ Count(before, StepDone) = Count(t, StepDone) + Count(AbortedBySocketClose, StepDone)
        /\ Count(t, ChainDone) \in Nat /\ Count(t, CycleDone) \in Nat
        /\ Count(t, StepDone) \in Nat
        /\ before \in Seq(Completion)
    BY <1>3, <2>3, BothCounts
  <2> HIDE DEF before
  <2> QED BY <2>1, <2>2, <2>4, AbortedCount
<1> HIDE DEF before
<1>10. /\ Count(before \o WokenByDeadline, ChainDone) = Count(before, ChainDone)
       /\ Count(before \o WokenByDeadline, CycleDone) = Count(before, CycleDone)
       /\ Count(before \o WokenByDeadline, StepDone) = Count(before, StepDone)
  BY <1>9, BothCounts, WokenTypes, WokenCount
<1>11. /\ Count(ready', ChainDone) = Count(before, ChainDone)
       /\ Count(ready', CycleDone) = Count(before, CycleDone)
       /\ Count(ready', StepDone) = Count(before, StepDone)
  BY <1>7, <1>10
<1>12. /\ Count(ready', ChainDone) = Count(ready, ChainDone) - 1 + Attempting + reads
       /\ Count(ready', CycleDone) = Count(ready, CycleDone) - 1 + Attempting
       /\ Count(ready', StepDone) = Count(ready, StepDone) - 1 + Attempting
       /\ Count(ready', ChainDone) \in Nat /\ Count(ready', CycleDone) \in Nat
       /\ Count(ready', StepDone) \in Nat
  <2>1. Attempting \in Nat /\ reads \in Nat BY TotalTypes DEF IInv
  <2>2. /\ Count(before, ChainDone) = Count(t, ChainDone) + Attempting + reads
        /\ Count(before, CycleDone) = Count(t, CycleDone) + Attempting
        /\ Count(before, StepDone) = Count(t, StepDone) + Attempting
        /\ Count(t, ChainDone) \in Nat /\ Count(t, CycleDone) \in Nat
        /\ Count(t, StepDone) \in Nat
    BY <1>9
  <2>3. /\ Count(ready, ChainDone) = Count(t, ChainDone) + 1
        /\ Count(ready, CycleDone) = Count(t, CycleDone) + 1
        /\ Count(ready, StepDone) = Count(t, StepDone) + 1
    BY <1>3
  <2> QED BY <1>11, <2>1, <2>2, <2>3
<1>13. Cardinality({}) = 0 BY FS_EmptySet
<1>14. ChainTotal' <= max BY <1>6, <1>8, <1>12, ChainBound
<1>15. CycleTotal' <= max BY <1>6, <1>8, <1>12, CycleBound
<1>16. StepTotal' <= max
  <2>1. /\ Cardinality(asked) \in Nat
       /\ Attempting \in {0, 1} /\ Resolving \in {0, 1} /\ Showing \in {0, 1}
       /\ Count(ready, StepDone) \in Nat /\ Count(idle, Steps) \in Nat
       /\ Cardinality(asked) + Showing + Attempting + Resolving
            + Count(ready, StepDone) + Count(idle, Steps) <= max
    BY StepBound
  <2>2. Cardinality(asked') + Showing' + Attempting' + Resolving'
         + Count(ready', StepDone) + Count(idle', Steps) <= max
    BY <1>6, <1>8, <1>12, <1>13, <2>1
  <2> QED BY <2>2, TotalsNext
<1> QED BY <1>14, <1>15, <1>16 DEF Within

(* A step of a handler that queues nothing, or only completions that       *)
(* belong to no total.                                                     *)
LEMMA PoppedTotals ==
  ASSUME IInv, NEW k, Running(k),
         ready' \in {Tail(ready), Append(Tail(ready), Done("writeError"))}
  PROVE  /\ Count(ready', ChainDone) \in Nat /\ Count(ready', CycleDone) \in Nat
         /\ Count(ready', StepDone) \in Nat
         /\ Count(ready', ChainDone) <= Count(ready, ChainDone)
         /\ Count(ready', StepDone) <= Count(ready, StepDone)
         /\ Count(ready, CycleDone) = Count(ready', CycleDone)
                                       + (IF Head(ready) \in CycleDone THEN 1 ELSE 0)
<1> DEFINE t == Tail(ready)
           e == Done("writeError")
<1>1. /\ t \in Seq(Completion)
      /\ Count(t, ChainDone) \in Nat /\ Count(t, CycleDone) \in Nat
      /\ Count(t, StepDone) \in Nat
      /\ Count(t, ChainDone) <= Count(ready, ChainDone)
      /\ Count(t, StepDone) <= Count(ready, StepDone)
      /\ Count(ready, CycleDone) = Count(t, CycleDone)
                                    + (IF Head(ready) \in CycleDone THEN 1 ELSE 0)
  <2>1. \A K : /\ Count(t, K) \in Nat
               /\ Count(ready, K) = Count(t, K) + (IF Head(ready) \in K THEN 1 ELSE 0)
    BY HeadCounted
  <2>2. t \in Seq(Completion) BY HeadCounted
  <2> HIDE DEF t
  <2>3. Count(t, ChainDone) <= Count(ready, ChainDone) BY <2>1
  <2>4. Count(t, StepDone) <= Count(ready, StepDone) BY <2>1
  <2> QED BY <2>1, <2>2, <2>3, <2>4
<1>2. e \in Completion /\ e \notin ChainDone /\ e \notin CycleDone /\ e \notin StepDone
  BY CompletionTypes, Counted
<1>3. ready' = t \/ ready' = Append(t, e) OBVIOUS
<1> HIDE DEF t, e
<1>4. /\ Count(Append(t, e), ChainDone) = Count(t, ChainDone)
      /\ Count(Append(t, e), CycleDone) = Count(t, CycleDone)
      /\ Count(Append(t, e), StepDone) = Count(t, StepDone)
  BY <1>1, <1>2, OneMore
<1>5. /\ Count(ready', ChainDone) = Count(t, ChainDone)
      /\ Count(ready', CycleDone) = Count(t, CycleDone)
      /\ Count(ready', StepDone) = Count(t, StepDone)
  BY <1>3, <1>4
<1> QED BY <1>1, <1>5

(* An error ends the chain.                                                *)
LEMMA HandleIoErrorTotals ==
  ASSUME NEW max \in Nat, IInv, Within(max), HandleReadError \/ HandleWriteError
  PROVE  Within(max)'
<1>1. PICK k : Running(k) BY DEF HandleReadError, HandleWriteError
<1>2. ready' = Tail(ready)
  BY DEF HandleReadError, HandleWriteError, WorkerDisconnects
<1>3. /\ Count(ready', ChainDone) \in Nat /\ Count(ready', CycleDone) \in Nat
      /\ Count(ready', StepDone) \in Nat
      /\ Count(ready', ChainDone) <= Count(ready, ChainDone)
      /\ Count(ready', StepDone) <= Count(ready, StepDone)
      /\ Count(ready', CycleDone) <= Count(ready, CycleDone)
  BY <1>1, <1>2, PoppedTotals
<1>4. /\ calls' = calls
      /\ reads' = reads /\ pings' = pings /\ asked' = asked
      /\ idle' = idle /\ Attempting' = Attempting /\ Beating' = Beating
      /\ Resolving' = Resolving /\ Showing' \in {0, Showing}
  BY DEF HandleReadError, HandleWriteError, WorkerDisconnects, StopFlags, uiVars,
         socketVars, timerVars, Attempting, Beating, Showing, Shown, Resolving
<1>5. ChainTotal' <= max BY <1>3, <1>4, ChainBound
<1>6. CycleTotal' <= max BY <1>3, <1>4, CycleBound
<1>7. StepTotal' <= max BY <1>3, <1>4, StepBound
<1> QED BY <1>5, <1>6, <1>7 DEF Within

(* start_ping's completion turns into the ping.                            *)
LEMMA HandlePingTotals ==
  ASSUME NEW max \in Nat, IInv, Within(max), HandlePing
  PROVE  Within(max)'
<1>1. Running("ping") BY DEF HandlePing
<1>2. /\ ready' \in {Tail(ready), Append(Tail(ready), Done("writeError"))}
      /\ pings' \in {pings, pings + 1}
  BY DEF HandlePing
<1>3. Head(ready) \in CycleDone BY <1>1, HeadOf
<1>4. /\ Count(ready', ChainDone) \in Nat /\ Count(ready', CycleDone) \in Nat
      /\ Count(ready', StepDone) \in Nat
      /\ Count(ready', ChainDone) <= Count(ready, ChainDone)
      /\ Count(ready', StepDone) <= Count(ready, StepDone)
      /\ Count(ready, CycleDone) = Count(ready', CycleDone) + 1
  BY <1>1, <1>2, <1>3, PoppedTotals
<1>5. /\ calls' = calls
      /\ reads' = reads /\ asked' = asked
      /\ idle' = idle /\ Attempting' = Attempting /\ Beating' = Beating
      /\ Resolving' = Resolving /\ Showing' = Showing
  BY DEF HandlePing, stateVars, uiVars, timerVars, Attempting, Beating, Showing, Shown,
         Resolving
<1>6. ChainTotal' <= max BY <1>4, <1>5, ChainBound
<1>7. CycleTotal' <= max
  <2>1. pings' \in Nat /\ pings' <= pings + 1 BY <1>2, CycleBound
  <2>2. pings' + Count(ready', CycleDone) <= pings + Count(ready, CycleDone)
    BY <1>4, <2>1, CycleBound
  <2>3. Count(ready', CycleDone) \in Nat BY <1>4
  <2> QED BY <1>5, <2>1, <2>2, <2>3, CycleBound
<1>8. StepTotal' <= max BY <1>4, <1>5, StepBound
<1> QED BY <1>6, <1>7, <1>8 DEF Within

(* A deadline that passed turns what it closes into completions.           *)
LEMMA HandleDeadlineTotals ==
  ASSUME NEW max \in Nat, IInv, Within(max), HandleDeadline
  PROVE  Within(max)'
<1> DEFINE t == Tail(ready)
<1>1. Running("deadline") BY DEF HandleDeadline
<1>2. /\ t \in Seq(Completion)
      /\ Count(t, ChainDone) \in Nat /\ Count(t, CycleDone) \in Nat
      /\ Count(t, StepDone) \in Nat
      /\ Count(t, ChainDone) <= Count(ready, ChainDone)
      /\ Count(t, CycleDone) <= Count(ready, CycleDone)
      /\ Count(t, StepDone) <= Count(ready, StepDone)
  <2>1. /\ t \in Seq(Completion)
        /\ \A K : /\ Count(t, K) \in Nat
                  /\ Count(ready, K) = Count(t, K) + (IF Head(ready) \in K THEN 1 ELSE 0)
    BY <1>1, HeadCounted
  <2> HIDE DEF t
  <2>2. \A K : Count(t, K) <= Count(ready, K)
    <3> SUFFICES ASSUME NEW K PROVE Count(t, K) <= Count(ready, K)
      OBVIOUS
    <3> QED BY <2>1
  <2> QED BY <2>1, <2>2
<1>3. /\ calls' = calls /\ idle' = idle /\ Beating' = Beating
      /\ Resolving' = Resolving /\ Showing' = Showing
  BY DEF HandleDeadline, stateVars, uiVars, Beating, Showing, Shown, Resolving
<1>4. CASE deadline = "passed"
  <2>1. /\ ready' = t \o AbortedBySocketClose
        /\ reads' = 0 /\ pings' = 0 /\ asked' = {} /\ Attempting' = 0
    BY <1>4 DEF HandleDeadline, CloseSocket, Attempting
  <2> HIDE DEF t
  <2>2. TypeOK BY DEF IInv
  <2>3. AbortedBySocketClose \in Seq(Completion) BY <2>2, AbortedType
  <2>4. /\ Count(ready', ChainDone) = Count(t, ChainDone) + Attempting + reads
        /\ Count(ready', CycleDone) = Count(t, CycleDone) + Attempting
        /\ Count(ready', StepDone) = Count(t, StepDone) + Attempting
    <3>1. /\ Count(ready', ChainDone)
               = Count(t, ChainDone) + Count(AbortedBySocketClose, ChainDone)
          /\ Count(ready', CycleDone)
               = Count(t, CycleDone) + Count(AbortedBySocketClose, CycleDone)
          /\ Count(ready', StepDone)
               = Count(t, StepDone) + Count(AbortedBySocketClose, StepDone)
      BY <1>2, <2>1, <2>3, BothCounts
    <3>2. Attempting \in Nat /\ reads \in Nat BY <2>2, TotalTypes
    <3>3. /\ Count(t, ChainDone) \in Nat /\ Count(t, CycleDone) \in Nat
          /\ Count(t, StepDone) \in Nat
      BY <1>2
    <3> QED BY <2>2, <3>1, <3>2, <3>3, AbortedCount
  <2>5. /\ Count(t, ChainDone) \in Nat /\ Count(t, CycleDone) \in Nat
        /\ Count(t, StepDone) \in Nat
        /\ Count(t, ChainDone) <= Count(ready, ChainDone)
        /\ Count(t, CycleDone) <= Count(ready, CycleDone)
        /\ Count(t, StepDone) <= Count(ready, StepDone)
    BY <1>2
  <2>6. reads' = 0 /\ pings' = 0 /\ asked' = {} /\ Attempting' = 0 BY <2>1
  <2>7. Cardinality({}) = 0 BY FS_EmptySet
  <2>8. ChainTotal' <= max BY <1>3, <2>4, <2>5, <2>6, ChainBound
  <2>9. CycleTotal' <= max BY <1>3, <2>4, <2>5, <2>6, CycleBound
  <2>10. StepTotal' <= max BY <1>3, <2>4, <2>5, <2>6, <2>7, StepBound
  <2> QED BY <2>8, <2>9, <2>10 DEF Within
<1>5. CASE deadline # "passed"
  <2>1. ready' = t BY <1>5 DEF HandleDeadline
  <2>2. reads' = reads /\ pings' = pings /\ asked' = asked /\ Attempting' = Attempting
    BY <1>5 DEF HandleDeadline, socketVars, Attempting
  <2> HIDE DEF t
  <2>3. /\ Count(ready', ChainDone) \in Nat /\ Count(ready', CycleDone) \in Nat
        /\ Count(ready', StepDone) \in Nat
        /\ Count(ready', ChainDone) <= Count(ready, ChainDone)
        /\ Count(ready', CycleDone) <= Count(ready, CycleDone)
        /\ Count(ready', StepDone) <= Count(ready, StepDone)
    BY <1>2, <2>1
  <2>4. ChainTotal' <= max BY <1>3, <2>2, <2>3, ChainBound
  <2>5. CycleTotal' <= max BY <1>3, <2>2, <2>3, CycleBound
  <2>6. StepTotal' <= max BY <1>3, <2>2, <2>3, StepBound
  <2> QED BY <2>4, <2>5, <2>6 DEF Within
<1> QED BY <1>4, <1>5

-----------------------------------------------------------------------------
(* Only start() and the Connect button call connect().                     *)
LEMMA CallsKept == [Next]_vars /\ ~Start /\ ~ClickConnect => calls' = calls
<1> SUFFICES ASSUME [Next]_vars, ~Start, ~ClickConnect PROVE calls' = calls
  OBVIOUS
<1>1. CASE User
  BY <1>1 DEF User, ClickDisconnect, OpenDialog, CloseDialog
<1>2. CASE MainLoop
  BY <1>2 DEF MainLoop, Resolved, ResolveFails, MainTeardown, OnPlayers, OnItemsPlayer,
              HandshakeDone, OnRefused, OnPong, OnGone, Dispatch
<1>3. CASE Worker
  BY <1>3 DEF Worker, HandlerEnter, HandleConnected, HandleConnectFailed,
              HandleMessage, HandleReadError, HandleWriteError, WorkerDisconnects,
              WorkerTeardown, HandlePing, HandleDeadline
<1>4. CASE Network \/ Clock
  BY <1>4 DEF Network, Clock, Established, Unreachable, Reply, PeerCloses,
              DeadlineTicks, HeartbeatPasses, EnvUnchanged
<1>5. CASE UNCHANGED vars BY <1>5 DEF vars
<1> QED BY <1>1, <1>2, <1>3, <1>4, <1>5 DEF Next

(* No other step adds to a total.                                          *)
LEMMA StepWithin ==
  ASSUME NEW max \in Nat, IInv, Within(max), [Next]_vars, ~Start, ~ClickConnect
  PROVE  Within(max)'
<1>1. CASE User
  BY <1>1, UserTotals DEF User
<1>2. CASE MainLoop
  BY <1>2, ResolvedTotals, UserTotals, TeardownTotals, AnswerTotals, HandshakeDoneTotals,
     EndTotals, OnPongTotals DEF MainLoop
<1>3. CASE Worker
  BY <1>3, HandlerEnterTotals, HandleConnectedTotals, HandleConnectFailedTotals,
     HandleMessageTotals, HandleIoErrorTotals, TeardownTotals, HandlePingTotals,
     HandleDeadlineTotals
     DEF Worker
<1>4. CASE Network \/ Clock
  BY <1>4, AttemptEndsTotals, ReplyTotals, PeerClosesTotals, DeadlineTicksTotals,
     HeartbeatPassesTotals DEF Network, Clock
<1>5. CASE UNCHANGED vars
  <2>1. /\ reads' = reads /\ pings' = pings /\ asked' = asked
        /\ idle' = idle /\ ready' = ready /\ Attempting' = Attempting
        /\ Beating' = Beating /\ Resolving' = Resolving /\ Showing' = Showing
    BY <1>5 DEF vars, stateVars, socketVars, timerVars, uiVars, Attempting, Beating,
                Resolving, Showing, Shown
  <2>2. ChainTotal' <= max BY <2>1, ChainBound
  <2>3. CycleTotal' <= max BY <2>1, CycleBound
  <2>4. StepTotal' <= max BY <2>1, StepBound
  <2> QED BY <2>2, <2>3, <2>4 DEF Within
<1> QED BY <1>1, <1>2, <1>3, <1>4, <1>5 DEF Next

(* Every step keeps the totals within the number of calls.                 *)
Totals == Within(calls)

LEMMA StepTotals == IInv /\ Totals /\ [Next]_vars => Totals'
<1> SUFFICES ASSUME IInv, Totals, [Next]_vars,
                    NEW max \in Nat, max = calls
             PROVE  Totals'
  <2>1. IInv => calls \in Nat BY TotalTypes DEF IInv
  <2> QED BY <2>1
<1>1. Within(max) BY DEF Totals
<1>2. CASE Start \/ ClickConnect
  <2>1. Within(max + 1)' BY <1>1, <1>2, BeginConnectTotals
  <2>2. calls' = max + 1 BY <1>2 DEF Start, ClickConnect, BeginConnect
  <2> QED BY <2>1, <2>2 DEF Totals, Within
<1>3. CASE ~Start /\ ~ClickConnect
  <2>1. Within(max)' BY <1>1, <1>3, StepWithin
  <2>2. calls' = max BY <1>3, CallsKept
  <2> QED BY <2>1, <2>2 DEF Totals, Within
<1> QED BY <1>2, <1>3

(* They are, in every reachable state.                                     *)
LEMMA TotalsHold == Spec => [](IInv /\ Totals)
<1>1. Init => Totals
  <2>1. Init => calls = 0 BY DEF Init
  <2> QED BY <2>1, InitTotals DEF Totals, Within
<1>2. IInv /\ Totals /\ [Next]_vars => (IInv /\ Totals)' BY StepIInv, StepTotals
<1> QED BY <1>1, <1>2, InitIInv, PTL DEF Spec

(* What the totals say of the chains and the ping cycles under way.        *)
LEMMA ChainsWithin ==
  ASSUME NEW max \in Nat, IInv, Within(max)
  PROVE  Chains <= max
<1>1. {i \in DOMAIN ready :
         ready[i].kind \in {"connected", "connectError", "message", "readError"}}
        = Places(ready, ChainDone)
  <2>1. \A i \in DOMAIN ready : ready[i] \in Completion BY DEF IInv, TypeOK
  <2> QED BY <2>1 DEF Places, ChainDone
<1>2. Chains = reads + Attempting + Count(ready, ChainDone)
  BY <1>1 DEF Chains, Attempting, Count
<1> QED BY <1>2, TotalsNow, TotalTypes DEF IInv, Within

LEMMA CyclesWithin ==
  ASSUME NEW max \in Nat, IInv, Within(max)
  PROVE  PingCycles <= max
<1> DEFINE P == {c \in Completion : c.kind = "ping" \/ c.msg = "pong"}
<1>1. {i \in DOMAIN ready : ready[i].kind = "ping" \/ ready[i].msg = "pong"}
        = Places(ready, P)
  <2>1. \A i \in DOMAIN ready : ready[i] \in Completion BY DEF IInv, TypeOK
  <2> QED BY <2>1 DEF Places
<1>2. {i \in DOMAIN idle : idle[i] = "pong"} = Places(idle, {"pong"})
  BY DEF Places
<1>3. Count(ready, P) \in Nat /\ Count(ready, P) <= Count(ready, CycleDone)
  <2>1. P \subseteq CycleDone BY DEF CycleDone
  <2>2. ready \in Seq(Completion) BY DEF IInv, TypeOK
  <2> HIDE DEF P
  <2> QED BY <2>1, <2>2, CountSubset, CountType
<1> HIDE DEF P
<1>4. PingCycles = pings + Beating + Count(ready, P) + Count(idle, {"pong"})
  BY <1>1, <1>2 DEF PingCycles, Beating, Count
<1> QED BY <1>3, <1>4, TotalsNow, TotalTypes DEF IInv, Within

(* Each call of connect() has one attempt, read or completion of either    *)
(* under way at most, whatever the order of timeouts, aborts and failures: *)
(* a client that connects once never reads twice at once into              *)
(* m_input_buffer.                                                         *)
THEOREM OneChainPerCallHolds == Spec => []OneChainPerCall
<1>1. IInv /\ Totals => OneChainPerCall
  BY ChainsWithin, TotalTypes DEF IInv, Totals, OneChainPerCall
<1> QED BY <1>1, TotalsHold, PTL

(* Only a call of connect() starts a cycle of pings: pongs, cancelled      *)
(* waits, disconnects and attempts that overlap never add one.             *)
THEOREM PingsBoundedHolds == Spec => []PingsBounded
<1>1. IInv /\ Totals => PingsBounded
  BY CyclesWithin, TotalTypes DEF IInv, Totals, PingsBounded
<1> QED BY <1>1, TotalsHold, PTL

-----------------------------------------------------------------------------
(* A client that connects once.  Its handshake is counted at most once, so *)
(* when disconnect() is clicked nothing of it is left: the handler that is *)
(* past its test of m_stopped can only be reading or pinging, and whatever *)
(* shows the connection is ahead of the "gone" that takes it back.         *)

(* Before the name is resolved for the first time there is no worker yet.  *)
Unresolved == calls = 0 \/ (calls = 1 /\ mainPc = "resolving")
NotStarted ==
  /\ calls = 0 => mainPc = "new"
  /\ Unresolved =>
       /\ ready = <<>> /\ ioPc = "idle" /\ idle = <<>>
       /\ connecting = 0 /\ reads = 0 /\ deadline = "never"
       /\ heartbeatWait = FALSE /\ dialog = "none" /\ uiConnected = FALSE
  /\ calls = 1 /\ mainPc = "resolving" => m_stopped = FALSE

Closing == mainPc = "closing" \/ ioPc = "closing"
GoneIn(s) == \E i \in DOMAIN s : s[i] = "gone"
StepIn(s) == \E i \in DOMAIN s : s[i] \in Steps

(* A handler that runs on after disconnect() carries no handshake.         *)
RunsNoStep == m_stopped /\ ioPc = "run" => Head(ready) \notin StepDone

(* "gone" is only announced by disconnect().                               *)
GoneMeansStopped == Closing \/ GoneIn(idle) => m_stopped

(* No answer of the handshake comes after "gone".                          *)
GoneLast(s) == \A i, j \in DOMAIN s : i < j /\ s[i] = "gone" => s[j] \notin Steps

(* What shows a connection that was stopped, or will, is taken back later. *)
WillBeGone == m_stopped /\ (uiConnected \/ StepIn(idle)) => Closing \/ GoneIn(idle)

ShownMeansConnected == ~m_stopped /\ uiConnected => m_connected

ClosedWhenStopped ==
  m_stopped /\ ~Closing => socket = "closed" /\ connecting = 0 /\ reads = 0

Solo ==
  /\ RunsNoStep /\ GoneMeansStopped /\ GoneLast(idle)
  /\ WillBeGone /\ ShownMeansConnected /\ ClosedWhenStopped

SoloInv == NotStarted /\ (calls <= 1 => Solo)

(* What the first callback's leaving does to the order of the others.      *)
LEMMA PopsInOrder ==
  ASSUME NEW S, NEW s \in Seq(S), s # <<>>
  PROVE  /\ GoneIn(Tail(s)) => GoneIn(s)
         /\ StepIn(Tail(s)) => StepIn(s)
         /\ Head(s) \in Steps => StepIn(s)
         /\ Head(s) # "gone" /\ GoneIn(s) => GoneIn(Tail(s))
         /\ GoneLast(s) => GoneLast(Tail(s))
         /\ GoneLast(s) /\ Head(s) = "gone" => ~StepIn(Tail(s))
<1>1. /\ Len(s) \in Nat \ {0} /\ Head(s) = s[1] /\ 1 \in DOMAIN s
      /\ DOMAIN s = 1..Len(s) /\ DOMAIN Tail(s) = 1 .. Len(s) - 1
      /\ \A i \in 1 .. Len(s) - 1 : Tail(s)[i] = s[i + 1]
  OBVIOUS
<1> DEFINE t == Tail(s)
<1>2. /\ \A i \in DOMAIN t : i + 1 \in DOMAIN s /\ t[i] = s[i + 1] /\ 1 < i + 1
      /\ \A i, j \in DOMAIN t : i < j => i + 1 < j + 1
      /\ \A i \in DOMAIN s : i # 1 => i - 1 \in DOMAIN t /\ t[i - 1] = s[i]
  BY <1>1
<1>3. Head(s) = s[1] /\ 1 \in DOMAIN s BY <1>1
<1> HIDE DEF t
<1>4. GoneIn(t) => GoneIn(s) BY <1>2 DEF GoneIn
<1>5. StepIn(t) => StepIn(s) BY <1>2 DEF StepIn
<1>6. Head(s) \in Steps => StepIn(s) BY <1>3 DEF StepIn
<1>7. Head(s) # "gone" /\ GoneIn(s) => GoneIn(t) BY <1>2, <1>3 DEF GoneIn
<1>8. GoneLast(s) => GoneLast(t) BY <1>2 DEF GoneLast
<1>9. GoneLast(s) /\ Head(s) = "gone" => ~StepIn(t) BY <1>2, <1>3 DEF GoneLast, StepIn
<1> QED BY <1>4, <1>5, <1>6, <1>7, <1>8, <1>9 DEF t

(* What a callback at the end does to it.                                  *)
LEMMA AppendsInOrder ==
  ASSUME NEW S, NEW s \in Seq(S), NEW m \in S
  PROVE  /\ GoneIn(s) => GoneIn(Append(s, m))
         /\ m = "gone" => GoneIn(Append(s, m))
         /\ GoneIn(Append(s, m)) => GoneIn(s) \/ m = "gone"
         /\ StepIn(Append(s, m)) => StepIn(s) \/ m \in Steps
         /\ GoneLast(s) /\ (m \notin Steps \/ ~GoneIn(s)) => GoneLast(Append(s, m))
<1> DEFINE t == Append(s, m)
<1>1. /\ Len(s) \in Nat /\ DOMAIN s = 1..Len(s)
      /\ DOMAIN t = 1 .. Len(s) + 1
      /\ \A i \in 1..Len(s) : t[i] = s[i]
      /\ t[Len(s) + 1] = m
  OBVIOUS
<1>2. /\ \A i \in DOMAIN s : i \in DOMAIN t /\ t[i] = s[i]
      /\ Len(s) + 1 \in DOMAIN t
      /\ \A i \in DOMAIN t : i = Len(s) + 1 \/ (i \in DOMAIN s /\ t[i] = s[i])
      /\ \A i, j \in DOMAIN t : i < j => i \in DOMAIN s
  <2> DEFINE n == Len(s)
  <2>1. n \in Nat /\ DOMAIN s = 1..n /\ DOMAIN t = 1 .. n + 1 /\ \A i \in 1..n : t[i] = s[i]
    BY <1>1
  <2> HIDE DEF n, t
  <2>2. \A i \in 1..n : i \in 1 .. n + 1 BY <2>1
  <2>3. n + 1 \in 1 .. n + 1 BY <2>1
  <2>4. \A i \in 1 .. n + 1 : i = n + 1 \/ i \in 1..n BY <2>1
  <2>5. \A i, j \in 1 .. n + 1 : i < j => i \in 1..n BY <2>1
  <2>6. /\ \A i \in DOMAIN s : i \in DOMAIN t /\ t[i] = s[i]
        /\ n + 1 \in DOMAIN t
        /\ \A i \in DOMAIN t : i = n + 1 \/ (i \in DOMAIN s /\ t[i] = s[i])
        /\ \A i, j \in DOMAIN t : i < j => i \in DOMAIN s
    BY <2>1, <2>2, <2>3, <2>4, <2>5
  <2> QED BY <2>6 DEF n
<1>3. t[Len(s) + 1] = m BY <1>1
<1> HIDE DEF t
<1>4. GoneIn(s) => GoneIn(t) BY <1>2 DEF GoneIn
<1>5. m = "gone" => GoneIn(t) BY <1>2, <1>3 DEF GoneIn
<1>6. GoneIn(t) => GoneIn(s) \/ m = "gone" BY <1>2, <1>3 DEF GoneIn
<1>7. StepIn(t) => StepIn(s) \/ m \in Steps BY <1>2, <1>3 DEF StepIn
<1>8. GoneLast(s) /\ (m \notin Steps \/ ~GoneIn(s)) => GoneLast(t)
  BY <1>2, <1>3 DEF GoneLast, GoneIn
<1> QED BY <1>4, <1>5, <1>6, <1>7, <1>8 DEF t

(* Once the connection is shown, nothing of its handshake is under way.    *)
LEMMA ShownOnce ==
  ASSUME IInv, Within(1), Shown
  PROVE  /\ ~StepIn(idle) /\ mainPc # "resolving"
         /\ ioPc = "run" => Head(ready) \notin StepDone
<1>1. Showing = 1 BY DEF Showing
<1>2. /\ Count(ready, StepDone) = 0 /\ Count(idle, Steps) = 0 /\ Resolving = 0
  <2>1. 1 \in Nat OBVIOUS
  <2> QED BY <1>1, <2>1, StepBound
<1>3. ~StepIn(idle)
  <2>1. idle \in Seq(Messages \cup {"gone"}) BY DEF IInv, TypeOK
  <2> QED BY <1>2, <2>1, CountPresent DEF StepIn
<1>4. ioPc = "run" => Head(ready) \notin StepDone
  <2>1. ready \in Seq(Completion) /\ (ioPc = "run" => ready # <<>>)
    BY DEF IInv, TypeOK, HeadPresent
  <2>2. ioPc = "run" => 1 \in DOMAIN ready /\ Head(ready) = ready[1] BY <2>1
  <2> QED BY <1>2, <2>1, <2>2, CountPresent
<1> QED BY <1>2, <1>3, <1>4 DEF Resolving

(* The head stays in its place when completions are queued behind it.      *)
LEMMA HeadKept ==
  ASSUME NEW s \in Seq(Completion), s # <<>>
  PROVE  /\ \A t \in Seq(Completion) : s \o t # <<>> /\ Head(s \o t) = Head(s)
         /\ \A e \in Completion : Append(s, e) # <<>> /\ Head(Append(s, e)) = Head(s)
OBVIOUS

-----------------------------------------------------------------------------
(* NotStarted: until the first name is resolved only start() acts.         *)

LEMMA StepNotStarted == IInv /\ NotStarted /\ [Next]_vars => NotStarted'
<1> SUFFICES ASSUME IInv, NotStarted, [Next]_vars PROVE NotStarted'
  OBVIOUS
<1> USE DEF NotStarted, Unresolved
<1>0. calls \in Nat /\ connecting \in Int /\ reads \in Int
  BY ConnectionAssumption DEF IInv, TypeOK
<1>1. CASE Start \/ ClickConnect
  <2>1. /\ calls' = calls + 1 /\ mainPc' = "resolving" /\ m_stopped' = FALSE
        /\ UNCHANGED <<ready, ioPc, idle, connecting, reads, deadline, heartbeatWait,
                       dialog, uiConnected>>
    BY <1>1 DEF Start, ClickConnect, BeginConnect, socketVars, timerVars, uiVars
  <2> QED BY <1>0, <2>1
<1>2. CASE UNCHANGED vars
  BY <1>2 DEF vars, stateVars, socketVars, timerVars, uiVars
<1>3. CASE /\ Next /\ ~Start /\ ~ClickConnect
           /\ calls # 0 /\ ~(calls = 1 /\ mainPc = "resolving")
  <2>1. calls' = calls /\ (mainPc' = "resolving" => mainPc = "resolving")
    <3>1. CASE User
      BY <1>3, <3>1 DEF User, ClickDisconnect, OpenDialog, CloseDialog
    <3>2. CASE MainLoop
      BY <3>2 DEF MainLoop, Resolved, ResolveFails, MainTeardown, OnPlayers, OnItemsPlayer,
                  HandshakeDone, OnRefused, OnPong, OnGone, Dispatch
    <3>3. CASE Worker
      BY <3>3 DEF Worker, HandlerEnter, HandleConnected, HandleConnectFailed,
                  HandleMessage, HandleReadError, HandleWriteError, WorkerDisconnects,
                  WorkerTeardown, HandlePing, HandleDeadline
    <3>4. CASE Network \/ Clock
      BY <3>4 DEF Network, Clock, Established, Unreachable, Reply, PeerCloses,
                  DeadlineTicks, HeartbeatPasses, EnvUnchanged
    <3> QED BY <1>3, <3>1, <3>2, <3>3, <3>4 DEF Next
  <2> QED BY <1>0, <1>3, <2>1
<1>4. CASE calls = 0
  <2>1. /\ mainPc = "new" /\ ready = <<>> /\ ioPc = "idle" /\ idle = <<>>
        /\ connecting = 0 /\ reads = 0 /\ deadline = "never" /\ heartbeatWait = FALSE
        /\ dialog = "none"
    BY <1>4
  <2>2. ~(ClickConnect \/ ClickDisconnect \/ OpenDialog \/ CloseDialog)
    BY <2>1 DEF ClickConnect, ClickDisconnect, OpenDialog, CloseDialog
  <2>3. ~MainLoop
    BY <2>1 DEF MainLoop, Resolved, ResolveFails, MainTeardown, OnPlayers, OnItemsPlayer,
                HandshakeDone, OnRefused, OnPong, OnGone, Dispatch
  <2>4. ~Worker
    BY <2>1 DEF Worker, HandlerEnter, HandleConnected, HandleConnectFailed, Running,
                HandleMessage, HandleReadError, HandleWriteError, WorkerDisconnects,
                WorkerTeardown, HandlePing, HandleDeadline
  <2>5. ~(Network \/ Clock)
    BY <2>1 DEF Network, Clock, Established, Unreachable, Reply, PeerCloses,
                DeadlineTicks, HeartbeatPasses
  <2> QED BY <1>1, <1>2, <2>2, <2>3, <2>4, <2>5 DEF Next, User
<1>5. CASE calls = 1 /\ mainPc = "resolving"
  <2>1. /\ ready = <<>> /\ ioPc = "idle" /\ idle = <<>>
        /\ connecting = 0 /\ reads = 0 /\ deadline = "never" /\ heartbeatWait = FALSE
    BY <1>5
  <2>2. ~(Start \/ ClickConnect \/ ClickDisconnect \/ OpenDialog \/ CloseDialog)
    BY <1>5 DEF Start, ClickConnect, ClickDisconnect, OpenDialog, CloseDialog
  <2>3. ~Worker
    BY <2>1 DEF Worker, HandlerEnter, HandleConnected, HandleConnectFailed, Running,
                HandleMessage, HandleReadError, HandleWriteError, WorkerDisconnects,
                WorkerTeardown, HandlePing, HandleDeadline
  <2>4. ~(Network \/ Clock)
    BY <2>1 DEF Network, Clock, Established, Unreachable, Reply, PeerCloses,
                DeadlineTicks, HeartbeatPasses
  <2>5. CASE MainLoop
    <3>1. Resolved \/ ResolveFails
      BY <1>5, <2>5 DEF MainLoop, MainTeardown, OnPlayers, OnItemsPlayer, HandshakeDone,
                        OnRefused, OnPong, OnGone, Dispatch
    <3>2. calls' = calls /\ mainPc' \in {"idle", "aborted"}
      BY <3>1 DEF Resolved, ResolveFails
    <3> QED BY <1>5, <3>2
  <2> QED BY <1>2, <2>2, <2>3, <2>4, <2>5 DEF Next, User
<1> QED BY <1>1, <1>2, <1>3, <1>4, <1>5

-----------------------------------------------------------------------------
(* Solo, action by action.                                                 *)

(* A step that leaves flags and callbacks alone, keeps the head of the     *)
(* queue and opens no socket.                                              *)
LEMMA KeptSolo ==
  ASSUME Solo,
         m_stopped' = m_stopped, m_connected' = m_connected, uiConnected' = uiConnected,
         idle' = idle, Closing' <=> Closing,
         m_stopped /\ ioPc' = "run" => ioPc = "run" /\ Head(ready') = Head(ready),
         m_stopped /\ ~Closing =>
           /\ socket' \in {"closed", socket} /\ connecting' \in {0, connecting}
           /\ reads' \in {0, reads}
  PROVE  Solo'
<1> USE DEF Solo
<1>1. RunsNoStep' BY DEF RunsNoStep
<1>2. GoneMeansStopped' BY DEF GoneMeansStopped
<1>3. GoneLast(idle') OBVIOUS
<1>4. WillBeGone' BY DEF WillBeGone
<1>5. ShownMeansConnected' BY DEF ShownMeansConnected
<1>6. ClosedWhenStopped' BY DEF ClosedWhenStopped
<1> QED BY <1>1, <1>2, <1>3, <1>4, <1>5, <1>6

(* start(): the flag is taken back, and nothing was announced.             *)
LEMMA BeginConnectSolo ==
  ASSUME IInv, NotStarted, Start \/ ClickConnect, calls' <= 1
  PROVE  Solo'
<1>1. calls \in Nat BY ConnectionAssumption DEF IInv, TypeOK
<1>2. /\ calls' = calls + 1 /\ mainPc' = "resolving" /\ m_stopped' = FALSE
      /\ ioPc' = ioPc /\ idle' = idle /\ uiConnected' = uiConnected
  BY DEF Start, ClickConnect, BeginConnect, uiVars
<1>3. calls = 0 BY <1>1, <1>2
<1>4. ioPc = "idle" /\ idle = <<>> /\ uiConnected = FALSE
  BY <1>3 DEF NotStarted, Unresolved
<1>5. ~Closing' /\ ~GoneIn(idle') /\ GoneLast(idle')
  BY <1>2, <1>4 DEF Closing, GoneIn, GoneLast
<1> QED BY <1>2, <1>4, <1>5 DEF Solo, RunsNoStep, GoneMeansStopped, WillBeGone,
        ShownMeansConnected, ClosedWhenStopped

(* Resolved, the name is tried by a client that is not stopped.            *)
LEMMA ResolvedSolo ==
  ASSUME Solo, Resolved, m_stopped = FALSE
  PROVE  Solo'
<1>1. /\ mainPc = "resolving" /\ mainPc' = "idle" /\ ioPc' = ioPc /\ idle' = idle
      /\ m_stopped' = m_stopped /\ m_connected' = m_connected
      /\ uiConnected' = uiConnected
  BY DEF Resolved, stateVars, uiVars
<1>2. (Closing' <=> Closing) BY <1>1 DEF Closing
<1> QED BY <1>1, <1>2, KeptSolo

(* Dialogs, network and clock.                                             *)
LEMMA OutsideSolo ==
  ASSUME IInv, Solo,
         OpenDialog \/ CloseDialog \/ ResolveFails \/ Network \/ Clock
  PROVE  Solo'
<1>1. /\ m_stopped' = m_stopped /\ m_connected' = m_connected /\ uiConnected' = uiConnected
      /\ idle' = idle /\ ioPc' = ioPc
      /\ mainPc' = "closing" <=> mainPc = "closing"
  BY DEF OpenDialog, CloseDialog, ResolveFails, Network, Clock, Established, Unreachable,
         Reply, PeerCloses, DeadlineTicks, HeartbeatPasses, EnvUnchanged, stateVars, uiVars
<1>2. Closing' <=> Closing BY <1>1 DEF Closing
<1>3. ioPc = "run" => Head(ready') = Head(ready)
  <2> SUFFICES ASSUME ioPc = "run" PROVE Head(ready') = Head(ready)
    OBVIOUS
  <2>1. ready \in Seq(Completion) /\ ready # <<>> BY DEF IInv, TypeOK, HeadPresent
  <2>2. \/ ready' = ready
        \/ \E t \in Seq(Completion) : ready' = ready \o t
        \/ \E e \in Completion : ready' = Append(ready, e)
    <3>1. CASE OpenDialog \/ CloseDialog \/ ResolveFails
      BY <3>1 DEF OpenDialog, CloseDialog, ResolveFails
    <3>2. CASE Established \/ Unreachable
      <4>1. connecting \in 1..MaxEndpoints
        BY <3>2, ConnectionAssumption DEF Established, Unreachable, IInv, TypeOK
      <4> QED BY <3>2, <4>1, CompletionTypes DEF Established, Unreachable
    <3>3. CASE Reply
      <4>1. asked \subseteq Messages /\ "refused" \in Messages /\ "pong" \in Messages
        BY DEF IInv, TypeOK, Messages
      <4> QED BY <3>3, <4>1, CompletionTypes DEF Reply
    <3>4. CASE PeerCloses
      <4>1. Repeat("readError", reads) \in Seq(Completion)
        BY RepeatType DEF IInv, TypeOK
      <4> QED BY <3>4, <4>1 DEF PeerCloses
    <3>5. CASE DeadlineTicks BY <3>5, WokenTypes DEF DeadlineTicks
    <3>6. CASE HeartbeatPasses BY <3>6, CompletionTypes DEF HeartbeatPasses
    <3> QED BY <3>1, <3>2, <3>3, <3>4, <3>5, <3>6 DEF Network, Clock
  <2> QED BY <2>1, <2>2, HeadKept
<1>4. m_stopped /\ ~Closing =>
        /\ socket' \in {"closed", socket} /\ connecting' \in {0, connecting}
        /\ reads' \in {0, reads}
  <2> SUFFICES ASSUME m_stopped, ~Closing
               PROVE  /\ socket' \in {"closed", socket} /\ connecting' \in {0, connecting}
                      /\ reads' \in {0, reads}
    OBVIOUS
  <2>1. connecting = 0 /\ reads = 0 BY DEF Solo, ClosedWhenStopped
  <2>2. ~Network
    BY <2>1 DEF Network, Established, Unreachable, Reply, PeerCloses
  <2> QED BY <2>2 DEF OpenDialog, CloseDialog, ResolveFails, Clock, DeadlineTicks,
          HeartbeatPasses, socketVars
<1> QED BY <1>1, <1>2, <1>3, <1>4, KeptSolo

(* ClickDisconnect: what is shown has nothing of its handshake under way.  *)
LEMMA ClickDisconnectSolo ==
  ASSUME IInv, Within(1), Solo, ClickDisconnect
  PROVE  Solo'
<1>1. Shown BY DEF ClickDisconnect, Shown
<1>2. ~StepIn(idle) /\ (ioPc = "run" => Head(ready) \notin StepDone)
  BY <1>1, ShownOnce
<1>3. /\ m_stopped' = TRUE /\ mainPc' = "closing"
      /\ idle' = idle /\ ioPc' = ioPc /\ ready' = ready
  BY DEF ClickDisconnect, StopFlags
<1>4. Closing' BY <1>3 DEF Closing
<1> QED BY <1>2, <1>3, <1>4 DEF Solo, RunsNoStep, GoneMeansStopped, WillBeGone,
        ShownMeansConnected, ClosedWhenStopped

(* The second part of disconnect() closes the socket and announces it.     *)
LEMMA TeardownSolo ==
  ASSUME IInv, Solo, MainTeardown \/ WorkerTeardown
  PROVE  Solo'
<1>1. /\ Teardown /\ Closing
      /\ m_stopped' = m_stopped /\ uiConnected' = uiConnected /\ m_connected' = m_connected
      /\ ioPc' \in {"idle", ioPc} /\ (ioPc' = "run" => ioPc = "run")
  BY DEF MainTeardown, WorkerTeardown, stateVars, uiVars, Closing
<1>2. m_stopped BY <1>1 DEF Solo, GoneMeansStopped
<1>3. idle \in Seq(Messages \cup {"gone"}) /\ idle' = Append(idle, "gone")
  BY <1>1 DEF IInv, TypeOK, Teardown
<1>4. "gone" \notin Steps BY DEF Steps, Requests
<1>5. GoneIn(idle') /\ GoneLast(idle')
  BY <1>3, <1>4, AppendsInOrder DEF Solo
<1>6. ioPc = "run" => Head(ready') = Head(ready)
  <2> SUFFICES ASSUME ioPc = "run" PROVE Head(ready') = Head(ready)
    OBVIOUS
  <2> DEFINE x == ready \o AbortedBySocketClose
             y == x \o WokenByDeadline
  <2>1. ready \in Seq(Completion) /\ ready # <<>> BY DEF IInv, TypeOK, HeadPresent
  <2>2. AbortedBySocketClose \in Seq(Completion) BY AbortedType DEF IInv
  <2>3. x \in Seq(Completion) /\ x # <<>> /\ Head(x) = Head(ready)
    BY <2>1, <2>2, HeadKept
  <2>4. ready' = y \o WokenByHeartbeat BY <1>1 DEF Teardown
  <2> HIDE DEF x
  <2>5. y \in Seq(Completion) /\ y # <<>> /\ Head(y) = Head(x)
    BY <2>3, WokenTypes, HeadKept
  <2> HIDE DEF y
  <2>6. Head(ready') = Head(y) BY <2>4, <2>5, WokenTypes, HeadKept
  <2> QED BY <2>3, <2>5, <2>6
<1>7. RunsNoStep' BY <1>1, <1>6 DEF Solo, RunsNoStep
<1>8. ClosedWhenStopped' BY <1>1 DEF ClosedWhenStopped, Teardown, CloseSocket
<1> QED BY <1>1, <1>2, <1>5, <1>7, <1>8
        DEF Solo, GoneMeansStopped, WillBeGone, ShownMeansConnected

(* What the main loop takes from its queue.                                *)
LEMMA DispatchOrder ==
  ASSUME IInv, Solo, NEW m, Dispatch(m)
  PROVE  /\ GoneIn(idle') => GoneIn(idle)
         /\ StepIn(idle') => StepIn(idle)
         /\ m \in Steps => StepIn(idle)
         /\ m # "gone" /\ GoneIn(idle) => GoneIn(idle')
         /\ GoneLast(idle')
         /\ m = "gone" => ~StepIn(idle')
         /\ Closing' <=> Closing
         /\ UNCHANGED <<ioPc, socket, connecting, reads>>
<1>1. idle \in Seq(Messages \cup {"gone"}) /\ idle # <<>> /\ Head(idle) = m
  BY DEF IInv, TypeOK, Dispatch
<1>2. idle' = Tail(idle) BY DEF Dispatch
<1>3. GoneLast(idle) BY DEF Solo
<1>4. /\ Closing' <=> Closing
      /\ UNCHANGED <<ioPc, socket, connecting, reads>>
  BY DEF Dispatch, Closing
<1>5. /\ GoneIn(Tail(idle)) => GoneIn(idle)
      /\ StepIn(Tail(idle)) => StepIn(idle)
      /\ m \in Steps => StepIn(idle)
      /\ m # "gone" /\ GoneIn(idle) => GoneIn(Tail(idle))
      /\ GoneLast(Tail(idle))
      /\ m = "gone" => ~StepIn(Tail(idle))
  BY <1>1, <1>3, PopsInOrder
<1> QED BY <1>2, <1>4, <1>5

(* An idle callback: a message of the handshake that a stopped client      *)
(* handles has its "gone" behind it.                                       *)
LEMMA CallbackSolo ==
  ASSUME IInv, Solo,
         OnPlayers \/ OnItemsPlayer \/ HandshakeDone \/ OnRefused \/ OnPong \/ OnGone
  PROVE  Solo'
<1>1. PICK m \in {"players", "items", "props", "refused", "pong", "gone"} :
        /\ Dispatch(m)
        /\ m = "gone" => OnGone
        /\ HandshakeDone => m \in Steps
  <2>1. {"items", "props"} \subseteq Steps BY DEF Steps, Requests
  <2> QED BY <2>1 DEF OnPlayers, OnItemsPlayer, HandshakeDone, OnRefused, OnPong, OnGone,
                       Dispatch
<1>2. /\ GoneIn(idle') => GoneIn(idle)
      /\ StepIn(idle') => StepIn(idle)
      /\ m \in Steps => StepIn(idle)
      /\ m # "gone" /\ GoneIn(idle) => GoneIn(idle')
      /\ GoneLast(idle')
      /\ m = "gone" => ~StepIn(idle')
      /\ Closing' <=> Closing
      /\ UNCHANGED <<ioPc, socket, connecting, reads>>
  BY <1>1, DispatchOrder
<1>3. /\ m_stopped' = m_stopped
      /\ \/ HandshakeDone /\ m_connected' = TRUE /\ uiConnected' = TRUE
         \/ OnGone /\ m_connected' = m_connected /\ uiConnected' = FALSE
         \/ m # "gone" /\ m_connected' = m_connected /\ uiConnected' = uiConnected
  <2>1. CASE HandshakeDone BY <2>1 DEF HandshakeDone, ShowConnection, SetConnectionWidgets
  <2>2. CASE OnGone BY <2>2 DEF OnGone, ShowConnection, SetConnectionWidgets, stateVars
  <2>3. CASE OnPlayers \/ OnItemsPlayer \/ OnRefused \/ OnPong
    <3>1. UNCHANGED <<m_stopped, m_connected, uiConnected>>
      BY <2>3 DEF OnPlayers, OnItemsPlayer, OnRefused, OnPong, stateVars, uiVars
    <3>2. m # "gone" BY <1>1, <2>3 DEF OnPlayers, OnItemsPlayer, OnRefused, OnPong, OnGone, Dispatch
    <3> QED BY <3>1, <3>2
  <2> QED BY <2>1, <2>2, <2>3
<1>4. ioPc = "run" => Head(ready') = Head(ready)
  <2> SUFFICES ASSUME ioPc = "run" PROVE Head(ready') = Head(ready)
    OBVIOUS
  <2>1. ready \in Seq(Completion) /\ ready # <<>> BY DEF IInv, TypeOK, HeadPresent
  <2>2. Done("writeError") \in Completion BY CompletionTypes
  <2>3. \/ ready' = ready
        \/ ready' = Append(ready, Done("writeError"))
        \/ ready' = ready \o WokenByHeartbeat
    BY DEF OnPlayers, OnItemsPlayer, HandshakeDone, OnRefused, OnPong, OnGone, Write
  <2> QED BY <2>1, <2>2, <2>3, WokenTypes, HeadKept
<1> USE DEF Solo
<1>5. RunsNoStep' BY <1>2, <1>3, <1>4 DEF RunsNoStep
<1>6. GoneMeansStopped' BY <1>2, <1>3 DEF GoneMeansStopped
<1>7. WillBeGone'
  <2>1. CASE HandshakeDone BY <1>1, <1>2, <1>3, <2>1 DEF WillBeGone, Steps, Requests
  <2>2. CASE m = "gone"
    <3>1. uiConnected' = FALSE BY <1>1, <2>2 DEF OnGone, ShowConnection, SetConnectionWidgets
    <3> QED BY <1>2, <2>2, <3>1 DEF WillBeGone
  <2>3. CASE ~HandshakeDone /\ m # "gone" BY <1>2, <1>3, <2>3 DEF WillBeGone
  <2> QED BY <2>1, <2>2, <2>3
<1>8. ShownMeansConnected' BY <1>3 DEF ShownMeansConnected
<1>9. ClosedWhenStopped' BY <1>2, <1>3 DEF ClosedWhenStopped
<1> QED BY <1>2, <1>5, <1>6, <1>7, <1>8, <1>9

(* A handler is not entered when m_stopped is set.                         *)
LEMMA HandlerEnterSolo ==
  ASSUME IInv, Solo, HandlerEnter
  PROVE  Solo'
<1>1. /\ m_stopped' = m_stopped /\ m_connected' = m_connected
      /\ uiConnected' = uiConnected /\ idle' = idle
      /\ socket' = socket /\ connecting' = connecting /\ reads' = reads
      /\ mainPc' = mainPc /\ ioPc = "idle"
      /\ ioPc' \in {"idle", "run"} /\ (m_stopped => ioPc' = "idle")
  BY DEF HandlerEnter, stateVars, uiVars, socketVars
<1>2. Closing' <=> Closing BY <1>1 DEF Closing
<1> QED BY <1>1, <1>2, KeptSolo

(* A handler of an attempt never runs when m_stopped is set; it goes on,   *)
(* or stops the client.                                                    *)
LEMMA AttemptHandlerSolo ==
  ASSUME IInv, Solo, HandleConnected \/ HandleConnectFailed
  PROVE  Solo'
<1>1. PICK k \in {"connected", "connectError"} : Running(k)
  BY DEF HandleConnected, HandleConnectFailed
<1>2. Head(ready) \in StepDone BY <1>1, HeadOf
<1>3. m_stopped = FALSE /\ ioPc = "run"
  BY <1>1, <1>2 DEF Solo, RunsNoStep, Running, IInv, TypeOK, FlagsOK
<1>4. idle' = idle /\ uiConnected' = uiConnected /\ mainPc' = mainPc
  BY DEF HandleConnected, HandleConnectFailed, uiVars
<1>5. CASE UNCHANGED stateVars /\ ioPc' = "idle"
  <2>1. m_stopped' = m_stopped /\ m_connected' = m_connected BY <1>5 DEF stateVars
  <2>2. Closing' <=> Closing BY <1>3, <1>4, <1>5 DEF Closing
  <2> QED BY <1>3, <1>4, <1>5, <2>1, <2>2, KeptSolo
<1>6. CASE StopFlags /\ ioPc' = "closing"
  <2>1. m_stopped' = TRUE /\ Closing' BY <1>6 DEF StopFlags, Closing
  <2> QED BY <1>4, <1>6, <2>1 DEF Solo, RunsNoStep, GoneMeansStopped, WillBeGone,
          ShownMeansConnected, ClosedWhenStopped
<1> QED BY <1>5, <1>6 DEF HandleConnected, HandleConnectFailed, NextEndpoint

(* A message read after disconnect() is a pong, and the socket is closed.  *)
LEMMA HandleMessageSolo ==
  ASSUME IInv, Solo, HandleMessage
  PROVE  Solo'
<1> DEFINE m == Head(ready).msg
<1>1. Running("message") /\ ioPc = "run" BY DEF HandleMessage, Running
<1>2. m \in Messages BY <1>1, RunningFacts, CompletionFields
<1>3. m \in Steps => Head(ready) \in StepDone BY <1>1, HeadOf
<1>4. /\ m_stopped' = m_stopped /\ m_connected' = m_connected
      /\ uiConnected' = uiConnected /\ mainPc' = mainPc /\ ioPc' = "idle"
      /\ socket' = socket /\ connecting' = connecting
      /\ (socket # "connected" => reads' = reads)
  BY DEF HandleMessage, StartRead, stateVars, uiVars
<1>5. idle \in Seq(Messages \cup {"gone"}) /\ idle' = Append(idle, m)
  BY DEF HandleMessage, HandleJson, IInv, TypeOK
<1>6. m # "gone" BY <1>2 DEF Messages, Requests
<1>7. m_stopped \in BOOLEAN BY DEF IInv, TypeOK, FlagsOK
<1>8. m \in Steps => m_stopped = FALSE
  BY <1>1, <1>3, <1>7 DEF Solo, RunsNoStep
<1> HIDE DEF m
<1>9. m \in Steps => ~GoneIn(idle) BY <1>8 DEF Solo, GoneMeansStopped
<1>10. /\ GoneIn(idle) => GoneIn(idle')
       /\ GoneIn(idle') => GoneIn(idle)
       /\ StepIn(idle') => StepIn(idle) \/ m \in Steps
       /\ GoneLast(idle')
  BY <1>2, <1>5, <1>6, <1>9, AppendsInOrder DEF Solo
<1>11. Closing' <=> Closing BY <1>1, <1>4 DEF Closing
<1> USE DEF Solo
<1>12. RunsNoStep' BY <1>4 DEF RunsNoStep
<1>13. GoneMeansStopped' BY <1>4, <1>10, <1>11 DEF GoneMeansStopped
<1>14. WillBeGone' BY <1>4, <1>8, <1>10, <1>11 DEF WillBeGone
<1>15. ShownMeansConnected' BY <1>4 DEF ShownMeansConnected
<1>16. ClosedWhenStopped' BY <1>4, <1>11 DEF ClosedWhenStopped
<1> QED BY <1>10, <1>12, <1>13, <1>14, <1>15, <1>16

(* An error stops the client; its teardown is next.                        *)
LEMMA HandleIoErrorSolo ==
  ASSUME IInv, Solo, HandleReadError \/ HandleWriteError
  PROVE  Solo'
<1>1. /\ m_stopped' = TRUE /\ ioPc' = "closing" /\ idle' = idle
      /\ uiConnected' = uiConnected
  BY DEF HandleReadError, HandleWriteError, WorkerDisconnects, StopFlags, uiVars
<1>2. Closing' BY <1>1 DEF Closing
<1> QED BY <1>1, <1>2 DEF Solo, RunsNoStep, GoneMeansStopped, WillBeGone,
        ShownMeansConnected, ClosedWhenStopped

(* start_ping and check_deadline open nothing.                             *)
LEMMA TimerHandlerSolo ==
  ASSUME IInv, Solo, HandlePing \/ HandleDeadline
  PROVE  Solo'
<1>1. /\ m_stopped' = m_stopped /\ m_connected' = m_connected
      /\ uiConnected' = uiConnected /\ idle' = idle /\ mainPc' = mainPc
      /\ ioPc = "run" /\ ioPc' = "idle"
  BY DEF HandlePing, HandleDeadline, Running, stateVars, uiVars
<1>2. /\ socket' \in {"closed", socket} /\ connecting' \in {0, connecting}
      /\ reads' \in {0, reads}
  BY DEF HandlePing, HandleDeadline, CloseSocket, socketVars
<1>3. Closing' <=> Closing BY <1>1 DEF Closing
<1> QED BY <1>1, <1>2, <1>3, KeptSolo

-----------------------------------------------------------------------------
(* Every step keeps it, and it holds at the start.                         *)
LEMMA InitSolo == Init => SoloInv
BY DEF Init, SoloInv, NotStarted, Unresolved, Solo, RunsNoStep, GoneMeansStopped, GoneIn,
       GoneLast, WillBeGone, StepIn, ShownMeansConnected, ClosedWhenStopped, Closing

LEMMA KeepsSolo ==
  ASSUME IInv, Within(1), Solo, [Next]_vars, ~Start, ~ClickConnect,
         mainPc = "resolving" => m_stopped = FALSE
  PROVE  Solo'
<1>1. CASE User
  BY <1>1, ClickDisconnectSolo, OutsideSolo DEF User
<1>2. CASE MainLoop
  <2>1. Resolved => m_stopped = FALSE BY DEF Resolved
  <2> QED BY <1>2, <2>1, ResolvedSolo, OutsideSolo, TeardownSolo, CallbackSolo DEF MainLoop
<1>3. CASE Worker
  BY <1>3, HandlerEnterSolo, AttemptHandlerSolo, HandleMessageSolo,
     HandleIoErrorSolo, TeardownSolo, TimerHandlerSolo DEF Worker
<1>4. CASE Network \/ Clock BY <1>4, OutsideSolo
<1>5. CASE UNCHANGED vars
  <2>1. /\ m_stopped' = m_stopped /\ m_connected' = m_connected
        /\ uiConnected' = uiConnected /\ idle' = idle /\ mainPc' = mainPc
        /\ ioPc' = ioPc /\ ready' = ready
        /\ socket' = socket /\ connecting' = connecting /\ reads' = reads
    BY <1>5 DEF vars, stateVars, socketVars, uiVars
  <2>2. Closing' <=> Closing BY <2>1 DEF Closing
  <2> QED BY <2>1, <2>2, KeptSolo
<1> QED BY <1>1, <1>2, <1>3, <1>4, <1>5 DEF Next

LEMMA StepSolo == IInv /\ Totals /\ SoloInv /\ [Next]_vars => SoloInv'
<1> SUFFICES ASSUME IInv, Totals, SoloInv, [Next]_vars PROVE SoloInv'
  OBVIOUS
<1>1. NotStarted' BY StepNotStarted DEF SoloInv
<1>2. NotStarted BY DEF SoloInv
<1>3. ASSUME calls' <= 1 PROVE Solo'
  <2>1. CASE Start \/ ClickConnect BY <1>2, <1>3, <2>1, BeginConnectSolo
  <2>2. CASE ~Start /\ ~ClickConnect
    <3>1. calls' = calls BY <2>2, CallsKept
    <3>2. calls \in Nat BY TotalTypes DEF IInv
    <3>3. Solo /\ calls <= 1 BY <1>3, <3>1 DEF SoloInv
    <3>4. Within(1)
      BY <3>3, TotalTypes, TotalsNow DEF IInv, Totals, Within
    <3>5. mainPc = "resolving" => m_stopped = FALSE
      BY <1>2, <3>2, <3>3 DEF NotStarted
    <3> QED BY <2>2, <3>3, <3>4, <3>5, KeepsSolo
  <2> QED BY <2>1, <2>2
<1> QED BY <1>1, <1>3 DEF SoloInv

LEMMA SoloHolds == Spec => [](IInv /\ Totals /\ SoloInv)
BY TotalsHold, InitSolo, StepSolo, PTL DEF Spec

(* As long as the client connected once only, disconnect() wins over every *)
(* handler that was past its test of m_stopped: when both threads are      *)
(* through, the socket is closed, no attempt and no read is outstanding.   *)
(* A wait on m_deadline or m_heartbeat_timer may be, and finds the client  *)
(* stopped when it ends, unless that has connected anew.  (A second,       *)
(* overlapping connect() can leave a socket open, see the README.)         *)
THEOREM FirstSessionClosed == Spec => [](calls <= 1 => StoppedClosed)
<1>1. SoloInv => (calls <= 1 => StoppedClosed)
  BY DEF SoloInv, Solo, ClosedWhenStopped, StoppedClosed, Quiet, Closing
<1> QED BY <1>1, SoloHolds, PTL

(* And the widgets do not go on showing that connection: whatever order    *)
(* the last answers, the flags and the "gone" callback come in.            *)
THEOREM FirstSessionShown == Spec => [](calls <= 1 => ShownConnected)
<1>1. SoloInv => (calls <= 1 => ShownConnected)
  BY DEF SoloInv, Solo, WillBeGone, ShownMeansConnected, ShownConnected, Quiet, Closing,
         GoneIn
<1> QED BY <1>1, SoloHolds, PTL
-----------------------------------------------------------------------------
(* A client that connects again only once it came to rest.  Two leftovers  *)
(* of a connection outlive disconnect() and would disturb the next: the    *)
(* heartbeat that a late pong restarts, whose ping can stop the client     *)
(* while the new name is resolved, and m_connected, which a late answer    *)
(* sets again, so that the dialog offers to disconnect in mid-handshake.   *)

(* Both threads are through, and none of that is left.                     *)
Rest == m_stopped /\ Quiet /\ ~heartbeatWait /\ ~m_connected

CleanStep == calls > 0 => calls' = calls \/ Rest

(* The requests of a stopped client are dropped: nothing is asked for.     *)
Spent == m_stopped /\ ~Closing => asked = {} /\ pings = 0

(* Until the name is resolved the worker has nothing but its deadline.     *)
OnlyDeadlines(s) == \A i \in DOMAIN s : s[i].kind = "deadline"
Fresh == mainPc = "resolving" =>
  /\ m_stopped = FALSE /\ heartbeatWait = FALSE
  /\ connecting = 0 /\ reads = 0 /\ ioPc # "closing"
  /\ OnlyDeadlines(ready)

CleanInv == NotStarted /\ Solo /\ Within(1) /\ Spent /\ Fresh

(* Spent: a write of a handler that is past its test of m_stopped is       *)
(* dropped, and closing the socket forgets the others.                     *)
LEMMA KeptSpent ==
  ASSUME Spent,
         \/ m_stopped' = FALSE
         \/ Closing'
         \/ asked' = {} /\ pings' = 0
         \/ /\ m_stopped' = m_stopped /\ (Closing => Closing')
            /\ m_stopped => asked' \subseteq asked /\ (pings' = pings \/ pings' = 0)
  PROVE  Spent'
BY DEF Spent

LEMMA StepSpent == IInv /\ Spent /\ [Next]_vars => Spent'
<1> SUFFICES ASSUME IInv, Spent, [Next]_vars PROVE Spent'
  OBVIOUS
<1>1. CASE Start \/ ClickConnect
  <2>1. m_stopped' = FALSE BY <1>1 DEF Start, ClickConnect, BeginConnect
  <2> QED BY <2>1, KeptSpent
<1>2. CASE ClickDisconnect
  <2>1. Closing' BY <1>2 DEF ClickDisconnect, Closing
  <2> QED BY <2>1, KeptSpent
<1>3. CASE \/ OpenDialog \/ CloseDialog \/ Resolved \/ ResolveFails
           \/ DeadlineTicks \/ HeartbeatPasses \/ UNCHANGED vars
  <2>1. /\ m_stopped' = m_stopped /\ asked' = asked /\ pings' = pings
        /\ mainPc' = "closing" <=> mainPc = "closing"
        /\ ioPc' = ioPc
    BY <1>3 DEF OpenDialog, CloseDialog, Resolved, ResolveFails, DeadlineTicks,
                HeartbeatPasses, EnvUnchanged, vars, stateVars, socketVars
  <2>2. Closing => Closing' BY <2>1 DEF Closing
  <2> QED BY <2>1, <2>2, KeptSpent
<1>4. CASE MainTeardown \/ WorkerTeardown
  <2>1. asked' = {} /\ pings' = 0
    BY <1>4 DEF MainTeardown, WorkerTeardown, Teardown, CloseSocket
  <2> QED BY <2>1, KeptSpent
<1>5. CASE OnPlayers \/ OnItemsPlayer \/ HandshakeDone \/ OnRefused \/ OnPong \/ OnGone
  <2>1. m_stopped' = m_stopped /\ pings' = pings /\ mainPc' = mainPc /\ ioPc' = ioPc
    BY <1>5 DEF OnPlayers, OnItemsPlayer, HandshakeDone, OnRefused, OnPong, OnGone,
                Dispatch, stateVars
  <2>2. m_stopped => asked' = asked
    BY <1>5 DEF OnPlayers, OnItemsPlayer, HandshakeDone, OnRefused, OnPong, OnGone, Write
  <2>3. Closing => Closing' BY <2>1 DEF Closing
  <2> QED BY <2>1, <2>2, <2>3, KeptSpent
<1>6. CASE HandlerEnter \/ HandleConnected \/ HandleMessage \/ HandlePing \/ HandleDeadline
  <2>1. m_stopped' = m_stopped /\ mainPc' = mainPc /\ ioPc # "closing"
    BY <1>6 DEF HandlerEnter, HandleConnected, HandleMessage, HandlePing, HandleDeadline,
                Running, stateVars
  <2>2. m_stopped => \/ asked' = asked /\ pings' = pings
                     \/ asked' = {} /\ pings' = 0
    BY <1>6 DEF HandlerEnter, HandleConnected, HandleMessage, HandlePing, HandleDeadline,
                CloseSocket, socketVars
  <2>3. Closing => Closing' BY <2>1 DEF Closing
  <2> QED BY <2>1, <2>2, <2>3, KeptSpent DEF Spent
<1>7. CASE HandleConnectFailed
  <2>1. asked' = {} /\ pings' = 0
    BY <1>7 DEF HandleConnectFailed, NextEndpoint, CloseSocket
  <2> QED BY <2>1, KeptSpent
<1>8. CASE HandleReadError \/ HandleWriteError
  <2>1. Closing'
    BY <1>8 DEF HandleReadError, HandleWriteError, WorkerDisconnects, Closing
  <2> QED BY <2>1, KeptSpent
<1>9. CASE Network
  <2>1. m_stopped' = m_stopped /\ mainPc' = mainPc /\ ioPc' = ioPc
    BY <1>9 DEF Network, Established, Unreachable, Reply, PeerCloses, EnvUnchanged, stateVars
  <2>2. \/ asked' = asked /\ pings' = pings
        \/ asked' = {} /\ pings' = 0
        \/ Reply
    BY <1>9 DEF Network, Established, Unreachable, PeerCloses
  <2>3. Reply /\ m_stopped /\ ~Closing => FALSE
    BY DEF Reply, Spent
  <2>4. Closing => Closing' BY <2>1 DEF Closing
  <2> QED BY <2>1, <2>2, <2>3, <2>4, KeptSpent DEF Spent
<1> QED BY <1>1, <1>2, <1>3, <1>4, <1>5, <1>6, <1>7, <1>8, <1>9
        DEF Next, User, MainLoop, Worker, Clock

(* Fresh: as the name is resolved, only deadlines run and are queued.      *)
LEMMA DeadlinesOnly ==
  ASSUME NEW s \in Seq(Completion), OnlyDeadlines(s)
  PROVE  /\ OnlyDeadlines(s \o WokenByDeadline)
         /\ s # <<>> => Head(s).kind = "deadline" /\ OnlyDeadlines(Tail(s))
<1> DEFINE w == WokenByDeadline
<1>1. w \in Seq(Completion) BY WokenTypes
<1>2. \A i \in DOMAIN w : w[i].kind = "deadline" BY DEF WokenByDeadline, Done
<1> HIDE DEF w
<1>3. OnlyDeadlines(s \o w)
  <2>1. /\ DOMAIN (s \o w) = 1 .. Len(s) + Len(w)
        /\ Len(s) \in Nat /\ Len(w) \in Nat
        /\ \A i \in 1 .. Len(s) + Len(w) :
             (s \o w)[i] = IF i <= Len(s) THEN s[i] ELSE w[i - Len(s)]
    BY <1>1
  <2>2. SUFFICES ASSUME NEW i \in 1 .. Len(s) + Len(w) PROVE (s \o w)[i].kind = "deadline"
    BY <2>1 DEF OnlyDeadlines
  <2>3. CASE i <= Len(s)
    <3>1. i \in DOMAIN s BY <2>1, <2>3
    <3> QED BY <2>1, <2>3, <3>1 DEF OnlyDeadlines
  <2>4. CASE ~(i <= Len(s))
    <3>1. i - Len(s) \in DOMAIN w BY <1>1, <2>1, <2>4
    <3> QED BY <1>2, <2>1, <2>4, <3>1
  <2> QED BY <2>3, <2>4
<1>4. ASSUME s # <<>> PROVE Head(s).kind = "deadline" /\ OnlyDeadlines(Tail(s))
  <2>1. /\ 1 \in DOMAIN s /\ Head(s) = s[1]
        /\ \A i \in DOMAIN Tail(s) : i + 1 \in DOMAIN s /\ Tail(s)[i] = s[i + 1]
    BY <1>4
  <2> QED BY <2>1 DEF OnlyDeadlines
<1> QED BY <1>3, <1>4 DEF w

(* Nothing that closing the socket would abort, nothing is queued by it.   *)
LEMMA NothingAborted ==
  ASSUME connecting = 0, reads = 0, NEW s \in Seq(Completion)
  PROVE  s \o AbortedBySocketClose = s
<1>1. AbortedBySocketClose = <<>> BY DEF AbortedBySocketClose, Repeat
<1> QED BY <1>1

LEMMA StepFresh ==
  ASSUME IInv, Fresh, [Next]_vars, ~Start, ~ClickConnect
  PROVE  Fresh'
<1> SUFFICES ASSUME mainPc' = "resolving" PROVE Fresh'
  BY DEF Fresh
<1>1. mainPc = "resolving"
  <2>1. CASE User BY <2>1 DEF User, ClickDisconnect, OpenDialog, CloseDialog
  <2>2. CASE MainLoop
    BY <2>2 DEF MainLoop, Resolved, ResolveFails, MainTeardown, OnPlayers, OnItemsPlayer,
                HandshakeDone, OnRefused, OnPong, OnGone, Dispatch
  <2>3. CASE Worker
    BY <2>3 DEF Worker, HandlerEnter, HandleConnected, HandleConnectFailed,
                HandleMessage, HandleReadError, HandleWriteError, WorkerDisconnects,
                WorkerTeardown, HandlePing, HandleDeadline
  <2>4. CASE Network \/ Clock
    BY <2>4 DEF Network, Clock, Established, Unreachable, Reply, PeerCloses,
                DeadlineTicks, HeartbeatPasses, EnvUnchanged
  <2>5. CASE UNCHANGED vars BY <2>5 DEF vars
  <2> QED BY <2>1, <2>2, <2>3, <2>4, <2>5 DEF Next
<1>2. /\ m_stopped = FALSE /\ heartbeatWait = FALSE
      /\ connecting = 0 /\ reads = 0 /\ ioPc # "closing"
      /\ OnlyDeadlines(ready) /\ ready \in Seq(Completion)
  BY <1>1 DEF Fresh, IInv, TypeOK
<1>3. ready # <<>> => Head(ready).kind = "deadline" BY <1>2, DeadlinesOnly
<1>4. ~User BY <1>1 DEF User, Start, ClickConnect, ClickDisconnect, OpenDialog, CloseDialog
<1>5. ~MainLoop
  BY <1>1 DEF MainLoop, Resolved, ResolveFails, MainTeardown, OnPlayers, OnItemsPlayer,
              HandshakeDone, OnRefused, OnPong, OnGone, Dispatch
<1>6. ~(Network \/ HeartbeatPasses)
  BY <1>2 DEF Network, Established, Unreachable, Reply, PeerCloses, HeartbeatPasses
<1>7. CASE DeadlineTicks
  <2>1. ready' \in {ready, ready \o WokenByDeadline}
    BY <1>7 DEF DeadlineTicks
  <2>2. OnlyDeadlines(ready') BY <1>2, <2>1, DeadlinesOnly
  <2> QED BY <1>2, <1>7, <2>2 DEF Fresh, DeadlineTicks, EnvUnchanged, stateVars, socketVars
<1>8. CASE UNCHANGED vars
  BY <1>2, <1>8 DEF Fresh, vars, stateVars, socketVars, timerVars
<1>9. CASE Worker
  <2>1. HandlerEnter \/ HandleDeadline
    <3>1. \A k : Running(k) => k = "deadline"
      BY <1>3 DEF Running, IInv, HeadPresent
    <3> QED BY <1>2, <1>9, <3>1 DEF Worker, HandleConnected, HandleConnectFailed,
            HandleMessage, HandleReadError, HandleWriteError, WorkerTeardown, HandlePing
  <2>2. CASE HandlerEnter
    <3>1. /\ UNCHANGED <<m_stopped, heartbeatWait, connecting, reads, ready>>
          /\ ioPc' = "run"
      BY <1>2, <2>2 DEF HandlerEnter, stateVars, socketVars, timerVars
    <3> QED BY <1>2, <3>1 DEF Fresh
  <2>3. CASE HandleDeadline
    <3>1. /\ UNCHANGED <<m_stopped, heartbeatWait>>
          /\ connecting' = 0 /\ reads' = 0 /\ ioPc' = "idle"
      BY <1>2, <2>3 DEF HandleDeadline, CloseSocket, socketVars, stateVars
    <3>2. ready # <<>> /\ Tail(ready) \in Seq(Completion)
      BY <2>3, RunningFacts DEF HandleDeadline
    <3>3. ready' = Tail(ready)
      BY <1>2, <2>3, <3>2, NothingAborted DEF HandleDeadline
    <3>4. OnlyDeadlines(ready') BY <1>2, <3>2, <3>3, DeadlinesOnly
    <3> QED BY <1>2, <3>1, <3>4 DEF Fresh
  <2> QED BY <2>1, <2>2, <2>3
<1> QED BY <1>4, <1>5, <1>6, <1>7, <1>8, <1>9 DEF Next, Clock

(* At rest there is nothing left to count, and nothing that shows.         *)
LEMMA RestTotals ==
  ASSUME IInv, Solo, Spent, Rest, dialog = "connect"
  PROVE  /\ Within(0) /\ uiConnected = FALSE
         /\ ready = <<>> /\ idle = <<>> /\ ioPc = "idle"
         /\ connecting = 0 /\ reads = 0 /\ heartbeatWait = FALSE
<1>1. /\ m_stopped /\ ready = <<>> /\ ioPc = "idle" /\ idle = <<>> /\ mainPc = "idle"
      /\ heartbeatWait = FALSE /\ m_connected = FALSE
  BY DEF Rest, Quiet, IInv, TypeOK, FlagsOK
<1>2. ~Closing /\ ~GoneIn(idle) BY <1>1 DEF Closing, GoneIn
<1>3. connecting = 0 /\ reads = 0 BY <1>1, <1>2 DEF Solo, ClosedWhenStopped
<1>4. asked = {} /\ pings = 0 BY <1>1, <1>2 DEF Spent
<1>5. uiConnected = FALSE
  BY <1>1, <1>2 DEF Solo, WillBeGone, IInv, TypeOK, FlagsOK
<1>6. Resolving = 0 /\ Attempting = 0 /\ Beating = 0 /\ Showing = 0
  BY <1>1, <1>3, <1>5 DEF Resolving, Attempting, Beating, Showing, Shown
<1>7. Cardinality(asked) = 0 BY <1>4, FS_EmptySet
<1>8. \A K : Count(ready, K) = 0 /\ Count(idle, K) = 0
  <2>1. <<>> \in Seq(Completion) OBVIOUS
  <2> QED BY <1>1, <2>1, CountPresent
<1>9. Within(0)
  BY <1>3, <1>4, <1>6, <1>7, <1>8 DEF Within, ChainTotal, CycleTotal, StepTotal
<1> QED BY <1>1, <1>3, <1>5, <1>9

(* A call of connect() at rest starts over.                                *)
LEMMA BeginCleanInv ==
  ASSUME IInv, Totals, CleanInv, Start \/ ClickConnect, CleanStep
  PROVE  Solo' /\ Within(1)' /\ Fresh'
<1>1. calls \in Nat /\ (calls = 0 => mainPc = "new" /\ Unresolved)
  BY TotalTypes DEF IInv, CleanInv, NotStarted, Unresolved
<1>2. /\ calls' = calls + 1 /\ mainPc' = "resolving" /\ m_stopped' = FALSE
      /\ UNCHANGED <<m_connected, heartbeatWait, connecting, reads, ready, ioPc, idle,
                     uiConnected>>
  BY DEF Start, ClickConnect, BeginConnect, socketVars, timerVars, uiVars
<1>3. /\ Within(0) /\ uiConnected = FALSE
      /\ ready = <<>> /\ idle = <<>> /\ ioPc = "idle"
      /\ connecting = 0 /\ reads = 0 /\ heartbeatWait = FALSE
  <2>1. CASE calls = 0
    BY <1>1, <2>1 DEF Totals, CleanInv, NotStarted
  <2>2. CASE calls > 0
    <3>1. Rest BY <1>1, <1>2, <2>2 DEF CleanStep
    <3>2. dialog = "connect" BY <3>1 DEF Rest, Quiet, Start, ClickConnect
    <3> QED BY <3>1, <3>2, RestTotals DEF CleanInv
  <2>3. calls = 0 \/ calls > 0 BY <1>1
  <2> QED BY <2>1, <2>2, <2>3
<1>4. Within(1)'
  <2>1. 0 \in Nat /\ 0 + 1 = 1 OBVIOUS
  <2> QED BY <1>3, <2>1, BeginConnectTotals
<1>5. Solo'
  <2>1. ~Closing' /\ ~GoneIn(idle') /\ GoneLast(idle')
    BY <1>2, <1>3 DEF Closing, GoneIn, GoneLast
  <2> QED BY <1>2, <1>3, <2>1 DEF Solo, RunsNoStep, GoneMeansStopped, WillBeGone,
          ShownMeansConnected, ClosedWhenStopped
<1>6. Fresh' BY <1>2, <1>3 DEF Fresh, OnlyDeadlines
<1> QED BY <1>4, <1>5, <1>6

LEMMA StepCleanInv ==
  IInv /\ Totals /\ CleanInv /\ [Next]_vars /\ [CleanStep]_calls => CleanInv'
<1> SUFFICES ASSUME IInv, Totals, CleanInv, [Next]_vars, [CleanStep]_calls
             PROVE  CleanInv'
  OBVIOUS
<1>1. NotStarted' BY StepNotStarted DEF CleanInv
<1>2. Spent' BY StepSpent DEF CleanInv
<1>3. CASE Start \/ ClickConnect
  <2>1. calls' # calls
    BY <1>3, TotalTypes DEF IInv, Start, ClickConnect, BeginConnect
  <2>2. CleanStep BY <2>1
  <2>3. Solo' /\ Within(1)' /\ Fresh' BY <1>3, <2>2, BeginCleanInv
  <2> QED BY <1>1, <1>2, <2>3 DEF CleanInv
<1>4. CASE ~Start /\ ~ClickConnect
  <2>1. Within(1)'
    <3>1. 1 \in Nat OBVIOUS
    <3> QED BY <1>4, <3>1, StepWithin DEF CleanInv
  <2>2. Fresh' BY <1>4, StepFresh DEF CleanInv
  <2>3. Solo' BY <1>4, KeepsSolo DEF CleanInv, Fresh
  <2> QED BY <1>1, <1>2, <2>1, <2>2, <2>3 DEF CleanInv
<1> QED BY <1>3, <1>4

LEMMA InitCleanInv == Init => CleanInv
<1> SUFFICES ASSUME Init PROVE CleanInv
  OBVIOUS
<1>1. SoloInv BY InitSolo
<1>2. NotStarted /\ Solo BY <1>1 DEF Init, SoloInv
<1>3. Within(0) BY InitTotals
<1>4. Within(1)
  <2>1. TypeOK BY InitIInv DEF IInv
  <2> QED BY <1>3, <2>1, TotalTypes, TotalsNow DEF Within
<1>5. Spent /\ Fresh BY DEF Init, Spent, Fresh
<1> QED BY <1>2, <1>4, <1>5 DEF CleanInv

LEMMA CleanHolds == Spec /\ [][CleanStep]_calls => [](IInv /\ Totals /\ CleanInv)
BY TotalsHold, InitCleanInv, StepCleanInv, PTL DEF Spec

(* However often it connects, a client that is at rest whenever it does    *)
(* ends every session with its socket closed, no attempt and no read       *)
(* outstanding: what disconnect() relies on is that no connection overlaps *)
(* another's leftovers, not that there is only one.                        *)
THEOREM CleanReconnectsClose == Spec /\ [][CleanStep]_calls => []StoppedClosed
<1>1. CleanInv => StoppedClosed
  BY DEF CleanInv, Solo, ClosedWhenStopped, StoppedClosed, Quiet, Closing
<1> QED BY <1>1, CleanHolds, PTL

(* And its widgets never go on showing any of these connections.           *)
THEOREM CleanReconnectsShow == Spec /\ [][CleanStep]_calls => []ShownConnected
<1>1. CleanInv => ShownConnected
  BY DEF CleanInv, Solo, WillBeGone, ShownMeansConnected, ShownConnected, Quiet, Closing,
         GoneIn
<1> QED BY <1>1, CleanHolds, PTL

(* Nor does it ever read twice at once into m_input_buffer, or keep two    *)
(* cycles of pings: one connection's end with it.                          *)
THEOREM CleanReconnectsAlone ==
  Spec /\ [][CleanStep]_calls => [](Chains <= 1 /\ PingCycles <= 1)
<1>1. IInv /\ CleanInv => Chains <= 1 /\ PingCycles <= 1
  <2>1. 1 \in Nat OBVIOUS
  <2> QED BY <2>1, ChainsWithin, CyclesWithin DEF CleanInv
<1> QED BY <1>1, CleanHolds, PTL
=============================================================================
