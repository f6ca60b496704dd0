--------------------------- MODULE XvfsCache_proofs ---------------------------
(***************************************************************************)
(* XvfsCache for any number of thumbnails, threads and refreshes: whoever  *)
(* marks an object "fetching" leaves a task, queued or running, that will  *)
(* take the mark away, and nothing is "cached" without its picture.        *)
(***************************************************************************)
EXTENDS XvfsCache, SequenceTheorems, TLAPS

Queued(s, p) == \E i \in DOMAIN s : s[i] = p

(* Somebody has the fetch of p before him.                                 *)
Pending(p) == pushing = p \/ Queued(tasks, p) \/ \E t \in Threads : running[t] = p

AllPending == \A p \in Paths : m_state[p] = "FETCHING" => Pending(p)

(* A thread that is past set_unscaled_pixbuf has left the picture.         *)
StoredPresent == \A t \in stored : running[t] \in pixbuf

IInv == TypeOK /\ AllPending /\ StoredPresent /\ PixbufPresent

-----------------------------------------------------------------------------
(* Pushing a task keeps the others.                                        *)
LEMMA AppendQueued ==
  ASSUME NEW s \in Seq(Paths), NEW p \in Paths
  PROVE  /\ Append(s, p) \in Seq(Paths)
         /\ Queued(Append(s, p), p)
         /\ \A q \in Paths : Queued(s, q) => Queued(Append(s, p), q)
<1> DEFINE a == Append(s, p)
<1>1. /\ a \in Seq(Paths) /\ Len(s) \in Nat /\ DOMAIN s = 1..Len(s)
      /\ DOMAIN a = 1..(Len(s) + 1) /\ a[Len(s) + 1] = p
      /\ \A i \in 1..Len(s) : a[i] = s[i]
  OBVIOUS
<1>2. DOMAIN s \subseteq DOMAIN a /\ Len(s) + 1 \in DOMAIN a BY <1>1
<1> HIDE DEF a
<1>3. Queued(a, p) BY <1>1, <1>2 DEF Queued
<1>4. \A q \in Paths : Queued(s, q) => Queued(a, q) BY <1>1, <1>2 DEF Queued
<1> QED BY <1>1, <1>3, <1>4 DEF a

(* Taking a task keeps the others.                                         *)
LEMMA TailQueued ==
  ASSUME NEW s \in Seq(Paths), s # <<>>
  PROVE  /\ Head(s) \in Paths /\ Tail(s) \in Seq(Paths)
         /\ \A q \in Paths : Queued(s, q) /\ q # Head(s) => Queued(Tail(s), q)
<1>1. /\ Head(s) \in Paths /\ Tail(s) \in Seq(Paths)
      /\ Len(s) \in Nat \ {0} /\ DOMAIN s = 1..Len(s) /\ Head(s) = s[1]
      /\ DOMAIN Tail(s) = 1..(Len(s) - 1)
      /\ \A i \in 1..(Len(s) - 1) : Tail(s)[i] = s[i + 1]
  OBVIOUS
<1>2. ASSUME NEW q \in Paths, NEW i \in DOMAIN s, s[i] = q, q # Head(s)
      PROVE  i - 1 \in DOMAIN Tail(s) /\ Tail(s)[i - 1] = q
  BY <1>1, <1>2
<1> QED BY <1>1, <1>2 DEF Queued

(* set_state changes one object's state.                                   *)
LEMMA SetStateFacts ==
  ASSUME TypeOK, NEW p \in Paths, NEW s \in {"FETCHING", "CACHED", "ERROR"}, SetState(p, s)
  PROVE  /\ m_state' \in [Paths -> {"absent", "FETCHING", "CACHED", "ERROR"}]
         /\ m_state'[p] = s
         /\ \A q \in Paths : q # p => m_state'[q] = m_state[q]
         /\ idle' \in Seq(Paths)
BY AppendQueued DEF SetState, TypeOK

(* Without objects there is nothing to fetch.                              *)
LEMMA InitIInv == Init => IInv
<1> SUFFICES ASSUME Init PROVE IInv
  OBVIOUS
<1>1. TypeOK
  <2>1. m_state \in [Paths -> {"absent", "FETCHING", "CACHED", "ERROR"}] BY DEF Init
  <2>2. running \in [Threads -> Paths \cup {NoPath}] BY DEF Init
  <2>3. tasks \in Seq(Paths) /\ idle \in Seq(Paths) BY DEF Init
  <2>4. refreshes \in 0..MaxRefreshes BY XvfsAssumption DEF Init
  <2>5. overlapped \in BOOLEAN BY DEF Init
  <2>6. /\ pixbuf \subseteq Paths /\ stored \subseteq Threads
        /\ {pushing, item, image} \subseteq Paths \cup {NoPath}
    BY DEF Init
  <2> QED BY <2>1, <2>2, <2>3, <2>4, <2>5, <2>6 DEF TypeOK
<1>2. \A p \in Paths : m_state[p] = "absent" BY DEF Init
<1>3. stored = {} BY DEF Init
<1> QED BY <1>1, <1>2, <1>3 DEF IInv, AllPending, StoredPresent, PixbufPresent

(* fetch_async marks what it will push.                                    *)
LEMMA MainLoopIInv ==
  ASSUME IInv, Refresh \/ RefreshWithout \/ Push \/ Emit
  PROVE  IInv'
<1> USE DEF IInv, objectVars, poolVars, windowVars
<1>1. CASE Refresh
  <2> USE <1>1 DEF Refresh
  <2> PICK p \in Paths : item' = p /\ pushing' = p /\ SetState(p, "FETCHING")
    OBVIOUS
  <2>1. /\ m_state' \in [Paths -> {"absent", "FETCHING", "CACHED", "ERROR"}]
        /\ m_state'[p] = "FETCHING" /\ idle' \in Seq(Paths)
        /\ \A q \in Paths : q # p => m_state'[q] = m_state[q]
    BY SetStateFacts
  <2>2. refreshes' \in 0..MaxRefreshes BY XvfsAssumption DEF TypeOK
  <2>3. overlapped' \in BOOLEAN BY DEF TypeOK
  <2>4. TypeOK' BY <2>1, <2>2, <2>3 DEF TypeOK
  <2>5. AllPending'
    <3> SUFFICES ASSUME NEW q \in Paths, m_state'[q] = "FETCHING" PROVE Pending(q)'
      BY DEF AllPending
    <3>1. CASE q = p BY <3>1 DEF Pending
    <3>2. CASE q # p
      <4>1. Pending(q) BY <2>1, <3>2 DEF AllPending
      <4>2. q # NoPath BY XvfsAssumption
      <4> QED BY <4>1, <4>2 DEF Pending
    <3> QED BY <3>1, <3>2
  <2>6. StoredPresent' BY DEF StoredPresent
  <2>7. PixbufPresent' BY <2>1 DEF PixbufPresent
  <2> QED BY <2>4, <2>5, <2>6, <2>7
<1>2. CASE RefreshWithout
  <2> USE <1>2 DEF RefreshWithout
  <2>1. refreshes' \in 0..MaxRefreshes BY XvfsAssumption DEF TypeOK
  <2>2. TypeOK' BY <2>1 DEF TypeOK
  <2> QED BY <2>2 DEF AllPending, Pending, StoredPresent, PixbufPresent
<1>3. CASE Push
  <2> USE <1>3 DEF Push
  <2>1. pushing \in Paths BY DEF TypeOK
  <2>2. /\ tasks' \in Seq(Paths) /\ Queued(tasks', pushing)
        /\ \A q \in Paths : Queued(tasks, q) => Queued(tasks', q)
    BY <2>1, AppendQueued DEF TypeOK
  <2>3. TypeOK' BY <2>2 DEF TypeOK
  <2>4. AllPending' BY <2>2 DEF AllPending, Pending
  <2> QED BY <2>3, <2>4 DEF StoredPresent, PixbufPresent
<1>4. CASE Emit
  <2> USE <1>4 DEF Emit
  <2>1. Head(idle) \in Paths /\ Tail(idle) \in Seq(Paths) BY TailQueued DEF TypeOK
  <2>2. TypeOK' BY <2>1 DEF TypeOK
  <2> QED BY <2>2 DEF AllPending, Pending, StoredPresent, PixbufPresent
<1> QED BY <1>1, <1>2, <1>3, <1>4

(* A task that is dropped was not "fetching".                              *)
LEMMA TakeIInv ==
  ASSUME IInv, NEW t \in Threads, Take(t)
  PROVE  IInv'
<1> USE DEF IInv, objectVars, windowVars, Take
<1>1. /\ Head(tasks) \in Paths /\ tasks' \in Seq(Paths)
      /\ \A q \in Paths : Queued(tasks, q) /\ q # Head(tasks) => Queued(tasks', q)
  BY TailQueued DEF TypeOK
<1>2. /\ running' \in [Threads -> Paths \cup {NoPath}]
      /\ m_state[Head(tasks)] = "FETCHING" => running'[t] = Head(tasks)
      /\ \A u \in Threads : u # t => running'[u] = running[u]
  BY <1>1 DEF TypeOK
<1>3. TypeOK' BY <1>1, <1>2 DEF TypeOK
<1>4. AllPending'
  <2> SUFFICES ASSUME NEW q \in Paths, m_state[q] = "FETCHING" PROVE Pending(q)'
    BY DEF AllPending
  <2>1. Pending(q) BY DEF AllPending
  <2>2. CASE q = Head(tasks) BY <1>2, <2>2 DEF Pending
  <2>3. CASE q # Head(tasks)
    <3>1. running[t] # q BY XvfsAssumption
    <3> QED BY <1>1, <1>2, <2>1, <2>3, <3>1 DEF Pending
  <2> QED BY <2>2, <2>3
<1>5. StoredPresent'
  <2>1. t \notin stored
    <3>1. NoPath \notin pixbuf BY XvfsAssumption DEF TypeOK
    <3> QED BY <3>1 DEF StoredPresent
  <2> QED BY <1>2, <2>1 DEF StoredPresent, TypeOK
<1>6. PixbufPresent' BY DEF PixbufPresent
<1> QED BY <1>3, <1>4, <1>5, <1>6

(* set_unscaled_pixbuf only adds pictures.                                 *)
LEMMA StoreIInv ==
  ASSUME IInv, NEW t \in Threads, Store(t)
  PROVE  IInv'
<1> USE DEF IInv, windowVars, Store, Waiting
<1>1. running[t] \in Paths BY DEF TypeOK
<1>2. TypeOK' BY <1>1 DEF TypeOK
<1>3. AllPending' BY DEF AllPending, Pending
<1>4. StoredPresent' BY DEF StoredPresent
<1>5. PixbufPresent' BY DEF PixbufPresent
<1> QED BY <1>2, <1>3, <1>4, <1>5

(* A thread that ends takes its object's mark away.                        *)
LEMMA EndIInv ==
  ASSUME IInv, NEW t \in Threads, SetCached(t) \/ SetError(t)
  PROVE  IInv'
<1> USE DEF IInv, windowVars, SetCached, SetError
<1> DEFINE p == running[t]
<1>1. p \in Paths
  BY XvfsAssumption DEF TypeOK, StoredPresent, Waiting
<1>2. PICK s \in {"CACHED", "ERROR"} : SetState(p, s) /\ (s = "CACHED" => p \in pixbuf)
  BY DEF StoredPresent
<1>3. /\ m_state' \in [Paths -> {"absent", "FETCHING", "CACHED", "ERROR"}]
      /\ m_state'[p] = s /\ idle' \in Seq(Paths)
      /\ \A q \in Paths : q # p => m_state'[q] = m_state[q]
  BY <1>1, <1>2, SetStateFacts
<1>4. /\ running' \in [Threads -> Paths \cup {NoPath}]
      /\ \A u \in Threads : u # t => running'[u] = running[u]
      /\ stored' = stored \ {t}
  BY DEF Finish, TypeOK
<1>5. TypeOK' BY <1>3, <1>4 DEF TypeOK
<1>6. AllPending'
  <2> SUFFICES ASSUME NEW q \in Paths, m_state'[q] = "FETCHING" PROVE Pending(q)'
    BY DEF AllPending
  <2>1. q # p BY <1>3
  <2>2. Pending(q) BY <1>3, <2>1 DEF AllPending
  <2> QED BY <1>4, <2>1, <2>2 DEF Pending
<1>7. StoredPresent' BY <1>4 DEF StoredPresent, TypeOK
<1>8. PixbufPresent' BY <1>2, <1>3 DEF PixbufPresent
<1> QED BY <1>5, <1>6, <1>7, <1>8

(* The invariant holds in every reachable state.                           *)
LEMMA Inductive == Spec => []IInv
<1>1. IInv /\ [Next]_vars => IInv'
  <2> SUFFICES ASSUME IInv, [Next]_vars PROVE IInv'
    OBVIOUS
  <2>1. CASE Refresh \/ RefreshWithout \/ Push \/ Emit BY <2>1, MainLoopIInv
  <2>2. CASE \E t \in Threads : Fetch(t)
    BY <2>2, TakeIInv, StoreIInv, EndIInv DEF Fetch
  <2>3. CASE UNCHANGED vars
    BY <2>3 DEF vars, objectVars, poolVars, windowVars, IInv, TypeOK, AllPending, Pending,
       StoredPresent, PixbufPresent
  <2> QED BY <2>1, <2>2, <2>3 DEF Next
<1> QED BY InitIInv, <1>1, PTL DEF Spec

(* Whatever state the pool is in, an object marked as being fetched is     *)
(* about to be pushed, queued, or with a thread.                           *)
THEOREM FetchPending == Spec => []AllPending
<1>1. IInv => AllPending BY DEF IInv
<1> QED BY Inductive, <1>1, PTL

(* The cache, its objects and the pool keep their types.                   *)
THEOREM TypeCorrect == Spec => []TypeOK
<1>1. IInv => TypeOK BY DEF IInv
<1> QED BY Inductive, <1>1, PTL

(* When nothing is queued and no thread fetches, no object is left marked  *)
(* as being fetched: fetch_async and fetch_threadfunc lose none.           *)
THEOREM FetchesKept == Spec => []NoFetchForgotten
<1>1. IInv => NoFetchForgotten
  <2> SUFFICES ASSUME IInv, FetchesDone, NEW p \in Paths, m_state[p] = "FETCHING"
               PROVE  FALSE
    BY DEF NoFetchForgotten
  <2>1. Pending(p) BY DEF IInv, AllPending
  <2>2. ~Queued(tasks, p) BY DEF FetchesDone, Queued
  <2> QED BY <2>1, <2>2, XvfsAssumption DEF Pending, FetchesDone
<1> QED BY Inductive, <1>1, PTL

(* cache_object_state_change never scales a picture that is not there.     *)
THEOREM CachedHasPixbuf == Spec => []PixbufPresent
<1>1. IInv => PixbufPresent BY DEF IInv
<1> QED BY Inductive, <1>1, PTL
-----------------------------------------------------------------------------
(* Whatever is under way is the item's.                                    *)
OneItem == pushing \in {item, NoPath} /\ OnlyUnderWay(item)

(* A picture that is not shown yet has its announcement queued.            *)
Announced == m_state[item] = "CACHED" => image = item \/ idle # <<>>

(* A fetch that begins when nothing of another object is under way keeps   *)
(* both until the next item; one that RefreshWithout leaves behind is of   *)
(* no item.                                                                *)
Shown == ~overlapped /\ item # NoPath => OneItem /\ Announced

(* set_state queues its object: an element more, at the end.               *)
LEMMA AppendAll ==
  ASSUME NEW S, NEW s \in Seq(S), NEW e \in S
  PROVE  /\ Append(s, e) # <<>>
         /\ (\A i \in DOMAIN s : s[i] = e) => \A i \in DOMAIN Append(s, e) : Append(s, e)[i] = e
<1> DEFINE a == Append(s, e)
<1>1. /\ Len(s) \in Nat /\ DOMAIN s = 1..Len(s) /\ DOMAIN a = 1..(Len(s) + 1)
      /\ a[Len(s) + 1] = e /\ a # <<>>
      /\ \A i \in 1..Len(s) : a[i] = s[i]
  OBVIOUS
<1> HIDE DEF a
<1>2. ASSUME \A i \in DOMAIN s : s[i] = e, NEW i \in DOMAIN a PROVE a[i] = e
  <2>1. CASE i = Len(s) + 1 BY <1>1, <2>1
  <2>2. CASE i # Len(s) + 1
    <3>1. i \in 1..Len(s) BY <1>1, <1>2, <2>2
    <3> QED BY <1>1, <1>2, <3>1
  <2> QED BY <2>1, <2>2
<1> QED BY <1>1, <1>2 DEF a

(* The queue without its oldest element.                                   *)
LEMMA TailAll ==
  ASSUME NEW S, NEW s \in Seq(S), s # <<>>, NEW e, \A i \in DOMAIN s : s[i] = e
  PROVE  Head(s) = e /\ \A i \in DOMAIN Tail(s) : Tail(s)[i] = e
<1> DEFINE r == Tail(s)
<1>1. /\ Len(s) \in Nat /\ Len(s) >= 1 /\ DOMAIN s = 1..Len(s) /\ Head(s) = s[1]
      /\ DOMAIN r = 1..(Len(s) - 1)
      /\ \A i \in 1..(Len(s) - 1) : r[i] = s[i + 1]
  OBVIOUS
<1> HIDE DEF r
<1>2. 1 \in DOMAIN s BY <1>1
<1>3. ASSUME NEW i \in DOMAIN r PROVE r[i] = e
  <2>1. i \in 1..(Len(s) - 1) /\ i + 1 \in DOMAIN s BY <1>1
  <2> QED BY <1>1, <2>1
<1> QED BY <1>1, <1>2, <1>3 DEF r

(* refresh_player begins a fetch, and with it the item's time, when no     *)
(* other object's is under way; the callback shows what there is now.      *)
LEMMA MainLoopShown ==
  ASSUME IInv, Shown, Refresh \/ RefreshWithout \/ Push \/ Emit, ~overlapped', item' # NoPath
  PROVE  OneItem' /\ Announced'
<1>1. tasks \in Seq(Paths) /\ idle \in Seq(Paths) /\ pushing \in Paths \cup {NoPath}
  BY DEF IInv, TypeOK
<1>2. CASE Refresh
  <2>1. PICK p \in Paths : /\ item' = p /\ pushing' = p /\ SetState(p, "FETCHING")
                            /\ OnlyUnderWay(p)
    BY <1>2 DEF Refresh
  <2>2. tasks' = tasks /\ running' = running BY <1>2 DEF Refresh, poolVars
  <2>3. m_state'[p] = "FETCHING" BY <2>1, SetStateFacts DEF IInv
  <2>4. \A i \in DOMAIN idle' : idle'[i] = p
    BY <1>1, <2>1, AppendAll DEF SetState, OnlyUnderWay
  <2>5. OneItem' BY <2>1, <2>2, <2>4 DEF OneItem, OnlyUnderWay
  <2>6. Announced' BY <2>1, <2>3 DEF Announced
  <2> QED BY <2>5, <2>6
<1>3. CASE RefreshWithout BY <1>3 DEF RefreshWithout
<1>4. CASE Push
  <2>1. OneItem /\ Announced /\ item' = item
    BY <1>4 DEF Push, Shown, windowVars
  <2>2. pushing = item /\ pushing \in Paths BY <1>1, <1>4, <2>1 DEF Push, OneItem, OnlyUnderWay
  <2>3. \A i \in DOMAIN tasks' : tasks'[i] = item
    BY <1>1, <1>4, <2>1, <2>2, AppendAll DEF Push, OneItem, OnlyUnderWay
  <2>4. OneItem' BY <1>4, <2>1, <2>3 DEF Push, OneItem, OnlyUnderWay, windowVars
  <2>5. Announced' BY <1>4, <2>1 DEF Push, Announced, windowVars, objectVars
  <2> QED BY <2>4, <2>5
<1>5. CASE Emit
  <2>1. OneItem /\ Announced /\ item' = item /\ idle # <<>> /\ idle' = Tail(idle)
    BY <1>5 DEF Emit, Shown
  <2>2. Head(idle) = item /\ \A i \in DOMAIN idle' : idle'[i] = item
    BY <1>1, <2>1, TailAll DEF OneItem, OnlyUnderWay
  <2>3. OneItem' BY <1>5, <2>1, <2>2 DEF Emit, OneItem, OnlyUnderWay, poolVars
  <2>4. Announced' BY <1>5, <2>1, <2>2 DEF Emit, Announced, objectVars
  <2> QED BY <2>3, <2>4
<1> QED BY <1>2, <1>3, <1>4, <1>5

(* A thread fetches the item, and queues what it comes to.                 *)
LEMMA FetchShown ==
  ASSUME IInv, Shown, NEW t \in Threads, Fetch(t), ~overlapped', item' # NoPath
  PROVE  OneItem' /\ Announced'
<1>1. tasks \in Seq(Paths) /\ idle \in Seq(Paths) BY DEF IInv, TypeOK
<1>2. OneItem /\ Announced /\ item' = item /\ image' = image /\ pushing' = pushing
  BY DEF Fetch, Take, Store, SetCached, SetError, Shown, windowVars
<1>3. running \in [Threads -> Paths \cup {NoPath}] /\ m_state \in [Paths -> {"absent", "FETCHING", "CACHED", "ERROR"}]
  BY DEF IInv, TypeOK
<1>4. CASE Take(t)
  <2>1. /\ tasks # <<>> /\ tasks' = Tail(tasks) /\ idle' = idle /\ m_state' = m_state
        /\ running' = running \/ running' = [running EXCEPT ![t] = Head(tasks)]
    BY <1>4 DEF Take, objectVars
  <2>2. Head(tasks) = item /\ \A i \in DOMAIN tasks' : tasks'[i] = item
    BY <1>1, <1>2, <2>1, TailAll DEF OneItem, OnlyUnderWay
  <2>3. \A u \in Threads : running'[u] \in {item, NoPath}
    BY <1>2, <1>3, <2>1, <2>2 DEF OneItem, OnlyUnderWay
  <2>4. OneItem' BY <1>2, <2>1, <2>2, <2>3 DEF OneItem, OnlyUnderWay
  <2> QED BY <1>2, <2>1, <2>4 DEF Announced
<1>5. CASE Store(t)
  <2>1. UNCHANGED <<m_state, tasks, running, idle>> BY <1>5 DEF Store
  <2> QED BY <1>2, <2>1 DEF OneItem, OnlyUnderWay, Announced
<1>6. CASE SetCached(t) \/ SetError(t)
  <2>1. running[t] \in Paths
    BY <1>3, <1>6, XvfsAssumption DEF SetCached, SetError, Waiting, IInv, TypeOK, StoredPresent
  <2>2. running[t] = item BY <1>2, <2>1, XvfsAssumption DEF OneItem, OnlyUnderWay
  <2>3. /\ idle' = Append(idle, item) /\ tasks' = tasks
        /\ running' = [running EXCEPT ![t] = NoPath]
    BY <1>6, <2>2 DEF SetCached, SetError, SetState, Finish
  <2>4. idle' # <<>> /\ \A i \in DOMAIN idle' : idle'[i] = item
    BY <1>1, <1>2, <2>1, <2>2, <2>3, AppendAll DEF OneItem, OnlyUnderWay
  <2>5. \A u \in Threads : running'[u] \in {item, NoPath}
    BY <1>2, <1>3, <2>3 DEF OneItem, OnlyUnderWay
  <2>6. OneItem' BY <1>2, <2>3, <2>4, <2>5 DEF OneItem, OnlyUnderWay
  <2> QED BY <1>2, <2>4, <2>6 DEF Announced
<1> QED BY <1>4, <1>5, <1>6 DEF Fetch

(* When refresh_player asked for the item's thumbnail and no fetch of      *)
(* another object was under way, nor its announcement: with nothing under  *)
(* way any more, the picture in the window is the item's, if it is cached. *)
(* When the fetches of two objects overlapped it may be the other's.       *)
THEOREM PictureIsItems == Spec => []PictureOfItem
<1>1. Init => Shown BY DEF Init, Shown
<1>2. IInv /\ Shown /\ [Next]_vars => Shown'
  <2> SUFFICES ASSUME IInv, Shown, [Next]_vars, ~overlapped', item' # NoPath
               PROVE  OneItem' /\ Announced'
    BY DEF Shown
  <2>1. CASE Refresh \/ RefreshWithout \/ Push \/ Emit BY <2>1, MainLoopShown
  <2>2. CASE \E t \in Threads : Fetch(t) BY <2>2, FetchShown
  <2>3. CASE UNCHANGED vars
    BY <2>3 DEF vars, objectVars, poolVars, windowVars, Shown, OneItem, OnlyUnderWay, Announced
  <2> QED BY <2>1, <2>2, <2>3 DEF Next
<1>3. Shown => PictureOfItem BY DEF Shown, Announced, PictureOfItem, Quiet
<1> QED BY <1>1, <1>2, <1>3, Inductive, PTL DEF Spec
=============================================================================
