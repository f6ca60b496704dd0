---------------------------- MODULE Browser_proofs ----------------------------
(***************************************************************************)
(* Browser for any tree of directories and any number of connections and   *)
(* clicks.  The breadcrumbs show the listing when nothing is under way     *)
(* because, while something is, they end with the listing's path followed  *)
(* by the paths of the pending requests, in order.                         *)
(***************************************************************************)
EXTENDS Browser, TLAPS

(* handle_connect has added the root and not yet asked for the sources.    *)
Half == IF connection = "connecting" THEN 1 ELSE 0

(* How many breadcrumbs are older than what is under way.                  *)
Old == Len(m_breadcrumbs) - Len(requests) - Half

(* A ".." takes its listing's breadcrumb away at once.                     *)
GoingUp == requests # <<>> /\ requests[1].up

PendingLast ==
  /\ Old >= 0
  /\ \A i \in 1..Len(requests) : m_breadcrumbs[Old + i] = requests[i].path
  /\ Half = 1 => m_breadcrumbs[Len(m_breadcrumbs)] = Root

UpFirst == \A i \in 2..Len(requests) : ~requests[i].up

ListingOld == ~GoingUp => listing = IF Old = 0 THEN Nowhere ELSE m_breadcrumbs[Old]

ParentOld ==
  /\ Len(requests) + Half = 0 => parent = ParentPath(m_breadcrumbs)
  /\ ~hasty => Len(requests) + Half <= 1
  /\ ~hasty /\ Len(requests) + Half = 1 /\ ~GoingUp => parent = ParentPath(Popped(m_breadcrumbs))

BarFollows == bar = IF connection = "connecting" THEN Popped(m_breadcrumbs) ELSE m_breadcrumbs

Followed == PendingLast /\ UpFirst /\ ListingOld /\ ParentOld /\ BarFollows

IInv == TypeOK /\ (~astray => Followed)

-----------------------------------------------------------------------------
(* Append, for the breadcrumbs and the requests.                           *)
LEMMA AppendFacts ==
  ASSUME NEW S, NEW s \in Seq(S), NEW e \in S
  PROVE  /\ Append(s, e) \in Seq(S) /\ Append(s, e) # <<>>
         /\ Len(Append(s, e)) = Len(s) + 1 /\ Len(s) \in Nat
         /\ Append(s, e)[Len(s) + 1] = e
         /\ \A i \in 1..Len(s) : Append(s, e)[i] = s[i]
OBVIOUS

(* Head and tail of the requests.                                          *)
LEMMA TailFacts ==
  ASSUME NEW S, NEW s \in Seq(S), s # <<>>
  PROVE  /\ Head(s) = s[1] /\ s[1] \in S
         /\ Tail(s) \in Seq(S) /\ Len(Tail(s)) = Len(s) - 1
         /\ Len(s) \in Nat /\ Len(s) >= 1
         /\ \A i \in 1..(Len(s) - 1) : Tail(s)[i] = s[i + 1]
OBVIOUS

(* pop_breadcrumbs(1) takes the last breadcrumb and leaves the others.     *)
LEMMA PoppedFacts ==
  ASSUME NEW s \in Seq(Paths)
  PROVE  /\ Popped(s) \in Seq(Paths)
         /\ s = <<>> => Popped(s) = <<>>
         /\ s # <<>> => Len(Popped(s)) = Len(s) - 1
         /\ \A i \in 1..(Len(s) - 1) : Popped(s)[i] = s[i]
<1>1. CASE s = <<>>
  <2>1. Popped(s) = <<>> /\ Len(s) = 0 BY <1>1 DEF Popped
  <2> QED BY <2>1, <1>1
<1>2. CASE s # <<>>
  <2>1. Popped(s) = SubSeq(s, 1, Len(s) - 1) BY <1>2 DEF Popped
  <2>2. Len(s) \in Nat /\ Len(s) >= 1 BY <1>2
  <2>3. /\ SubSeq(s, 1, Len(s) - 1) \in Seq(Paths)
        /\ Len(SubSeq(s, 1, Len(s) - 1)) = Len(s) - 1
        /\ \A i \in 1..(Len(s) - 1) : SubSeq(s, 1, Len(s) - 1)[i] = s[i]
    BY <2>2
  <2> QED BY <1>2, <2>1, <2>3
<1> QED BY <1>1, <1>2

(* What an added breadcrumb hides is what the ".." row led to.             *)
LEMMA PoppedAppend ==
  ASSUME NEW s \in Seq(Paths), NEW p \in Paths
  PROVE  Popped(Append(s, p)) = s
<1>1. Append(s, p) # <<>> /\ Len(Append(s, p)) - 1 = Len(s) BY AppendFacts
<1>2. SubSeq(Append(s, p), 1, Len(s)) = s OBVIOUS
<1> QED BY <1>1, <1>2 DEF Popped

(* Popping undoes appending.                                               *)
LEMMA AppendPopped ==
  ASSUME NEW s \in Seq(Paths), s # <<>>
  PROVE  Append(Popped(s), s[Len(s)]) = s
<1>1. Len(s) \in Nat /\ Len(s) >= 1 OBVIOUS
<1>2. Popped(s) = SubSeq(s, 1, Len(s) - 1) BY DEF Popped
<1>3. Append(SubSeq(s, 1, Len(s) - 1), s[Len(s)]) = s BY <1>1
<1> QED BY <1>2, <1>3

(* The path of the ".." row is a path, or there is no such row.            *)
LEMMA ParentPathType ==
  ASSUME NEW s \in Seq(Paths)
  PROVE  ParentPath(s) \in Paths \cup {Nowhere}
BY DEF ParentPath

(* The empty sequence is the one of length 0.                              *)
LEMMA EmptySeq == ASSUME NEW S, NEW s \in Seq(S) PROVE s = <<>> <=> Len(s) = 0
OBVIOUS

(* Without a connection there are no breadcrumbs and no rows.              *)
LEMMA InitIInv == Init => IInv
<1> SUFFICES ASSUME Init PROVE IInv
  OBVIOUS
<1>1. TypeOK
  <2>1. m_breadcrumbs \in Seq(Paths) /\ bar \in Seq(Paths) /\ requests \in Seq(Request) BY DEF Init
  <2>2. connects \in 0..MaxConnects /\ clicks \in 0..MaxClicks BY BrowserAssumption DEF Init
  <2>3. astray \in BOOLEAN /\ hasty \in BOOLEAN BY DEF Init
  <2> QED BY <2>1, <2>2, <2>3 DEF Init, TypeOK
<1>2. Len(requests) = 0 /\ Len(m_breadcrumbs) = 0 /\ Half = 0 BY DEF Init, Half
<1>3. Old = 0 BY <1>2 DEF Old
<1>4. PendingLast BY <1>2, <1>3 DEF PendingLast
<1>5. UpFirst BY <1>2 DEF UpFirst
<1>6. ListingOld BY <1>3 DEF ListingOld, Init
<1>7. ParentOld BY <1>2 DEF ParentOld, ParentPath, Init
<1>8. BarFollows BY DEF BarFollows, Init
<1> QED BY <1>1, <1>4, <1>5, <1>6, <1>7, <1>8 DEF IInv, Followed

(* handle_connect's breadcrumb is the one that is half through.            *)
LEMMA ConnectIInv ==
  ASSUME IInv, Connect
  PROVE  IInv'
<1> USE DEF Connect, AddCrumb, rowVars
<1>1. /\ m_breadcrumbs' \in Seq(Paths) /\ Len(m_breadcrumbs') = Len(m_breadcrumbs) + 1
      /\ Len(m_breadcrumbs) \in Nat /\ Len(requests) \in Nat
      /\ m_breadcrumbs'[Len(m_breadcrumbs) + 1] = Root
      /\ \A i \in 1..Len(m_breadcrumbs) : m_breadcrumbs'[i] = m_breadcrumbs[i]
      /\ Popped(m_breadcrumbs') = m_breadcrumbs
  <2>1. m_breadcrumbs \in Seq(Paths) /\ Root \in Paths /\ requests \in Seq(Request)
    BY DEF IInv, TypeOK, Paths
  <2> QED BY <2>1, AppendFacts, PoppedAppend
<1>2. TypeOK'
  <2>1. connects' \in 0..MaxConnects BY BrowserAssumption DEF IInv, TypeOK
  <2>2. hasty' \in BOOLEAN BY DEF IInv, TypeOK
  <2> QED BY <1>1, <2>1, <2>2 DEF IInv, TypeOK
<1>3. ASSUME ~astray' PROVE Followed'
  <2>1. Followed BY <1>3 DEF IInv
  <2>2. Half = 0 /\ Half' = 1 BY DEF Half
  <2>3. Old' = Old /\ Old \in Int /\ Old + Len(requests) = Len(m_breadcrumbs)
    BY <1>1, <2>2 DEF Old
  <2>4. Old >= 0 BY <2>1 DEF Followed, PendingLast
  <2>5. PendingLast'
    <3>1. ASSUME NEW i \in 1..Len(requests') PROVE m_breadcrumbs'[Old' + i] = requests'[i].path
      <4>1. Old + i \in 1..Len(m_breadcrumbs) BY <1>1, <2>3, <2>4
      <4> QED BY <4>1, <1>1, <2>1, <2>3 DEF Followed, PendingLast
    <3> QED BY <3>1, <1>1, <2>2, <2>3, <2>4 DEF PendingLast
  <2>6. UpFirst' BY <2>1 DEF Followed, UpFirst
  <2>7. GoingUp' = GoingUp BY DEF GoingUp
  <2>8. ListingOld'
    <3>1. Old # 0 => Old \in 1..Len(m_breadcrumbs) BY <1>1, <2>3, <2>4
    <3> QED BY <3>1, <1>1, <2>1, <2>3, <2>7 DEF Followed, ListingOld
  <2>9. ParentOld'
    <3>1. ~hasty' => requests = <<>> BY DEF IInv, TypeOK
    <3>2. ~hasty' => Len(requests) = 0 BY <3>1
    <3>3. ~hasty' => parent = ParentPath(m_breadcrumbs)
      BY <3>2, <2>1, <2>2 DEF Followed, ParentOld
    <3> QED BY <3>2, <3>3, <1>1, <2>2 DEF ParentOld
  <2>10. BarFollows' BY <1>1, <2>1 DEF Followed, BarFollows
  <2> QED BY <2>5, <2>6, <2>8, <2>9, <2>10 DEF Followed
<1> QED BY <1>2, <1>3 DEF IInv

(* Its button and its request make it a pending one.                       *)
LEMMA RequestSourcesIInv ==
  ASSUME IInv, RequestSources
  PROVE  IInv'
<1> USE DEF RequestSources, OnBreadcrumbAdded, rowVars, crumbVars
<1>1. requests' = Append(requests, [path |-> Root, up |-> FALSE]) BY DEF Write
<1>2. /\ requests' \in Seq(Request) /\ Len(requests') = Len(requests) + 1
      /\ Len(requests) \in Nat /\ requests' # <<>>
      /\ requests'[Len(requests) + 1] = [path |-> Root, up |-> FALSE]
      /\ \A i \in 1..Len(requests) : requests'[i] = requests[i]
  <2>1. requests \in Seq(Request) BY DEF IInv, TypeOK
  <2>2. [path |-> Root, up |-> FALSE] \in Request BY DEF Request, Paths
  <2> QED BY <1>1, <2>1, <2>2, AppendFacts
<1>3. TypeOK'
  <2>1. bar \in Seq(Paths) /\ Root \in Paths BY DEF IInv, TypeOK, Paths
  <2>2. bar' \in Seq(Paths) BY <2>1, AppendFacts
  <2> QED BY <1>2, <2>2 DEF IInv, TypeOK
<1>4. ASSUME ~astray' PROVE Followed'
  <2>1. Followed BY <1>4 DEF IInv
  <2>2. Half = 1 /\ Half' = 0 BY DEF Half
  <2>3. Len(m_breadcrumbs) \in Nat BY DEF IInv, TypeOK
  <2>4. Old' = Old /\ Old \in Int /\ Old + Len(requests) + 1 = Len(m_breadcrumbs)
    BY <1>2, <2>2, <2>3 DEF Old
  <2>5. PendingLast'
    <3>1. ASSUME NEW i \in 1..Len(requests') PROVE m_breadcrumbs'[Old' + i] = requests'[i].path
      <4>1. CASE i = Len(requests) + 1
        <5>1. Old' + i = Len(m_breadcrumbs) BY <4>1, <1>2, <2>4
        <5>2. m_breadcrumbs[Len(m_breadcrumbs)] = Root BY <2>1, <2>2 DEF Followed, PendingLast
        <5>3. requests'[i].path = Root BY <4>1, <1>2
        <5> QED BY <5>1, <5>2, <5>3
      <4>2. CASE i # Len(requests) + 1
        <5>1. i \in 1..Len(requests) BY <4>2, <1>2
        <5> QED BY <5>1, <1>2, <2>1, <2>4 DEF Followed, PendingLast
      <4> QED BY <4>1, <4>2
    <3> QED BY <3>1, <2>1, <2>2, <2>4 DEF Followed, PendingLast
  <2>6. UpFirst'
    <3> SUFFICES ASSUME NEW i \in 2..Len(requests') PROVE ~requests'[i].up
      BY DEF UpFirst
    <3>1. CASE i = Len(requests) + 1 BY <3>1, <1>2
    <3>2. CASE i # Len(requests) + 1
      <4>1. i \in 2..Len(requests) /\ i \in 1..Len(requests) BY <3>2, <1>2
      <4> QED BY <4>1, <1>2, <2>1 DEF Followed, UpFirst
    <3> QED BY <3>1, <3>2
  <2>7. GoingUp' = GoingUp
    <3>1. CASE requests = <<>>
      <4>1. Len(requests) = 0 BY <3>1
      <4> QED BY <3>1, <4>1, <1>2 DEF GoingUp
    <3>2. CASE requests # <<>>
      <4>1. 1 \in 1..Len(requests) BY <3>2 DEF IInv, TypeOK
      <4> QED BY <3>2, <4>1, <1>2 DEF GoingUp
    <3> QED BY <3>1, <3>2
  <2>8. ListingOld' BY <2>1, <2>4, <2>7 DEF Followed, ListingOld
  <2>9. ParentOld'
    <3>1. Len(requests') + Half' = Len(requests) + Half BY <1>2, <2>2
    <3> QED BY <3>1, <2>1, <2>7 DEF Followed, ParentOld
  <2>10. BarFollows'
    <3>1. m_breadcrumbs \in Seq(Paths) /\ m_breadcrumbs # <<>>
      BY <1>2, <2>3, <2>4, <2>1 DEF IInv, TypeOK, Followed, PendingLast
    <3>2. bar = Popped(m_breadcrumbs) BY <2>1 DEF Followed, BarFollows
    <3>3. m_breadcrumbs[Len(m_breadcrumbs)] = Root BY <2>1, <2>2 DEF Followed, PendingLast
    <3>4. bar' = m_breadcrumbs BY <3>1, <3>2, <3>3, AppendPopped
    <3> QED BY <3>4 DEF BarFollows
  <2> QED BY <2>5, <2>6, <2>8, <2>9, <2>10 DEF Followed
<1> QED BY <1>3, <1>4 DEF IInv

(* Unless a request is lost nothing changes: the rest leads astray.        *)
LEMMA DisconnectIInv ==
  ASSUME IInv, Disconnect
  PROVE  IInv'
<1> USE DEF Disconnect, rowVars, crumbVars
<1> PICK n \in 0..Len(requests) :
      /\ requests' = SubSeq(requests, 1, n)
      /\ astray' = (astray \/ n < Len(requests) \/ connection = "connecting")
  OBVIOUS
<1>1. requests \in Seq(Request) BY DEF IInv, TypeOK
<1>2. requests' \in Seq(Request) BY <1>1
<1>3. TypeOK'
  <2>1. bar \in Seq(Paths) /\ Root \in Paths BY DEF IInv, TypeOK, Paths
  <2>2. bar' \in Seq(Paths) BY <2>1, AppendFacts
  <2>3. astray' \in BOOLEAN BY DEF IInv, TypeOK
  <2> QED BY <1>2, <2>2, <2>3 DEF IInv, TypeOK
<1>4. ASSUME ~astray' PROVE Followed'
  <2>0. ~astray /\ ~(n < Len(requests)) /\ connection # "connecting" BY <1>4
  <2>1. Followed /\ connection # "connecting" /\ n = Len(requests)
    <3>1. Len(requests) \in Nat /\ n \in 0..Len(requests) BY <1>1
    <3>2. n = Len(requests) BY <2>0, <3>1
    <3> QED BY <2>0, <3>2 DEF IInv
  <2>2. requests' = requests BY <1>1, <2>1
  <2>3. Half = 0 /\ Half' = 0 BY <2>1 DEF Half
  <2> QED BY <2>1, <2>2, <2>3
      DEF Followed, PendingLast, UpFirst, ListingOld, ParentOld, GoingUp, Old, BarFollows
<1> QED BY <1>3, <1>4 DEF IInv

(* A click's breadcrumb and its request come last.                         *)
LEMMA ClickDownIInv ==
  ASSUME IInv, ClickDown
  PROVE  IInv'
<1> USE DEF ClickDown, Activate, AddBreadcrumb, AddCrumb, OnBreadcrumbAdded, rowVars
<1> PICK d \in Children[listing] :
      AddBreadcrumb(d) /\ Write(d, FALSE)
  OBVIOUS
<1>1. d \in Dirs /\ d \in Paths BY BrowserAssumption DEF IInv, TypeOK, Paths
<1>2. /\ m_breadcrumbs \in Seq(Paths) /\ requests \in Seq(Request)
      /\ [path |-> d, up |-> FALSE] \in Request
  BY <1>1 DEF IInv, TypeOK, Request
<1>3. /\ m_breadcrumbs' \in Seq(Paths) /\ Len(m_breadcrumbs') = Len(m_breadcrumbs) + 1
      /\ Len(m_breadcrumbs) \in Nat
      /\ m_breadcrumbs'[Len(m_breadcrumbs) + 1] = d
      /\ \A i \in 1..Len(m_breadcrumbs) : m_breadcrumbs'[i] = m_breadcrumbs[i]
      /\ Popped(m_breadcrumbs') = m_breadcrumbs
  BY <1>1, <1>2, AppendFacts, PoppedAppend
<1>4. /\ Append(requests, [path |-> d, up |-> FALSE]) \in Seq(Request)
      /\ Len(Append(requests, [path |-> d, up |-> FALSE])) = Len(requests) + 1
      /\ Len(requests) \in Nat
      /\ Append(requests, [path |-> d, up |-> FALSE])[Len(requests) + 1]
           = [path |-> d, up |-> FALSE]
      /\ \A i \in 1..Len(requests) :
           Append(requests, [path |-> d, up |-> FALSE])[i] = requests[i]
  BY <1>2, AppendFacts
<1>5. TypeOK'
  <2>1. clicks' \in 0..MaxClicks BY BrowserAssumption DEF IInv, TypeOK
  <2>2. hasty' \in BOOLEAN /\ astray' \in BOOLEAN BY DEF IInv, TypeOK
  <2>3. requests' \in Seq(Request) BY <1>2, <1>4 DEF Write
  <2>4. bar' \in Seq(Paths) BY <1>1, AppendFacts DEF IInv, TypeOK
  <2> QED BY <1>3, <2>1, <2>2, <2>3, <2>4 DEF IInv, TypeOK
<1>6. ASSUME ~astray' PROVE Followed'
  <2>1. ~astray /\ connection = "up" BY <1>6
  <2>2. Followed /\ Half = 0 /\ Half' = 0 BY <2>1 DEF IInv, Half
  <2>3. requests' = Append(requests, [path |-> d, up |-> FALSE]) BY <2>1 DEF Write
  <2>4. Old' = Old /\ Old \in Int /\ Old + Len(requests) = Len(m_breadcrumbs) /\ Old >= 0
    <3>1. Old >= 0 BY <2>2 DEF Followed, PendingLast
    <3> QED BY <3>1, <1>3, <1>4, <2>2, <2>3 DEF Old
  <2>5. PendingLast'
    <3>1. ASSUME NEW i \in 1..Len(requests') PROVE m_breadcrumbs'[Old' + i] = requests'[i].path
      <4>1. CASE i = Len(requests) + 1
        <5>1. Old' + i = Len(m_breadcrumbs) + 1 BY <4>1, <1>4, <2>4
        <5>2. requests'[i].path = d BY <4>1, <1>4, <2>3
        <5> QED BY <5>1, <5>2, <1>3
      <4>2. CASE i # Len(requests) + 1
        <5>1. i \in 1..Len(requests) /\ Old + i \in 1..Len(m_breadcrumbs)
          BY <4>2, <1>3, <1>4, <2>3, <2>4
        <5>2. m_breadcrumbs[Old + i] = requests[i].path
          BY <5>1, <2>2 DEF Followed, PendingLast
        <5> QED BY <5>1, <5>2, <1>3, <1>4, <2>3, <2>4
      <4> QED BY <4>1, <4>2
    <3>2. Old' >= 0 BY <2>4
    <3>3. Half' # 1 BY <2>2
    <3> QED BY <3>1, <3>2, <3>3 DEF PendingLast
  <2>6. UpFirst'
    <3> SUFFICES ASSUME NEW i \in 2..Len(requests') PROVE ~requests'[i].up
      BY DEF UpFirst
    <3>1. CASE i = Len(requests) + 1 BY <3>1, <1>4, <2>3
    <3>2. CASE i # Len(requests) + 1
      <4>1. i \in 2..Len(requests) /\ i \in 1..Len(requests) BY <3>2, <1>4, <2>3
      <4> QED BY <4>1, <1>4, <2>2, <2>3 DEF Followed, UpFirst
    <3> QED BY <3>1, <3>2
  <2>7. GoingUp' = GoingUp
    <3>1. requests' # <<>> BY <1>4, <2>3
    <3>2. CASE requests = <<>>
      <4>1. Len(requests) = 0 BY <3>2
      <4> QED BY <3>1, <3>2, <4>1, <1>4, <2>3 DEF GoingUp
    <3>3. CASE requests # <<>>
      <4>1. 1 \in 1..Len(requests) BY <1>2, <3>3
      <4> QED BY <3>1, <3>3, <4>1, <1>4, <2>3 DEF GoingUp
    <3> QED BY <3>2, <3>3
  <2>8. ListingOld'
    <3>1. Old # 0 => Old \in 1..Len(m_breadcrumbs) BY <1>3, <1>4, <2>4
    <3> QED BY <3>1, <1>3, <2>2, <2>4, <2>7 DEF Followed, ListingOld
  <2>9. ParentOld'
    <3>1. Len(requests') + Half' = Len(requests) + 1 BY <1>4, <2>2, <2>3
    <3>2. ~hasty' => requests = <<>> OBVIOUS
    <3>3. ~hasty' => Len(requests) = 0 BY <3>2
    <3>4. ~hasty' => parent = ParentPath(m_breadcrumbs)
      BY <3>3, <2>2 DEF Followed, ParentOld
    <3> QED BY <3>1, <3>3, <3>4, <1>3, <1>4 DEF ParentOld
  <2>10. BarFollows' BY <2>1, <2>2 DEF Followed, BarFollows
  <2> QED BY <2>5, <2>6, <2>8, <2>9, <2>10 DEF Followed
<1> QED BY <1>5, <1>6 DEF IInv

(* With nothing pending, ".." goes to the last breadcrumb but one.         *)
LEMMA ClickUpIInv ==
  ASSUME IInv, ClickUp
  PROVE  IInv'
<1> USE DEF ClickUp, Activate, PopBreadcrumb, rowVars
<1>1. /\ m_breadcrumbs \in Seq(Paths) /\ requests \in Seq(Request)
      /\ parent \in Paths /\ [path |-> parent, up |-> TRUE] \in Request
  BY DEF IInv, TypeOK, Request
<1>2. m_breadcrumbs' \in Seq(Paths) BY <1>1, PoppedFacts
<1>3. TypeOK'
  <2>1. clicks' \in 0..MaxClicks BY BrowserAssumption DEF IInv, TypeOK
  <2>2. hasty' \in BOOLEAN /\ astray' \in BOOLEAN BY DEF IInv, TypeOK
  <2>3. requests' \in Seq(Request) BY <1>1, AppendFacts DEF Write
  <2>4. bar' \in Seq(Paths) BY PoppedFacts DEF IInv, TypeOK
  <2> QED BY <1>2, <2>1, <2>2, <2>3, <2>4 DEF IInv, TypeOK
<1>4. ASSUME ~astray' PROVE Followed'
  <2>1. ~astray /\ connection = "up" /\ requests = <<>> BY <1>4
  <2>2. Followed /\ Half = 0 /\ Half' = 0 /\ Len(requests) = 0 BY <2>1 DEF IInv, Half
  <2>3. parent = ParentPath(m_breadcrumbs) BY <2>2 DEF Followed, ParentOld
  <2>4. Len(m_breadcrumbs) \in Nat /\ Len(m_breadcrumbs) >= 2 /\ m_breadcrumbs # <<>>
    BY <1>1, <2>3 DEF ParentPath
  <2>5. parent = m_breadcrumbs[Len(m_breadcrumbs) - 1] BY <2>3, <2>4 DEF ParentPath
  <2>6. /\ Len(m_breadcrumbs') = Len(m_breadcrumbs) - 1
        /\ m_breadcrumbs'[Len(m_breadcrumbs) - 1] = parent
    <3>1. Len(m_breadcrumbs) - 1 \in 1..(Len(m_breadcrumbs) - 1) BY <2>4
    <3> QED BY <3>1, <1>1, <2>4, <2>5, PoppedFacts
  <2>7. requests' = <<[path |-> parent, up |-> TRUE]>> BY <2>1 DEF Write
  <2>8. Len(requests') = 1 /\ requests' # <<>> /\ requests'[1] = [path |-> parent, up |-> TRUE]
    BY <2>7
  <2>9. Old' = Len(m_breadcrumbs) - 2 BY <2>2, <2>4, <2>6, <2>8 DEF Old
  <2>10. PendingLast'
    <3>1. Old' + 1 = Len(m_breadcrumbs) - 1 BY <2>4, <2>9
    <3>2. m_breadcrumbs'[Old' + 1] = requests'[1].path BY <3>1, <2>6, <2>8
    <3>3. Old' >= 0 BY <2>4, <2>9
    <3> QED BY <3>2, <3>3, <2>2, <2>8 DEF PendingLast
  <2>11. UpFirst' BY <2>8 DEF UpFirst
  <2>12. GoingUp' BY <2>8 DEF GoingUp
  <2>13. ListingOld' BY <2>12 DEF ListingOld
  <2>14. ParentOld' BY <2>2, <2>8, <2>12 DEF ParentOld
  <2>15. BarFollows' BY <2>1, <2>2, <2>4 DEF Followed, BarFollows
  <2> QED BY <2>10, <2>11, <2>13, <2>14, <2>15 DEF Followed
<1> QED BY <1>3, <1>4 DEF IInv

(* The oldest pending request's breadcrumb becomes the listing's.          *)
LEMMA AnsweredIInv ==
  ASSUME IInv, Answered
  PROVE  IInv'
<1> USE DEF Answered, crumbVars
<1>1. /\ Head(requests) = requests[1] /\ requests[1] \in Request
      /\ requests' \in Seq(Request) /\ Len(requests') = Len(requests) - 1
      /\ Len(requests) \in Nat /\ Len(requests) >= 1
      /\ \A i \in 1..(Len(requests) - 1) : requests'[i] = requests[i + 1]
  BY TailFacts DEF IInv, TypeOK
<1>2. m_breadcrumbs \in Seq(Paths) /\ Len(m_breadcrumbs) \in Nat BY DEF IInv, TypeOK
<1>3. TypeOK'
  <2>1. listing' \in Paths BY <1>1 DEF Request
  <2>2. parent' \in Paths \cup {Nowhere} BY <1>2, ParentPathType
  <2> QED BY <1>1, <2>1, <2>2 DEF IInv, TypeOK
<1>4. ASSUME ~astray' PROVE Followed'
  <2>1. Followed BY <1>4 DEF IInv
  <2>2. Half' = Half /\ Half \in {0, 1} BY DEF Half
  <2>3. Old' = Old + 1 /\ Old \in Int /\ Old >= 0
    <3>1. Old >= 0 BY <2>1 DEF Followed, PendingLast
    <3> QED BY <3>1, <1>1, <1>2, <2>2 DEF Old
  <2>4. PendingLast'
    <3>1. ASSUME NEW i \in 1..Len(requests') PROVE m_breadcrumbs'[Old' + i] = requests'[i].path
      <4>1. i \in 1..(Len(requests) - 1) /\ i + 1 \in 1..Len(requests) BY <1>1
      <4>2. m_breadcrumbs[Old + (i + 1)] = requests[i + 1].path
        BY <4>1, <2>1 DEF Followed, PendingLast
      <4>3. Old' + i = Old + (i + 1) BY <4>1, <2>3
      <4> QED BY <4>1, <4>2, <4>3, <1>1
    <3>2. Old' >= 0 BY <2>3
    <3>3. Half' = 1 => m_breadcrumbs'[Len(m_breadcrumbs')] = Root
      BY <2>1, <2>2 DEF Followed, PendingLast
    <3> QED BY <3>1, <3>2, <3>3 DEF PendingLast
  <2>5. \A i \in 1..Len(requests') : ~requests'[i].up
    <3> SUFFICES ASSUME NEW i \in 1..Len(requests') PROVE ~requests'[i].up
      OBVIOUS
    <3>1. i \in 1..(Len(requests) - 1) /\ i + 1 \in 2..Len(requests) BY <1>1
    <3> QED BY <3>1, <1>1, <2>1 DEF Followed, UpFirst
  <2>6. UpFirst'
    <3>1. 2..Len(requests') \subseteq 1..Len(requests') BY <1>1
    <3> QED BY <3>1, <2>5 DEF UpFirst
  <2>7. ListingOld'
    <3>1. 1 \in 1..Len(requests) BY <1>1
    <3>2. m_breadcrumbs[Old + 1] = requests[1].path BY <3>1, <2>1 DEF Followed, PendingLast
    <3>3. Old' # 0 BY <2>3
    <3> QED BY <3>2, <3>3, <1>1, <2>3 DEF ListingOld
  <2>8. ParentOld'
    <3>1. ~hasty => Len(requests) + Half <= 1 BY <2>1 DEF Followed, ParentOld
    <3>2. ~hasty' => Len(requests') + Half' = 0 BY <3>1, <1>1, <2>2
    <3> QED BY <3>2, <1>1 DEF ParentOld
  <2>9. BarFollows' BY <2>1 DEF Followed, BarFollows
  <2> QED BY <2>4, <2>6, <2>7, <2>8, <2>9 DEF Followed
<1> QED BY <1>3, <1>4 DEF IInv

(* A refusal takes back the breadcrumb of the click it refuses.            *)
LEMMA RefusedIInv ==
  ASSUME IInv, Refused
  PROVE  IInv'
<1> USE DEF Refused, PopBreadcrumb, rowVars
<1>1. /\ Head(requests) = requests[1] /\ requests' \in Seq(Request)
      /\ Len(requests') = Len(requests) - 1
      /\ Len(requests) \in Nat /\ Len(requests) >= 1
  BY TailFacts DEF IInv, TypeOK
<1>2. m_breadcrumbs \in Seq(Paths) /\ Len(m_breadcrumbs) \in Nat BY DEF IInv, TypeOK
<1>3. m_breadcrumbs' \in Seq(Paths) BY <1>2, PoppedFacts
<1>4. TypeOK'
  <2>1. astray' \in BOOLEAN BY DEF IInv, TypeOK
  <2>2. bar' \in Seq(Paths) BY PoppedFacts DEF IInv, TypeOK
  <2> QED BY <1>1, <1>3, <2>1, <2>2 DEF IInv, TypeOK
<1>5. ASSUME ~astray' PROVE Followed'
  <2>1. ~astray /\ ~hasty /\ ~requests[1].up BY <1>1, <1>5
  <2>2. Followed /\ ~GoingUp BY <2>1 DEF IInv, GoingUp
  <2>3. Half' = Half /\ Half \in {0, 1} BY DEF Half
  <2>4. Len(requests) + Half <= 1 BY <2>1, <2>2 DEF Followed, ParentOld
  <2>5. Half = 0 /\ Len(requests) = 1 /\ Len(requests') = 0 BY <1>1, <2>3, <2>4
  <2>6. Old >= 0 /\ Old = Len(m_breadcrumbs) - 1 BY <1>2, <2>2, <2>5 DEF Followed, PendingLast, Old
  <2>7. m_breadcrumbs # <<>> /\ Len(m_breadcrumbs) >= 1 BY <1>2, <2>6
  <2>8. /\ Len(m_breadcrumbs') = Len(m_breadcrumbs) - 1
        /\ \A i \in 1..(Len(m_breadcrumbs) - 1) : m_breadcrumbs'[i] = m_breadcrumbs[i]
    BY <1>2, <2>7, PoppedFacts
  <2>9. Old' = Old BY <1>2, <2>3, <2>5, <2>6, <2>8 DEF Old
  <2> HIDE DEF Refused
  <2>10. PendingLast'
    <3>1. 1..Len(requests') = {} BY <2>5
    <3>2. Old' >= 0 /\ Half' # 1 BY <2>3, <2>5, <2>6, <2>9
    <3> QED BY <3>1, <3>2 DEF PendingLast
  <2>11. UpFirst'
    <3>1. 2..Len(requests') = {} BY <2>5
    <3> QED BY <3>1 DEF UpFirst
  <2>12. ListingOld'
    <3>1. Old # 0 => Old \in 1..(Len(m_breadcrumbs) - 1) BY <1>2, <2>6
    <3> QED BY <3>1, <2>2, <2>8, <2>9 DEF Followed, ListingOld, Refused
  <2>13. ParentOld'
    <3>1. parent' = ParentPath(m_breadcrumbs')
      BY <2>1, <2>2, <2>5 DEF Followed, ParentOld, Refused
    <3>2. Len(requests') + Half' = 0 BY <2>3, <2>5
    <3> QED BY <3>1, <3>2 DEF ParentOld
  <2>14. BarFollows'
    <3>1. connection # "connecting" BY <2>5 DEF Half
    <3>2. bar = m_breadcrumbs BY <3>1, <2>2 DEF Followed, BarFollows
    <3> QED BY <3>1, <3>2, <2>7 DEF BarFollows, Refused
  <2> QED BY <2>10, <2>11, <2>12, <2>13, <2>14 DEF Followed
<1> QED BY <1>4, <1>5 DEF IInv

(* Every step preserves the invariant; a refusal takes back its click.     *)
LEMMA Inductive == Spec => []IInv
<1>1. ASSUME IInv, [Next]_vars PROVE IInv'
  <2>1. CASE Connect BY <1>1, <2>1, ConnectIInv
  <2>2. CASE RequestSources BY <1>1, <2>2, RequestSourcesIInv
  <2>3. CASE Disconnect BY <1>1, <2>3, DisconnectIInv
  <2>4. CASE ClickDown BY <1>1, <2>4, ClickDownIInv
  <2>5. CASE ClickUp BY <1>1, <2>5, ClickUpIInv
  <2>6. CASE Answered BY <1>1, <2>6, AnsweredIInv
  <2>7. CASE Refused BY <1>1, <2>7, RefusedIInv
  <2>8. CASE UNCHANGED vars
    BY <1>1, <2>8 DEF vars, rowVars, crumbVars, IInv, TypeOK, Followed, PendingLast, UpFirst,
       ListingOld, ParentOld, BarFollows, GoingUp, Old, Half
  <2> QED BY <1>1, <2>1, <2>2, <2>3, <2>4, <2>5, <2>6, <2>7, <2>8 DEF Next
<1> QED BY InitIInv, <1>1, PTL DEF Spec

-----------------------------------------------------------------------------
(* Breadcrumbs, rows and requests keep their types.                        *)
THEOREM TypeCorrect == Spec => []TypeOK
<1>1. IInv => TypeOK BY DEF IInv
<1> QED BY Inductive, <1>1, PTL

(* With nothing under way the buttons are the breadcrumbs, the last one is *)
(* the listing shown, and ".." leads to the one before: after hasty        *)
(* clicks, refused descents and reconnections too.                         *)
THEOREM BreadcrumbsFollow == Spec => []BreadcrumbsShown
<1>1. ASSUME IInv, Quiet PROVE BreadcrumbsShown
  <2>1. Followed BY <1>1 DEF IInv, Quiet
  <2>2. Len(requests) = 0 /\ Half = 0 /\ ~GoingUp BY <1>1 DEF Quiet, Half, GoingUp
  <2>3. m_breadcrumbs \in Seq(Paths) BY <1>1 DEF IInv, TypeOK
  <2>4. Old = Len(m_breadcrumbs) BY <2>2, <2>3 DEF Old
  <2>5. m_breadcrumbs = <<>> <=> Old = 0 BY <2>3, <2>4, EmptySeq
  <2>6. listing = IF m_breadcrumbs = <<>> THEN Nowhere ELSE m_breadcrumbs[Len(m_breadcrumbs)]
    BY <2>1, <2>2, <2>4, <2>5 DEF Followed, ListingOld
  <2>7. parent = ParentPath(m_breadcrumbs) BY <2>1, <2>2 DEF Followed, ParentOld
  <2>8. bar = m_breadcrumbs BY <1>1, <2>1 DEF Quiet, Followed, BarFollows
  <2> QED BY <2>6, <2>7, <2>8 DEF BreadcrumbsShown
<1>2. IInv => BreadcrumbsShown BY <1>1 DEF BreadcrumbsShown
<1> QED BY Inductive, <1>2, PTL

-----------------------------------------------------------------------------
(* A ".." row has a breadcrumb to go back to, and one to leave.            *)
UpRow == ~astray /\ parent # Nowhere => Len(m_breadcrumbs) >= IF GoingUp THEN 1 ELSE 2

(* Every step keeps it: a pop is covered by the ".." it answers or undoes. *)
LEMMA UpRowStep == IInv /\ UpRow /\ [Next]_vars => UpRow'
<1> SUFFICES ASSUME IInv, UpRow, [Next]_vars, ~astray', parent' # Nowhere
             PROVE  Len(m_breadcrumbs') >= IF GoingUp' THEN 1 ELSE 2
  BY DEF UpRow
<1>1. /\ m_breadcrumbs \in Seq(Paths) /\ Len(m_breadcrumbs) \in Nat
      /\ requests \in Seq(Request) /\ Len(requests) \in Nat
  BY DEF IInv, TypeOK
<1>2. CASE Connect
  <2>1. /\ Len(m_breadcrumbs') = Len(m_breadcrumbs) + 1 /\ requests' = requests
        /\ parent' = parent /\ astray' = astray
    BY <1>1, <1>2, AppendFacts DEF Connect, AddCrumb, rowVars, Paths
  <2> QED BY <1>1, <2>1 DEF UpRow, GoingUp
<1>3. CASE RequestSources
  <2>1. /\ m_breadcrumbs' = m_breadcrumbs /\ parent' = parent /\ astray' = astray
        /\ connection = "connecting" /\ requests' = Append(requests, [path |-> Root, up |-> FALSE])
    BY <1>3 DEF RequestSources, OnBreadcrumbAdded, Write, rowVars
  <2>2. GoingUp' = GoingUp
    <3>1. CASE requests = <<>> BY <2>1, <3>1 DEF GoingUp
    <3>2. CASE requests # <<>>
      <4>1. requests'[1] = requests[1] /\ requests' # <<>> BY <1>1, <2>1, <3>2
      <4> QED BY <3>2, <4>1 DEF GoingUp
    <3> QED BY <3>1, <3>2
  <2> QED BY <2>1, <2>2 DEF UpRow
<1>4. CASE Disconnect
  <2>1. PICK n \in 0..Len(requests) :
          /\ requests' = SubSeq(requests, 1, n)
          /\ astray' = (astray \/ n < Len(requests) \/ connection = "connecting")
    BY <1>4 DEF Disconnect
  <2>2. ~(astray \/ n < Len(requests) \/ connection = "connecting") BY <2>1
  <2>3. ~astray /\ ~(n < Len(requests)) BY <2>2
  <2>4. n = Len(requests) BY <1>1, <2>3
  <2>5. requests' = requests BY <1>1, <2>1, <2>4
  <2>6. m_breadcrumbs' = m_breadcrumbs /\ parent' = parent BY <1>4 DEF Disconnect, rowVars
  <2> QED BY <2>3, <2>5, <2>6 DEF UpRow, GoingUp
<1>5. CASE ClickDown
  <2>1. PICK d \in Children[listing] : AddBreadcrumb(d) /\ Write(d, FALSE) BY <1>5 DEF ClickDown
  <2>2. ~astray /\ connection = "up" /\ parent' = parent
    BY <1>5 DEF ClickDown, Activate, rowVars
  <2>3. Len(m_breadcrumbs') = Len(m_breadcrumbs) + 1
    BY <1>1, <2>1 DEF AddBreadcrumb, AddCrumb
  <2> QED BY <1>1, <2>2, <2>3 DEF UpRow
<1>6. CASE ClickUp
  <2>1. /\ ~astray /\ connection = "up" /\ requests = <<>> /\ parent' = parent
        /\ PopBreadcrumb /\ Write(parent, TRUE)
    BY <1>6 DEF ClickUp, Activate, rowVars
  <2>2. Len(m_breadcrumbs) >= 2 BY <2>1 DEF UpRow, GoingUp
  <2>3. Len(m_breadcrumbs') = Len(m_breadcrumbs) - 1
    <3>1. m_breadcrumbs # <<>> BY <1>1, <2>2
    <3> QED BY <1>1, <2>1, <3>1, PoppedFacts DEF PopBreadcrumb
  <2>4. GoingUp'
    <3>1. requests' = <<[path |-> parent, up |-> TRUE]>> BY <2>1 DEF Write
    <3> QED BY <3>1 DEF GoingUp
  <2> QED BY <1>1, <2>2, <2>3, <2>4
<1>7. CASE Answered
  <2>1. m_breadcrumbs' = m_breadcrumbs /\ parent' = ParentPath(m_breadcrumbs)
    BY <1>7 DEF Answered, crumbVars
  <2> QED BY <1>1, <2>1 DEF ParentPath
<1>8. CASE Refused
  <2>1. /\ ~astray /\ ~hasty /\ ~requests[1].up /\ requests # <<>> /\ parent' = parent
        /\ PopBreadcrumb
    BY <1>1, <1>8, TailFacts DEF Refused, rowVars
  <2>2. Followed /\ ~GoingUp BY <2>1 DEF IInv, GoingUp
  <2>3. Len(requests) + Half = 1
    <3>1. Half \in {0, 1} /\ Len(requests) >= 1 BY <1>1, <2>1 DEF Half
    <3>2. Len(requests) + Half <= 1 BY <2>1, <2>2 DEF Followed, ParentOld
    <3> QED BY <1>1, <3>1, <3>2
  <2>4. parent = ParentPath(Popped(m_breadcrumbs)) BY <2>1, <2>2, <2>3 DEF Followed, ParentOld
  <2>5. m_breadcrumbs' = Popped(m_breadcrumbs) BY <2>1 DEF PopBreadcrumb
  <2>6. Popped(m_breadcrumbs) \in Seq(Paths) BY <1>1, PoppedFacts
  <2>7. Len(m_breadcrumbs') >= 2 BY <2>1, <2>4, <2>5, <2>6 DEF ParentPath
  <2>8. Len(m_breadcrumbs') \in Nat BY <2>5, <2>6
  <2> QED BY <2>7, <2>8
<1>9. CASE UNCHANGED vars
  BY <1>9 DEF vars, crumbVars, rowVars, UpRow, GoingUp
<1> QED BY <1>2, <1>3, <1>4, <1>5, <1>6, <1>7, <1>8, <1>9 DEF Next

(* A step that pops finds a button: the bar lacks at most the last one.    *)
LEMMA PopFindsButton ==
  ASSUME IInv, UpRow, [Next]_vars, ~astray, Len(m_breadcrumbs') < Len(m_breadcrumbs)
  PROVE  bar # <<>>
<1>1. /\ m_breadcrumbs \in Seq(Paths) /\ Len(m_breadcrumbs) \in Nat
      /\ requests \in Seq(Request) /\ Len(requests) \in Nat
  BY DEF IInv, TypeOK
<1>2. Followed BY DEF IInv
<1>3. ClickUp \/ Refused
  <2>1. ~Connect
    BY <1>1, AppendFacts DEF Connect, AddCrumb, Paths
  <2>2. ~ClickDown
    <3>1. ASSUME NEW d, AddBreadcrumb(d) PROVE FALSE BY <1>1, <3>1 DEF AddBreadcrumb, AddCrumb
    <3> QED BY <3>1 DEF ClickDown
  <2>3. ~(RequestSources \/ Disconnect \/ Answered \/ UNCHANGED vars)
    <3>1. m_breadcrumbs' # m_breadcrumbs BY <1>1
    <3> QED BY <3>1 DEF RequestSources, OnBreadcrumbAdded, Disconnect, Answered, vars, crumbVars
  <2> QED BY <2>1, <2>2, <2>3 DEF Next
<1>4. Len(m_breadcrumbs) >= 1
  <2>1. m_breadcrumbs # <<>>
    BY <1>1, <1>3, PoppedFacts DEF ClickUp, Refused, PopBreadcrumb
  <2> QED BY <1>1, <2>1
<1>5. CASE connection # "connecting"
  <2>1. bar = m_breadcrumbs BY <1>2, <1>5 DEF Followed, BarFollows
  <2> QED BY <1>1, <1>4, <2>1
<1>6. CASE connection = "connecting"
  <2>1. bar = Popped(m_breadcrumbs) /\ Half = 1
    BY <1>2, <1>6 DEF Followed, BarFollows, Half
  <2>2. Len(m_breadcrumbs) >= Len(requests) + 1
    BY <1>1, <1>2, <2>1 DEF Followed, PendingLast, Old
  <2>3. Len(m_breadcrumbs) >= 2
    <3>1. CASE requests # <<>> BY <1>1, <2>2, <3>1
    <3>2. CASE requests = <<>>
      <4>1. parent # Nowhere BY <1>3, <3>2 DEF ClickUp, Refused
      <4> QED BY <3>2, <4>1 DEF UpRow, GoingUp
    <3> QED BY <3>1, <3>2
  <2>4. Len(bar) = Len(m_breadcrumbs) - 1 /\ bar \in Seq(Paths)
    <3>1. m_breadcrumbs # <<>> BY <1>1, <1>4
    <3> QED BY <1>1, <2>1, <3>1, PoppedFacts
  <2> QED BY <1>1, <2>3, <2>4
<1> QED BY <1>5, <1>6

(* on_breadcrumb_pop finds a button in the box, until something leads the  *)
(* breadcrumbs astray: the worker's half of handle_connect included.       *)
THEOREM ButtonPopped == Spec => PopsAButton
<1>1. Init => UpRow BY DEF Init, UpRow
<1>2. IInv /\ UpRow /\ [Next]_vars => UpRow' BY UpRowStep
<1>3. IInv /\ UpRow /\ [Next]_vars
        => [~astray /\ Len(m_breadcrumbs') < Len(m_breadcrumbs) => bar # <<>>]_vars
  BY PopFindsButton
<1> QED BY <1>1, <1>2, <1>3, Inductive, PTL DEF Spec, PopsAButton
-----------------------------------------------------------------------------
(* Before the first connection there is nothing to browse.                 *)
Untouched ==
  connects = 0 => /\ m_breadcrumbs = <<>> /\ listing = Nowhere /\ parent = Nowhere
                  /\ requests = <<>> /\ connection = "down"

(* The first breadcrumb is the one of the sources.                         *)
RootFirst == m_breadcrumbs # <<>> => m_breadcrumbs[1] = Root

(* Each breadcrumb is listed in the one before it.                         *)
Descends ==
  \A i \in 2..Len(m_breadcrumbs) : m_breadcrumbs[i] \in Children[m_breadcrumbs[i - 1]]

(* What a click, an answer and a refusal keep, under way as when quiet: a  *)
(* click descends from the listing, the last of the breadcrumbs if the     *)
(* user waited.                                                            *)
Ways ==
  /\ Untouched
  /\ ~astray => RootFirst
  /\ ~astray /\ ~hasty /\ connects = 1 => Descends

(* A breadcrumb added below the last one continues the way down.           *)
LEMMA AppendDescends ==
  ASSUME NEW d \in Paths, m_breadcrumbs \in Seq(Paths), m_breadcrumbs # <<>>,
         m_breadcrumbs' = Append(m_breadcrumbs, d)
  PROVE  /\ RootFirst => RootFirst'
         /\ Descends /\ d \in Children[m_breadcrumbs[Len(m_breadcrumbs)]] => Descends'
<1>1. /\ Len(m_breadcrumbs) \in Nat /\ Len(m_breadcrumbs) >= 1
      /\ Len(m_breadcrumbs') = Len(m_breadcrumbs) + 1
      /\ m_breadcrumbs'[Len(m_breadcrumbs) + 1] = d
      /\ \A i \in 1..Len(m_breadcrumbs) : m_breadcrumbs'[i] = m_breadcrumbs[i]
  BY AppendFacts
<1>2. RootFirst => RootFirst'
  <2>1. 1 \in 1..Len(m_breadcrumbs) BY <1>1
  <2> QED BY <1>1, <2>1 DEF RootFirst
<1>3. ASSUME Descends, d \in Children[m_breadcrumbs[Len(m_breadcrumbs)]],
             NEW i \in 2..Len(m_breadcrumbs')
      PROVE  m_breadcrumbs'[i] \in Children[m_breadcrumbs'[i - 1]]
  <2>1. i - 1 \in 1..Len(m_breadcrumbs) BY <1>1, <1>3
  <2>2. CASE i = Len(m_breadcrumbs) + 1
    <3>1. i - 1 = Len(m_breadcrumbs) BY <1>1, <2>2
    <3> QED BY <1>1, <1>3, <2>1, <2>2, <3>1
  <2>3. CASE i # Len(m_breadcrumbs) + 1
    <3>1. i \in 2..Len(m_breadcrumbs) /\ i \in 1..Len(m_breadcrumbs) BY <1>1, <1>3, <2>3
    <3> QED BY <1>1, <1>3, <2>1, <3>1 DEF Descends
  <2> QED BY <2>2, <2>3
<1> QED BY <1>2, <1>3 DEF Descends

(* What is left after a pop is the beginning of the same way.              *)
LEMMA PopDescends ==
  ASSUME m_breadcrumbs \in Seq(Paths), m_breadcrumbs' = Popped(m_breadcrumbs)
  PROVE  (RootFirst => RootFirst') /\ (Descends => Descends')
<1>1. CASE m_breadcrumbs = <<>>
  <2>1. m_breadcrumbs' = m_breadcrumbs BY <1>1, PoppedFacts
  <2> QED BY <2>1 DEF RootFirst, Descends
<1>2. CASE m_breadcrumbs # <<>>
  <2>1. /\ Len(m_breadcrumbs) \in Nat
        /\ m_breadcrumbs' \in Seq(Paths) /\ Len(m_breadcrumbs') = Len(m_breadcrumbs) - 1
        /\ \A i \in 1..(Len(m_breadcrumbs) - 1) : m_breadcrumbs'[i] = m_breadcrumbs[i]
    BY <1>2, PoppedFacts
  <2>2. RootFirst => RootFirst'
    <3>1. m_breadcrumbs' # <<>> => 1 \in 1..(Len(m_breadcrumbs) - 1) BY <2>1
    <3> QED BY <1>2, <2>1, <3>1 DEF RootFirst
  <2>3. ASSUME Descends, NEW i \in 2..Len(m_breadcrumbs')
        PROVE  m_breadcrumbs'[i] \in Children[m_breadcrumbs'[i - 1]]
    <3>1. /\ i \in 2..Len(m_breadcrumbs) /\ i \in 1..(Len(m_breadcrumbs) - 1)
          /\ i - 1 \in 1..(Len(m_breadcrumbs) - 1)
      BY <2>1, <2>3
    <3> QED BY <2>1, <2>3, <3>1 DEF Descends
  <2> QED BY <2>2, <2>3 DEF Descends
<1> QED BY <1>1, <1>2

(* A row that is shown belongs to a breadcrumb: to the last one, if no     *)
(* answer is waited for.                                                   *)
LEMMA RowsHaveBreadcrumb ==
  ASSUME IInv, ~astray, connection = "up", listing # Nowhere
  PROVE  /\ m_breadcrumbs # <<>>
         /\ requests = <<>> => listing = m_breadcrumbs[Len(m_breadcrumbs)]
<1>1. Followed /\ Half = 0 BY DEF IInv, Half
<1>2. m_breadcrumbs \in Seq(Paths) /\ requests \in Seq(Request) BY DEF IInv, TypeOK
<1>3. Len(m_breadcrumbs) \in Nat /\ Len(requests) \in Nat BY <1>2
<1>4. Old >= 0 /\ Old = Len(m_breadcrumbs) - Len(requests)
  BY <1>1, <1>3 DEF Followed, PendingLast, Old
<1>5. requests # <<>> => m_breadcrumbs # <<>>
  <2>1. requests # <<>> => Len(m_breadcrumbs) >= 1 BY <1>2, <1>3, <1>4, EmptySeq
  <2> QED BY <2>1, <1>2, EmptySeq
<1>6. ASSUME requests = <<>>
      PROVE  m_breadcrumbs # <<>> /\ listing = m_breadcrumbs[Len(m_breadcrumbs)]
  <2>1. ~GoingUp /\ Len(requests) = 0 BY <1>6 DEF GoingUp
  <2>2. Old = Len(m_breadcrumbs) BY <1>3, <1>4, <2>1
  <2>3. Old # 0 BY <1>1, <2>1 DEF Followed, ListingOld
  <2>4. listing = m_breadcrumbs[Old] BY <1>1, <2>1, <2>3 DEF Followed, ListingOld
  <2> QED BY <1>2, <2>2, <2>3, <2>4, EmptySeq
<1> QED BY <1>5, <1>6

(* The first connection begins the way, a click goes one row down, a pop   *)
(* one breadcrumb up.                                                      *)
LEMMA WaysStep == IInv /\ Ways /\ [Next]_vars => Ways'
<1> SUFFICES ASSUME IInv, Ways, [Next]_vars PROVE Ways'
  OBVIOUS
<1>1. /\ m_breadcrumbs \in Seq(Paths) /\ requests \in Seq(Request) /\ connects \in Nat
      /\ Root \in Paths
  BY BrowserAssumption DEF IInv, TypeOK, Paths
<1>2. CASE Connect
  <2>1. /\ m_breadcrumbs' = Append(m_breadcrumbs, Root) /\ connects' = connects + 1
        /\ astray' = astray /\ hasty' = (hasty \/ requests # <<>>)
    BY <1>2 DEF Connect, AddCrumb
  <2>2. Untouched' BY <1>1, <2>1 DEF Untouched
  <2>3. CASE m_breadcrumbs = <<>>
    <3>1. Len(m_breadcrumbs') = 1 /\ m_breadcrumbs'[1] = Root BY <2>1, <2>3
    <3>2. RootFirst' BY <3>1 DEF RootFirst
    <3>3. Descends' BY <3>1 DEF Descends
    <3> QED BY <2>2, <3>2, <3>3 DEF Ways
  <2>4. CASE m_breadcrumbs # <<>>
    <3>1. RootFirst => RootFirst' BY <1>1, <2>1, <2>4, AppendDescends
    <3>2. connects' # 1 BY <1>1, <2>1, <2>4 DEF Ways, Untouched
    <3> QED BY <2>1, <2>2, <3>1, <3>2 DEF Ways
  <2> QED BY <2>3, <2>4
<1>3. CASE RequestSources
  <2>1. UNCHANGED <<m_breadcrumbs, connects, astray, hasty>> /\ connection = "connecting"
    BY <1>3 DEF RequestSources, OnBreadcrumbAdded
  <2>2. Untouched' BY <2>1 DEF Ways, Untouched
  <2> QED BY <2>1, <2>2 DEF Ways, RootFirst, Descends
<1>4. CASE Disconnect
  <2>1. UNCHANGED <<m_breadcrumbs, connects, hasty>> /\ connection # "down"
    BY <1>4 DEF Disconnect
  <2>2. astray => astray' BY <1>4 DEF Disconnect
  <2>3. Untouched' BY <2>1 DEF Ways, Untouched
  <2> QED BY <2>1, <2>2, <2>3 DEF Ways, RootFirst, Descends
<1>5. CASE ClickDown
  <2>1. PICK d \in Children[listing] : AddBreadcrumb(d) BY <1>5 DEF ClickDown
  <2>2. m_breadcrumbs' = Append(m_breadcrumbs, d) BY <2>1 DEF AddBreadcrumb, AddCrumb
  <2>3. /\ connects' = connects /\ listing # Nowhere
        /\ hasty' = (hasty \/ requests # <<>>) /\ astray' = (astray \/ connection # "up")
    BY <1>5 DEF ClickDown, Activate
  <2>4. Untouched' BY <2>3 DEF Ways, Untouched
  <2>5. ASSUME ~astray' PROVE RootFirst' /\ (~hasty' /\ connects' = 1 => Descends')
    <3>1. ~astray /\ connection = "up" BY <2>3, <2>5
    <3>2. /\ m_breadcrumbs # <<>>
          /\ requests = <<>> => listing = m_breadcrumbs[Len(m_breadcrumbs)]
      BY <2>3, <3>1, RowsHaveBreadcrumb
    <3>3. d \in Paths
      <4>1. listing \in Dirs \cup {Root} BY <2>3 DEF IInv, TypeOK, Paths
      <4> QED BY <4>1, <2>1, BrowserAssumption DEF Paths
    <3>4. /\ RootFirst => RootFirst'
          /\ Descends /\ d \in Children[m_breadcrumbs[Len(m_breadcrumbs)]] => Descends'
      BY <1>1, <2>2, <3>2, <3>3, AppendDescends
    <3>5. ~hasty' => ~hasty /\ d \in Children[m_breadcrumbs[Len(m_breadcrumbs)]]
      BY <2>1, <2>3, <3>2
    <3> QED BY <2>3, <3>1, <3>4, <3>5 DEF Ways
  <2> QED BY <2>4, <2>5 DEF Ways
<1>6. CASE ClickUp
  <2>1. /\ m_breadcrumbs' = Popped(m_breadcrumbs) /\ parent # Nowhere /\ connects' = connects
        /\ (hasty => hasty') /\ (astray => astray')
    BY <1>6 DEF ClickUp, Activate, PopBreadcrumb
  <2>2. (RootFirst => RootFirst') /\ (Descends => Descends') BY <1>1, <2>1, PopDescends
  <2>3. Untouched' BY <2>1 DEF Ways, Untouched
  <2> QED BY <2>1, <2>2, <2>3 DEF Ways
<1>7. CASE Answered
  <2>1. UNCHANGED <<m_breadcrumbs, connects, astray, hasty>> /\ requests # <<>>
    BY <1>7 DEF Answered, crumbVars
  <2>2. Untouched' BY <2>1 DEF Ways, Untouched
  <2> QED BY <2>1, <2>2 DEF Ways, RootFirst, Descends
<1>8. CASE Refused
  <2>1. /\ m_breadcrumbs' = Popped(m_breadcrumbs) /\ requests # <<>>
        /\ UNCHANGED <<connects, hasty>> /\ (astray => astray')
    BY <1>8 DEF Refused, PopBreadcrumb
  <2>2. (RootFirst => RootFirst') /\ (Descends => Descends') BY <1>1, <2>1, PopDescends
  <2>3. Untouched' BY <2>1 DEF Ways, Untouched
  <2> QED BY <2>1, <2>2, <2>3 DEF Ways
<1>9. CASE UNCHANGED vars
  BY <1>9 DEF vars, crumbVars, rowVars, Ways, Untouched, RootFirst, Descends
<1> QED BY <1>2, <1>3, <1>4, <1>5, <1>6, <1>7, <1>8, <1>9 DEF Next

(* The invariants hold together.                                           *)
LEMMA WaysHold == Spec => [](IInv /\ Ways)
<1>1. Init => Ways
  <2> SUFFICES ASSUME Init PROVE Ways
    OBVIOUS
  <2>1. Len(m_breadcrumbs) = 0 BY DEF Init
  <2> QED BY <2>1 DEF Init, Ways, Untouched, RootFirst, Descends
<1> QED BY <1>1, WaysStep, Inductive, PTL DEF Spec

(* In one session of a patient user the breadcrumbs are a way down from    *)
(* the sources: each of them was a row of the one before it.               *)
THEOREM BreadcrumbsDescend == Spec => []WayDown
<1>1. Ways => WayDown BY DEF Ways, WayDown, Quiet, RootFirst, Descends
<1> QED BY WaysHold, <1>1, PTL

(* A directory shown with nothing under way has its ".." row, however many *)
(* sessions and hasty clicks led to it: below its own breadcrumb is at     *)
(* least the one of the sources.                                           *)
THEOREM AlwaysAWayBack == Spec => []WayBack
<1>1. ASSUME IInv, Ways, BreadcrumbsShown, Quiet, listing \in Dirs PROVE parent # Nowhere
  <2>1. m_breadcrumbs \in Seq(Paths) BY <1>1 DEF IInv, TypeOK
  <2>2. /\ m_breadcrumbs # <<>> /\ listing = m_breadcrumbs[Len(m_breadcrumbs)]
        /\ parent = ParentPath(m_breadcrumbs)
    BY <1>1, BrowserAssumption DEF BreadcrumbsShown
  <2>3. m_breadcrumbs[1] = Root BY <1>1, <2>2 DEF Ways, Quiet, RootFirst
  <2>4. Len(m_breadcrumbs) # 1 BY <1>1, <2>2, <2>3, BrowserAssumption
  <2>5. Len(m_breadcrumbs) \in Nat /\ Len(m_breadcrumbs) >= 2
    <3>1. Len(m_breadcrumbs) # 0 BY <2>1, <2>2, EmptySeq
    <3>2. Len(m_breadcrumbs) \in Nat BY <2>1
    <3>3. \A n \in Nat : n # 0 /\ n # 1 => n >= 2 OBVIOUS
    <3> QED BY <3>1, <3>2, <3>3, <2>4, Zenon
  <2>6. parent = m_breadcrumbs[Len(m_breadcrumbs) - 1] BY <2>2, <2>5 DEF ParentPath
  <2>7. parent \in Paths BY <2>1, <2>5, <2>6
  <2> QED BY <2>7, BrowserAssumption DEF Paths
<1>2. IInv /\ Ways /\ BreadcrumbsShown => WayBack BY <1>1 DEF WayBack
<1> QED BY WaysHold, BreadcrumbsFollow, <1>2, PTL
=============================================================================
