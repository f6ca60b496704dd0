-------------------------------- MODULE Browser --------------------------------
(***************************************************************************)
(* The media browser: the breadcrumbs (browse-model.cc) and their buttons  *)
(* in the window, the rows of the listing (browse-movies-model.cc),        *)
(* Client::open, and the responses and refusals of GET_SOURCES and         *)
(* GET_DIRECTORY (client.cc).                                              *)
(*                                                                         *)
(* The breadcrumbs move when the user clicks, the rows when the server     *)
(* answers; nothing but the order of events ties them together.  Paths are *)
(* model values; a file's row, which changes neither, is left out: Session *)
(* has it.                                                                 *)
(***************************************************************************)
EXTENDS Integers, Sequences

CONSTANTS
  Dirs,         \* the directories of the server, its sources among them
  Root,         \* the empty path: the list of sources
  Nowhere,      \* no path
  Children,     \* the directories in a directory's listing
  MaxConnects,  \* bound: connections
  MaxClicks     \* bound: rows the user activates

ASSUME BrowserAssumption ==
  /\ Root \notin Dirs /\ Nowhere \notin Dirs \cup {Root}
  /\ Children \in [Dirs \cup {Root} -> SUBSET Dirs]
  /\ MaxConnects \in Nat /\ MaxClicks \in Nat

Paths == Dirs \cup {Root}

VARIABLES
  m_breadcrumbs,  \* of the model: the paths
  bar,            \* the buttons in m_breadcrumbsBox: the paths they stand for
  listing,        \* whose rows the model has, or Nowhere
  parent,         \* the path of the ".." row, Nowhere without one
  requests,       \* requests not handled yet, oldest first
  connection,     \* "down", "connecting" (handle_connect is half through), "up"
  connects, clicks,
  astray,         \* an event the breadcrumbs cannot follow (see below)
  hasty           \* a row was activated, or a connection made, before an answer

crumbVars == <<m_breadcrumbs, bar>>
rowVars == <<listing, parent>>
vars == <<crumbVars, rowVars, requests, connection, connects, clicks, astray, hasty>>

Init ==
  /\ m_breadcrumbs = <<>> /\ bar = <<>> /\ listing = Nowhere /\ parent = Nowhere
  /\ requests = <<>> /\ connection = "down"
  /\ connects = 0 /\ clicks = 0
  /\ astray = FALSE /\ hasty = FALSE

Request == [path : Paths, up : BOOLEAN]

Write(p, up) ==
  requests' = IF connection = "down" THEN requests ELSE Append(requests, [path |-> p, up |-> up])

(* add_breadcrumb and the handler of its signal: the crumb, its button.    *)
AddCrumb(p) == m_breadcrumbs' = Append(m_breadcrumbs, p)
OnBreadcrumbAdded(p) == bar' = Append(bar, p)
AddBreadcrumb(p) == AddCrumb(p) /\ OnBreadcrumbAdded(p)

Popped(s) == IF s = <<>> THEN s ELSE SubSeq(s, 1, Len(s) - 1)

(* pop_breadcrumbs(1): the last button goes, whatever it stands for.       *)
PopBreadcrumb ==
  /\ m_breadcrumbs' = Popped(m_breadcrumbs)
  /\ bar' = IF m_breadcrumbs = <<>> THEN bar ELSE Popped(bar)

MutParentPath(s) == IF Len(s) > 2 THEN s[Len(s) - 1] ELSE Nowhere

(* The path of the ".." row: the last but one of the breadcrumbs.          *)
ParentPath(s) == IF Len(s) >= 2 THEN s[Len(s) - 1] ELSE Nowhere

-----------------------------------------------------------------------------
(* handle_connect, in the worker, without a lock: the main loop may come   *)
(* in between, the new breadcrumb in the model and its button not yet in   *)
(* the window.                                                             *)

MutConnectAsksFirst ==
  /\ connection = "down" /\ connects < MaxConnects
  /\ connection' = "connecting" /\ connects' = connects + 1
  /\ AddCrumb(Root)
  /\ requests' = Append(requests, [path |-> Root, up |-> FALSE])
  /\ hasty' = (hasty \/ requests # <<>>)
  /\ UNCHANGED <<bar, rowVars, clicks, astray>>

Connect ==
  /\ connection = "down" /\ connects < MaxConnects
  /\ connection' = "connecting" /\ connects' = connects + 1
  /\ AddCrumb(Root)
  /\ hasty' = (hasty \/ requests # <<>>)
  /\ UNCHANGED <<bar, rowVars, requests, clicks, astray>>

RequestSources ==
  /\ connection = "connecting" /\ connection' = "up"
  /\ OnBreadcrumbAdded(Root) /\ Write(Root, FALSE)
  /\ UNCHANGED <<m_breadcrumbs, rowVars, connects, clicks, astray, hasty>>

(* disconnect: breadcrumbs and rows stay.  What the server has answered is *)
(* still handled, the rest never comes; handle_connect goes on to an end,  *)
(* but writes nothing any more.                                            *)
Disconnect ==
  /\ connection # "down" /\ connection' = "down"
  /\ \E n \in 0..Len(requests) :
       /\ requests' = SubSeq(requests, 1, n)
       /\ astray' = (astray \/ n < Len(requests) \/ connection = "connecting")
  /\ bar' = IF connection = "connecting" THEN Append(bar, Root) ELSE bar
  /\ UNCHANGED <<m_breadcrumbs, rowVars, connects, clicks, hasty>>

-----------------------------------------------------------------------------
(* Client::open on the row the user activates.                             *)

Activate ==
  /\ clicks < MaxClicks /\ clicks' = clicks + 1
  /\ hasty' = (hasty \/ requests # <<>>)
  /\ UNCHANGED <<rowVars, connection, connects>>

ClickDown ==
  /\ Activate
  /\ listing # Nowhere
  /\ \E d \in Children[listing] : AddBreadcrumb(d) /\ Write(d, FALSE)
  /\ astray' = (astray \/ connection # "up")

MutClickUpAnywhere ==
  /\ Activate
  /\ listing # Nowhere
  /\ PopBreadcrumb /\ Write(parent, TRUE)
  /\ astray' = (astray \/ connection # "up" \/ requests # <<>>)

MutClickUpKeeps ==
  /\ Activate
  /\ parent # Nowhere
  /\ Write(parent, TRUE)
  /\ astray' = (astray \/ connection # "up" \/ requests # <<>>)
  /\ UNCHANGED crumbVars

ClickUp ==
  /\ Activate
  /\ parent # Nowhere
  /\ PopBreadcrumb /\ Write(parent, TRUE)
  /\ astray' = (astray \/ connection # "up" \/ requests # <<>>)

-----------------------------------------------------------------------------
(* handle_json_idle.                                                       *)

(* update: the ".." row takes its path from the breadcrumbs of now.        *)
Answered ==
  /\ requests # <<>> /\ requests' = Tail(requests)
  /\ listing' = Head(requests).path
  /\ parent' = ParentPath(m_breadcrumbs)
  /\ UNCHANGED <<crumbVars, connection, connects, clicks, astray, hasty>>

MutRefused ==
  /\ requests # <<>> /\ requests' = Tail(requests)
  /\ astray' = (astray \/ hasty \/ Head(requests).up)
  /\ UNCHANGED <<crumbVars, rowVars, connection, connects, clicks, hasty>>

(* The error pops the last breadcrumb, whatever was refused.               *)
Refused ==
  /\ requests # <<>> /\ requests' = Tail(requests)
  /\ PopBreadcrumb
  /\ astray' = (astray \/ hasty \/ Head(requests).up)
  /\ UNCHANGED <<rowVars, connection, connects, clicks, hasty>>

Next ==
  \/ Connect \/ RequestSources \/ Disconnect
  \/ ClickDown \/ ClickUp
  \/ Answered \/ Refused

Spec == Init /\ [][Next]_vars

-----------------------------------------------------------------------------
(* Properties.                                                             *)

TypeOK ==
  /\ m_breadcrumbs \in Seq(Paths) /\ bar \in Seq(Paths)
  /\ {listing, parent} \subseteq Paths \cup {Nowhere}
  /\ requests \in Seq(Request)
  /\ connection \in {"down", "connecting", "up"}
  /\ connects \in 0..MaxConnects /\ clicks \in 0..MaxClicks
  /\ astray \in BOOLEAN /\ hasty \in BOOLEAN

Quiet == requests = <<>> /\ connection # "connecting" /\ ~astray

(* With nothing under way, the buttons are the breadcrumbs, the last one   *)
(* is the listing shown and ".." leads to the one before it, whatever rows *)
(* were activated before an answer, descents refused, and sessions begun.  *)
(* (The breadcrumbs do go astray when ".." is activated before an answer,  *)
(* when ".." is refused, since both the click and the refusal pop, when a  *)
(* row activated in haste is refused, when a request is lost.)             *)
BreadcrumbsShown ==
  Quiet =>
    /\ bar = m_breadcrumbs
    /\ listing = IF m_breadcrumbs = <<>> THEN Nowhere ELSE m_breadcrumbs[Len(m_breadcrumbs)]
    /\ parent = ParentPath(m_breadcrumbs)

(* A breadcrumb is popped while its button is in the window.  (The handler *)
(* takes the last of the box's children without asking for one; the worker *)
(* adds breadcrumb and button in two steps beside it.)                     *)
PopsAButton ==
  [][~astray /\ Len(m_breadcrumbs') < Len(m_breadcrumbs) => bar # <<>>]_vars

(* In one session of a patient user the breadcrumbs are a way down from    *)
(* the sources, each listed in the one before it.                          *)
WayDown ==
  Quiet /\ ~hasty /\ connects = 1 /\ m_breadcrumbs # <<>> =>
    /\ m_breadcrumbs[1] = Root
    /\ \A i \in 2..Len(m_breadcrumbs) : m_breadcrumbs[i] \in Children[m_breadcrumbs[i - 1]]

(* Before anything goes astray the browser always has a way back: no       *)
(* listing but the sources is without its ".." row.                        *)
WayBack == Quiet /\ listing \in Dirs => parent # Nowhere
=============================================================================
