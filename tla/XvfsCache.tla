------------------------------- MODULE XvfsCache -------------------------------
(***************************************************************************)
(* The thumbnails: XVFSCache and its objects (xvfs-cache.cc,               *)
(* xvfs-cache-object.cc), fetched by a pool of threads for                 *)
(* MainWindow::refresh_player and shown by cache_object_state_change.      *)
(*                                                                         *)
(* Main loop and pool share the objects without a lock.  A step is what    *)
(* runs between two accesses to an object's shared fields.  Pictures are   *)
(* abstracted to the path they were fetched from; the signals' handlers    *)
(* pile up in the code, but all of them do the same.  An exception that    *)
(* fetch_threadfunc does not catch ends the program and is left out.       *)
(***************************************************************************)
EXTENDS Integers, Sequences

CONSTANTS
  Paths,          \* thumbnails
  NoPath,         \* no thumbnail
  Threads,        \* of m_threadPool
  MaxRefreshes    \* bound: calls of refresh_player

ASSUME XvfsAssumption == NoPath \notin Paths /\ MaxRefreshes \in Nat

VARIABLES
  m_state,        \* per path: its object's CacheObjectState, "absent" without one
  pixbuf,         \* paths whose m_unscaledPixbuf is set
  tasks,          \* m_threadPool's queue
  running,        \* per thread: the path it fetches, or NoPath
  stored,         \* threads that have set the pixbuf and not yet the state
  idle,           \* objects whose set_state_main_loop the main loop will call
  pushing,        \* the path fetch_async will push next, or NoPath
  item,           \* the thumbnail refresh_player asked for last, or NoPath
  image,          \* what m_playlistImage shows, or NoPath
  overlapped,     \* another object's fetch was not through when it asked for item
  refreshes

objectVars == <<m_state, pixbuf>>
poolVars == <<tasks, running, stored>>
windowVars == <<item, image, overlapped, refreshes>>
vars == <<objectVars, poolVars, idle, pushing, windowVars>>

Init ==
  /\ m_state = [p \in Paths |-> "absent"] /\ pixbuf = {}
  /\ tasks = <<>> /\ running = [t \in Threads |-> NoPath] /\ stored = {}
  /\ idle = <<>> /\ pushing = NoPath
  /\ item = NoPath /\ image = NoPath
  /\ overlapped = FALSE /\ refreshes = 0

FetchesDone == tasks = <<>> /\ pushing = NoPath /\ \A t \in Threads : running[t] = NoPath

Quiet == FetchesDone /\ idle = <<>>

(* No fetch of another object is under way, nor an announcement of one.    *)
OnlyUnderWay(p) ==
  /\ \A i \in DOMAIN tasks : tasks[i] = p
  /\ \A t \in Threads : running[t] \in {p, NoPath}
  /\ \A i \in DOMAIN idle : idle[i] = p

MutStateQueued(p, s) == m_state' = [m_state EXCEPT ![p] = s] /\ idle' = Append(idle, s)

(* set_state: the signal is emitted later, from the main loop.             *)
SetState(p, s) == m_state' = [m_state EXCEPT ![p] = s] /\ idle' = Append(idle, p)

-----------------------------------------------------------------------------
(* The main loop.                                                          *)

(* refresh_player: the old picture goes unless something plays or pauses;  *)
(* an item with a thumbnail has it fetched, be it cached or not.           *)
Refresh ==
  /\ pushing = NoPath
  /\ refreshes < MaxRefreshes /\ refreshes' = refreshes + 1
  /\ image' \in {image, NoPath}
  /\ \E p \in Paths :
       /\ item' = p /\ pushing' = p
       /\ SetState(p, "FETCHING")
       /\ overlapped' = ~OnlyUnderWay(p)
  /\ UNCHANGED <<pixbuf, poolVars>>

MutPushUnlessCached ==
  /\ pushing # NoPath
  /\ tasks' = IF pushing \in pixbuf THEN tasks ELSE Append(tasks, pushing)
  /\ pushing' = NoPath
  /\ UNCHANGED <<objectVars, running, stored, idle, windowVars>>

(* The rest of fetch_async.                                                *)
Push ==
  /\ pushing # NoPath
  /\ tasks' = Append(tasks, pushing) /\ pushing' = NoPath
  /\ UNCHANGED <<objectVars, running, stored, idle, windowVars>>

(* refresh_player without a thumbnail, or on_client_disconnect: no fetch;  *)
(* the picture goes with the player, but an item without a thumbnail keeps *)
(* the old one (m_playImage is cleared in its place).                      *)
RefreshWithout ==
  /\ pushing = NoPath
  /\ refreshes < MaxRefreshes /\ refreshes' = refreshes + 1
  /\ item' = NoPath /\ image' \in {image, NoPath}
  /\ UNCHANGED <<objectVars, poolVars, idle, pushing, overlapped>>

MutEmitAtFirst ==
  /\ pushing = NoPath /\ idle # <<>>
  /\ idle' = Tail(idle)
  /\ image' = IF m_state[Head(idle)] = "CACHED" /\ image = NoPath THEN Head(idle) ELSE image
  /\ UNCHANGED <<objectVars, poolVars, pushing, item, overlapped, refreshes>>

(* set_state_main_loop: cache_object_state_change looks at the state of    *)
(* now, not at the one that was set when the callback was queued.          *)
Emit ==
  /\ pushing = NoPath /\ idle # <<>>
  /\ idle' = Tail(idle)
  /\ image' = IF m_state[Head(idle)] = "CACHED" THEN Head(idle) ELSE image
  /\ UNCHANGED <<objectVars, poolVars, pushing, item, overlapped, refreshes>>

-----------------------------------------------------------------------------
(* fetch_threadfunc in thread t.                                           *)

(* It returns at once when the object is not being fetched (any more).     *)
Take(t) ==
  /\ running[t] = NoPath /\ tasks # <<>>
  /\ tasks' = Tail(tasks)
  /\ running' = IF m_state[Head(tasks)] = "FETCHING"
                THEN [running EXCEPT ![t] = Head(tasks)] ELSE running
  /\ UNCHANGED <<objectVars, stored, idle, pushing, windowVars>>

(* Inside perform(), for as long as the web server likes.                  *)
Waiting(t) == running[t] # NoPath /\ t \notin stored

(* The HTTP request and the decoder succeed: set_unscaled_pixbuf.          *)
Store(t) ==
  /\ Waiting(t)
  /\ pixbuf' = pixbuf \cup {running[t]} /\ stored' = stored \cup {t}
  /\ UNCHANGED <<m_state, tasks, running, idle, pushing, windowVars>>

Finish(t) == running' = [running EXCEPT ![t] = NoPath] /\ stored' = stored \ {t}

MutCachedBeforeStored(t) ==
  /\ running[t] # NoPath
  /\ SetState(running[t], "CACHED")
  /\ Finish(t)
  /\ UNCHANGED <<pixbuf, tasks, pushing, windowVars>>

SetCached(t) ==
  /\ t \in stored
  /\ SetState(running[t], "CACHED")
  /\ Finish(t)
  /\ UNCHANGED <<pixbuf, tasks, pushing, windowVars>>

MutErrorUnmarked(t) ==
  /\ Waiting(t)
  /\ Finish(t)
  /\ UNCHANGED <<objectVars, tasks, idle, pushing, windowVars>>

(* The catch of std::exception.                                            *)
SetError(t) ==
  /\ Waiting(t)
  /\ SetState(running[t], "ERROR")
  /\ Finish(t)
  /\ UNCHANGED <<pixbuf, tasks, pushing, windowVars>>

Fetch(t) == Take(t) \/ Store(t) \/ SetCached(t) \/ SetError(t)

Next == Refresh \/ RefreshWithout \/ Push \/ Emit \/ \E t \in Threads : Fetch(t)

Spec == Init /\ [][Next]_vars

(* The main loop and the threads run on.  The end of a request is the web  *)
(* server's: fetch_threadfunc sets no timeout and curl has none of its     *)
(* own, so a server that stays silent keeps the thread for ever.           *)
FairSpec ==
  Spec /\ WF_vars(Push \/ Emit) /\ \A t \in Threads : WF_vars(Take(t) \/ SetCached(t))

-----------------------------------------------------------------------------
(* Properties.                                                             *)

TypeOK ==
  /\ m_state \in [Paths -> {"absent", "FETCHING", "CACHED", "ERROR"}]
  /\ pixbuf \subseteq Paths
  /\ tasks \in Seq(Paths) /\ running \in [Threads -> Paths \cup {NoPath}]
  /\ stored \subseteq Threads
  /\ idle \in Seq(Paths) /\ pushing \in Paths \cup {NoPath}
  /\ item \in Paths \cup {NoPath} /\ image \in Paths \cup {NoPath}
  /\ overlapped \in BOOLEAN /\ refreshes \in 0..MaxRefreshes

(* A thread that finishes an object while fetch_async marks it again, or a *)
(* task that returns early: no object is left "fetching" with nobody       *)
(* fetching it.                                                            *)
NoFetchForgotten == FetchesDone => \A p \in Paths : m_state[p] # "FETCHING"

(* scale() in the main loop never meets an object without a picture,       *)
(* whatever fetch of the same object is under way.                         *)
PixbufPresent == \A p \in Paths : m_state[p] = "CACHED" => p \in pixbuf

(* Once nothing is under way the picture is the item's, however often that *)
(* was fetched in the meantime, unless another object's fetch was not      *)
(* through when it was asked for: then the slower one wins, whichever.     *)
PictureOfItem ==
  ~overlapped /\ Quiet /\ item # NoPath /\ m_state[item] = "CACHED" => image = item

(* Only a silent web server holds a fetch up: fetch_async and the pool     *)
(* bring every one before the server, unless it keeps the whole pool, and  *)
(* mark the object when it has answered.                                   *)
FetchesReachServer ==
  \A p \in Paths :
    m_state[p] = "FETCHING" ~>
      \/ m_state[p] # "FETCHING"
      \/ \E t \in Threads : running[t] = p /\ Waiting(t)
      \/ \A t \in Threads : Waiting(t)
=============================================================================
