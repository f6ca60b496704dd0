# A TLA+ model of xbmcremote

xbmcremote is a GTK remote control for XBMC media centers. It keeps one TCP
connection to the JSON-RPC service of the player (class `Client`, `client.cc`)
and shows the player, its playlist and a media browser. Two threads share the
`Client` without a lock: the GTK main loop (the user, idle callbacks, timers)
and a worker that runs the boost::asio `io_service` (connecting, reading,
deadlines, pings). A pool of further threads fetches thumbnails.

The modules here model what that design makes hard: how a stream without
separators is cut into responses, how a connection is made, watched and torn
down from either thread, what its three durations leave for an answer, how the
player and its time are mirrored from answers and notifications that cross on
the wire, how breadcrumbs follow a browser whose
answers come late, and how the thumbnail cache loses no fetch. Paths below are
relative to `src/src/` unless they say otherwise.

Contents: [Inventory](#inventory) - [Modules](#modules) - [Runs](#runs) -
[Bounds](#bounds) - [Fairness](#fairness) - [Proofs](#proofs) -
[Where the code falls short](#where-the-code-falls-short) -
[Not modelled](#not-modelled) - [Plan](#plan) - [Running it](#running-it)

## Inventory

| Component | State | Operations | Correct when |
|---|---|---|---|
| Stream framing (`client.cc` 174-179, 375-411) | `m_input_buffer`, `m_json_stream`, `m_bracket_counter` | `start_read`, `handle_read` | each response of the server is parsed once, whole, in order, and none waits for the next to push it out |
| Connection life cycle (`client.cc` 80-179, 436-459) | `m_stopped`, `m_connected`, `m_socket` | `start`, `connect`, `handle_connect`, `disconnect`, `write`, `handle_write` | no attempt and no read hangs; after `disconnect()` no socket, attempt or read of the connection is left; the window shows what is so |
| Deadline and heartbeat (`client.cc` 125, 270, 461) | `m_deadline`, `m_heartbeat_timer` | `check_deadline`, `start_ping`, `handle_ping` | a deadline is watched whenever one is set; a live connection is kept, a dead one left in time; one ping cycle per connection |
| Player session (`client.cc` 181-336, 366) | `m_state`, `m_playlistid`, `m_elapsed`, the auto-seek source | `handle_json_idle`, the handshake, notifications | the mirror equals the server's player once nothing is under way; one seek timer at most; the seconds counted follow the server's |
| Playlist model (`playlist-model.cc`) | its rows | `populate`, `clear`, `get_active_iter` | rows are the server's items |
| Media browser (`browse-model.cc`, `browse-movies-model.cc`, `client.cc` 166-169, 201-256, 413) | breadcrumbs, their buttons, rows, the ".." row | `open`, `update`, `add_breadcrumb`, `pop_breadcrumbs` | breadcrumbs name the directory whose rows are shown; ".." leads to the one above |
| Thumbnail cache (`xvfs-cache.cc`, `xvfs-cache-object.cc`) | objects with a state and a pixbuf, the pool's queue | `fetch_async`, `fetch_threadfunc`, `set_state` | only the web server holds a fetch up; "cached" means that there is a picture, and the one shown is the item's |
| Main window (`main-window.cc`) | labels, buttons, images | handlers of the client's and the cache's signals | it shows the client's state |
| Preferences (`preferences-dialog.cc`) | which button is sensitive | Connect, Disconnect | Connect is offered when there is no connection |
| Requests (`requests.cc`) | none | the JSON of a request and its id | answers are dispatched by the right id |
| Time and path helpers (`util.cc`) | none | conversions | `seconds_to_short_time` prints the time `json_time_to_seconds` read |

How they interact. The worker hands each parsed document to the main loop with
an idle callback (`handle_json`), so responses are handled later than they were
read, possibly after a `disconnect()`. The main loop writes requests straight
to the socket. `disconnect()` and `handle_connect()` run in the worker and
touch what the main loop owns (flags, browser model, timers). Either thread may
be between a test of `m_stopped` and the code the test guards when the other
sets it. `disconnect()` announces itself by an idle callback of its own
(`disconnect_in_main_loop`), which the window and the preferences dialog listen
to. `refresh_player` asks the cache for a thumbnail; a pool thread changes the
object's state, and the main loop hears of it by an idle callback again.

What is hard: the interleavings of the two threads inside handlers; completions
of an aborted operation that run after a new one has begun; timers whose
cancelled waits run their handlers all the same, because these ignore the error
code; responses that cross notifications and disconnects; a buffer and a
counter that outlive the connection; refusals that undo a click; fetches that
overlap. PROJECT.json lists each such hazard at its line, with the property
that watches it or the reason why there is none.

## Modules

`FrameReader` - the byte stream. The server's bytes are kept in one sequence
(`open`, `close` and `text` bytes with the JSON nesting after each), and the
client's buffers are segments of it delimited by four cursors; the encoding is
exact since each buffer only appends what the next gives up. `Receive` is
`async_read_until`, `ReadComplete` the `readsome` of at most `ReadMax` bytes,
`LoopByte` one round of the bracket-counting loop, `LoopEnd` the next
`start_read`. `DropAndReconnect` loses the connection between two reads; as in
the code it resets none of the three members. `SendQuotedBrace` is a brace in a
string literal.

`Channel` - the abstract promise: a FIFO of messages, of which a lost connection
takes the last ones not handed over, and which promises nothing once it is
broken. `FrameReader` implements it, across connections, under the mapping of
sent messages to positions at which one ends, of delivered ones to the ends of
the segments handed to the parser, and of broken to the two ways the framing
breaks (a brace in a string, a connection lost inside a message).

`Connection` - `connect`, the endpoint loop, supervision, `disconnect`, and the
buttons that drive them. Every asio completion is an element of `ready`, the
`io_service`'s queue. A handler's test of `m_stopped` (`HandlerEnter`) and its
body (`Handle...`) are two steps, and so are the flags and the teardown of
`disconnect()` (`StopFlags`, `Teardown`) and the two halves of `connect()`
(`BeginConnect`, `Resolved`): the other thread may run in between. Closing the
socket posts the completions it aborts; setting or cancelling a timer posts the
completion of its old wait. A deadline is `armed`, then `running`, then
`passed`: two ticks, so that one may have been set anew just before. Responses
are reduced to their kind, since only the handshake depends on them; a read that
a notification or an answer to the browser completes goes on as a pong's does
and is left out.

`Heartbeat` - the durations of one connection, a tick being a second: timers
count down, and go below zero while their handler waits for its thread, for at
most `MaxLag`. Endpoints hang, refuse, or succeed in the moment they are timed
out; the server dies, or answers a ping within `MaxDelay`. That `check_deadline`
runs whenever the deadline has passed is what `Connection` shows of a session
which `start()` began.

`Session` - one session as the main loop sees it: a server with a player and a
playlist, requests and messages under way, the client's mirror, the window. One
action per message id of `handle_json_idle`. A message carries a snapshot of
the server at the time it was said, of which each handler reads its part. The client's other requests are told apart
by what the player does with them: those that change it (stop, pause, skip, play),
the keys of the remote (`ClickRemote`, one of which may start a film), and those of
the playlist; `ServeSilently` is what is answered and changes no player. A player plays at speed 1 or is paused at 0.
`OtherPlayerChanges` is a notification of a music or picture player: `client.cc`
247 does not look whose it is. `foreign` remembers that one came and nothing of
player 1 after it. A worker past its test of `m_stopped` may hand over messages
after `disconnect()` queued its callback, so `Teardown` puts that anywhere. The
auto-seek timers are kept as a set of live sources beside the one connection
object `m_autoSeekConnection`, so that a second one would show.

`Progress` - the time of the film: the server's position on a clock of
`SECOND` ticks, the seconds `auto_seek_timeout_handler` adds, the answers that
set them right, and what `m_progressLabel` and `m_progressScale` show. It has
the two conversions of `util.cc`. `late` adds up by how much the timeout came
late, `sought` remembers a seek the client was not told of.

`Browser` - breadcrumbs move with the click, rows with the answer; `requests`
holds what lies between. `handle_connect`'s breadcrumb and its button are two
steps of the worker. Two history variables name the situations in which the
breadcrumbs are known to be wrong (`astray`) and in which a user did not wait
(`hasty`). `BrowserMC` gives the directories their tree.

`XvfsCache` - objects with a state and a pixbuf, the pool, the main loop. A step
is what runs between two accesses to an object's shared fields: `fetch_async`
is `Refresh` and `Push`, a fetch is `Take`, `Store`, `SetCached` or `SetError`,
the announcement is `Emit`. While it is `Waiting` a thread is inside curl's
`perform()`. `overlapped` says of the item shown that, when its thumbnail was asked for, a
fetch of another object or its announcement was not through yet (`OnlyUnderWay`).

The `_proofs` modules hold the theorems of the module they are named after;
`ConnectionBounds_proofs` has those of `Connection` that count what is under way
and what rests on the counts. The modules are composed by assumption, not by instance: `Connection` and `Session`
take whole messages in order, which is what `Channel` says of `FrameReader`;
`Session` takes one connection, ended by a `Disconnect` that may fall anywhere,
from `Connection`; `Heartbeat` takes from it that the deadline is watched;
`Progress` takes from `Session` that there is one seek timer at most. Each module
keeps the part of the window its state is shown in.

Definitions whose name begins with `Mut` are not used by the specifications:
each is a plausible slip in the operation that follows it, and shows that the
property it is listed with would notice.

## Runs

| Run | Module | Checks | Shows |
|---|---|---|---|
| framing | FrameReader | TypeOK, CleanFraming, NothingStranded, ImplementsChannel | for every segmentation of the stream, chunk limit and nesting, and across reconnections between two messages, what is parsed are the server's messages, none skipped, and none is left buffered while the reader waits; the reader implements `Channel`, delivery included; as long as no string held a brace and no connection was lost inside a message |
| framing_strings | FrameReader | FramesAreMessages (violated) | a brace in a string breaks the framing |
| framing_reconnect | FrameReader | EveryResponseFramed (violated) | a connection lost inside a response leaves the counter wrong for the next |
| session | Connection | TypeOK, Supervised, StoppedClosed, ShownConnected, NothingHangs | one call of `connect()`: the deadline is always watched, a disconnect from either thread leaves no open socket, attempt or read behind, the window never goes on showing a dead connection, nothing waits for ever for a silent server |
| reconnect | Connection | PingsBounded, OneChainPerCall | with a second call of `connect()`, overlapping the first or not: at most one ping cycle per call, and one attempt, read or completion of either |
| unsupervised | Connection | SupervisedAlways (violated) | a second connection has no deadline |
| mirror | Session | TypeOK, OneSeekTimer, InSync, ShownInSync, HandshakeEnds, Converges | handshake, notifications of player 1 and of others, requests, refusals and a disconnect in any order: mirror and window are exact once nothing is under way and another player was not the last to speak; never two seek timers; the handshake ends or the user was told |
| follows_on | Session | ShownDisconnected (violated) | answers handled after the disconnect make `m_connected` true again and start the seek timer under "Disconnected." |
| pool | XvfsCache | TypeOK, NoFetchForgotten, PixbufPresent, PictureOfItem, FetchesReachServer | no fetch is lost however the pool and `fetch_async` race on an object; the picture is the item's unless another object's fetch overlapped its own; only a web server that stays silent holds a fetch up |
| walk | Browser | TypeOK, BreadcrumbsShown, PopsAButton, WayDown, WayBack | hasty clicks down, refused descents, reconnections: buttons, breadcrumbs, rows and ".." agree again once all is answered, and no pop finds the box without a button |
| clock | Heartbeat | TypeOK, SilenceNoticed, AttemptsEnd, OneCycle, HealthyKept, DeadServerLeft | with the program's 10, 25 and 30 seconds: the deadline never closes a connection whose server answers, a silent one is left within PING_TIMEOUT, connecting ends in time, one ping or wait at any time |
| time | Progress | TypeOK, Follows, ShownTime | pauses, seeks, items over an hour, late answers, a late timeout: how far the client's seconds are from the server's, and that the window shows them |

The four violations are findings of PROJECT.json, with the lines of the code and
of what it says of itself.

Deadlock is not checked in these runs: every bound on the environment (bytes,
clicks, connections, changes) is a guard, so a behaviour that has used them up
stops, as the program does when nobody does anything. `NothingHangs`,
`NothingStranded`, `NoFetchForgotten` and the liveness properties are what
deadlock checking would have been for.

## Bounds

- `MaxBytes` 7 holds two messages with nesting, or three plain ones; `ReadMax`
  3 makes one read hold parts of several messages and one message take several
  reads. One `MaxDrops` is enough for the counter to be carried over.
- `MaxConnects` is 1 where the property speaks of one call of `connect()`, and
  2 where calls may overlap. Three endpoints have a first, a middle and a last
  one; `MaxIdle` 2 or 3 bounds only when the user clicks Disconnect again.
- Session: `MaxChanges` 2 and `MaxClicks` 1 let two unsolicited changes, of
  player 1 or of others, and a request of the user fall anywhere in the
  handshake and in the refresh after OnPlay; one item more of either takes the
  run beyond minutes, and MirrorExact is proved for any number. One item is
  enough to tell a full playlist from an empty one; playlist 1 is the one whose
  row exists then (playlist 0 appears in follows_on, see below).
- Heartbeat: CONNECT_TIMEOUT, PING_INTERVAL and PING_TIMEOUT are the program's.
  A pong of two seconds and a second's lag of each thread leave a second of the
  five: `Slack`, the condition of HealthyKept, holds. Two endpoints have a
  first and a last one.
- Progress: half seconds tell a timeout that is on time from one that is late;
  lengths of 5 and 3601 seconds and starts shortly before the end show hours and
  the end of the range; three changes give a pause, a resumption and a seek.
- Two thumbnails and three threads let two fetches of one object overlap with
  one of another; three refreshes let an object be marked again twice.
- Two sources, one with a subdirectory, and four clicks go down twice and up
  twice; two connections put a second "sources" breadcrumb behind a path.

The proofs below have none of these bounds: the theorems hold for all values of
the constants, so for `ReadMax` = 512 and any number of bytes, too.

## Fairness

- FrameReader: the worker's four steps, each weakly fair: `io_service::run`
  goes on without pause. The server need not send anything and the
  connection need not be lost.
- Connection: weak fairness of the main loop, of the worker, and of the two
  timers, since both threads run and time passes. The user and the network owe
  nothing: a server may accept and stay silent, which is what
  `NothingHangs` is about. `Resolved` or `ResolveFails` belongs to the main loop, so
  the resolver returns, one way or the other.
- Session: the main loop and the second half of `disconnect()` run, and the
  server answers what it has got. `Converges` and `HandshakeEnds` hold only of
  a server that answers; one that does not is `Connection`'s subject.
- Heartbeat: time passes, the worker and the main loop handle what waits for
  them, and a server that lives answers a ping. How long that may take is a
  guard of `Tick`, not fairness. `DeadServerLeft` is about a server that owes
  nothing any more.
- Progress: none, its properties are safety.
- XvfsCache: the main loop runs, and each pool thread takes tasks and announces
  what it has stored. The end of a request is not assumed: `fetch_threadfunc` sets
  no timeout (`xvfs-cache.cc` 63-74) and curl has none of its own for a transfer,
  so neither `Store` nor `SetError` is fair, and `FetchesReachServer` says of a
  fetch only that it is over, or a thread waits for the server with it, or all do.

## Proofs

Checked by TLAPS for every value of the constants; the only assumptions are the
named `ASSUME`s of the modules (sizes are natural numbers, `NoPath` is no path,
`Root` and `Nowhere` are no directories), which TLC evaluates in every run.

| Theorem | Of | Says |
|---|---|---|
| FrameReader_proofs!TypeCorrect | TypeOK | the cursors are positions of the stream |
| FrameReader_proofs!FramingCorrect | CleanFraming | what is parsed are exactly the messages |
| FrameReader_proofs!NothingLeftBehind | NothingStranded | nothing complete waits in the buffer |
| FrameReader_proofs!ChannelSafe | safety of ImplementsChannel | every step is a step of `Channel` or a stutter |
| Connection_proofs!TypeCorrect | TypeOK | among others, no endpoint past the last is tried |
| Connection_proofs!FirstSessionSupervised | Supervised | until the first disconnect the deadline is watched |
| ConnectionBounds_proofs!OneChainPerCallHolds | OneChainPerCall | one attempt, read or completion of either per call of `connect()` |
| ConnectionBounds_proofs!PingsBoundedHolds | PingsBounded | one ping cycle per call of `connect()` |
| ConnectionBounds_proofs!FirstSessionClosed | StoppedClosed | `calls <= 1 =>`: once `disconnect()` is through the socket is closed and there is no attempt and no read; the waits of timers are not part of it |
| ConnectionBounds_proofs!FirstSessionShown | ShownConnected | `calls <= 1 =>`: the window does not show a dead connection |
| ConnectionBounds_proofs!CleanReconnectsClose | StoppedClosed | the same of any number of connections, each begun at rest (`CleanStep`): socket, attempt and read |
| ConnectionBounds_proofs!CleanReconnectsShow | ShownConnected | likewise |
| ConnectionBounds_proofs!CleanReconnectsAlone | | likewise: one chain and one ping cycle in all |
| Session_proofs!TypeCorrect | TypeOK | queues, mirror and window are well-typed |
| Session_proofs!SeekTimerUnique | OneSeekTimer | never two seek timers |
| Session_proofs!MirrorExact | InSync | with nothing under way, the client not stopped and player 1 the last to speak (not `foreign`), the mirror is exact |
| Session_proofs!WindowFollows | ShownInSync | and buttons and image follow it |
| XvfsCache_proofs!TypeCorrect | TypeOK | |
| XvfsCache_proofs!FetchesKept | NoFetchForgotten | when all fetches are done no object is marked "fetching" |
| XvfsCache_proofs!FetchPending | | in every state an object marked "fetching" is about to be pushed, queued or with a thread |
| XvfsCache_proofs!CachedHasPixbuf | PixbufPresent | `scale()` finds a picture |
| XvfsCache_proofs!PictureIsItems | PictureOfItem | at rest a cached item's picture is shown, unless a fetch of another object, or its announcement, was under way when the item's was asked for |
| Browser_proofs!TypeCorrect | TypeOK | |
| Browser_proofs!BreadcrumbsFollow | BreadcrumbsShown | breadcrumbs, buttons, rows and ".." agree |
| Browser_proofs!ButtonPopped | PopsAButton | no pop finds the box without a button |
| Browser_proofs!BreadcrumbsDescend | WayDown | a patient user's breadcrumbs are a way down from the sources |
| Browser_proofs!AlwaysAWayBack | WayBack | every directory listed has its ".." row |
| Heartbeat_proofs!TypeCorrect | TypeOK | |
| Heartbeat_proofs!LiveConnectionKept | HealthyKept | with PING_INTERVAL, twice the lag and the delay below PING_TIMEOUT a live connection is kept |
| Heartbeat_proofs!SilenceFound | SilenceNoticed | a silent server is found out in PING_TIMEOUT and a lag |
| Heartbeat_proofs!ConnectEndsInTime | AttemptsEnd | each endpoint has CONNECT_TIMEOUT and two lags |
| Heartbeat_proofs!HeartBeatsOnce | OneCycle | exactly one ping, pong or wait |
| Progress_proofs!TypeCorrect | TypeOK | |
| Progress_proofs!WindowExact | ShownTime | label and scale show the client's two times |
| Progress_proofs!CountFollows | Follows | how far the client's seconds can be from the film |
| Progress_proofs!TimeRoundTrip | | XBMC's times survive both conversions of `util.cc` |

The inductive invariants (`IInv` of each module or its proofs), and why the
properties alone are not enough:

- FrameReader. That a parsed segment is a message says nothing of the one being
  collected. `CounterFollows` does: the counter is the server's nesting at the
  byte last looked at, and the document being collected starts at an end and
  holds none. It needs `WellNested` (each byte changes the nesting by what it
  is counted for, the server's half of the argument; false once a string held a
  brace, hence `clean`) and `CursorsOrdered`. For `NothingStranded` one more
  step: an end behind `pos` would be a closing brace in the input buffer, which
  is what `async_read_until` waits for. ChannelSafe uses the same invariant:
  a segment handed over ends at the first end not handed over yet, and a
  connection lost between two messages loses ends behind all parsed ones.
- Connection. The deadline is watched by a wait or by a completion in the
  worker's queue. Setting the deadline turns the first into the second; every
  handler but `check_deadline` takes another completion than that off the
  queue, for which it must be known that there is one: `HeadPresent`, while the
  worker runs a handler its completion is the head of `ready`.
- Connection, counts. OneChainPerCall alone forgets the name being resolved, and
  PingsBounded the attempt that will send the first ping. `ChainTotal` and
  `CycleTotal` add these, so that every step takes one thing of a cycle and adds
  at most one; `StepTotal` counts in the same way what carries the handshake: an
  attempt, a request, its answer in either queue, and the connection shown for it.
  `Within(max)` bounds the three, and only `BeginConnect` raises `max`.
- Connection, what stays after `disconnect()`. A handler past its test of
  `m_stopped` must not connect or show anything. With `Within(1)`, when Disconnect
  can be clicked the handshake is over, so the handler running beside it is a
  pong's, a ping's, an error's or the deadline's (`RunsNoStep`), and whatever will still show
  the connection lies in front of the "gone" that takes it back (`GoneLast`,
  `WillBeGone`). For a further connection all totals must be back at 0. That takes
  `Rest`: both threads through, no heartbeat waiting, `m_connected` false; and, while the
  name is resolved, that only the deadline can run (`Fresh`). `Rest` is how a session
  ordinarily ends, at the latest when its last ping has found the client stopped;
  where it fails is told below.
- Session. The exact mirror is a statement about the messages under way. With
  `Snapshots` (the last notification or snapshot under way, if there is one,
  says what the player is now), `Caught` and `WillRefresh` say: the mirror
  agrees already, or a message that will make it agree is under way, or a
  request whose answer will. `Covered` carries that past the notifications of
  other players: unless `foreign`, each has behind it a notification or
  properties of player 1, so it is never the last to be believed. `ClosingStopped` and `OneSeeker` (the one live
  source is the one `m_autoSeekConnection` holds) carry the timers.
  `WindowSynced` is the same argument for the window: it shows `m_state`, or the
  refresh that will make it do so is under way.
- XvfsCache. `AllPending`: an object "fetching" is in the queue, about to be
  pushed, or with a thread. A thread that finishes an object which was
  marked again meanwhile takes the mark off, so a task that finds it not
  "fetching" loses nothing. `StoredPresent`: a thread that is about to say
  "cached" has stored the picture. `Shown`: unless the item's fetch began beside another object's,
  tasks, threads and announcements are all of the item that plays, and a picture
  that is cached and not shown has its announcement queued.
- Browser. As long as nothing led astray, the breadcrumbs end with the
  listing's path followed by the paths of the pending requests, in order
  (`PendingLast`, `ListingOld`), a pending ".." is the only request
  (`UpFirst`), the ".." row is the last but one before the pending ones
  (`ParentOld`), and the buttons lack at most the one breadcrumb
  `handle_connect` has not shown yet (`BarFollows`). For ButtonPopped `UpRow`
  adds that a ".." row has a breadcrumb to leave and one to go back to, so that
  a pop meets two breadcrumbs or one whose button is there. `Ways` follows the
  breadcrumbs themselves: a click adds a row of the listing, which is the last
  breadcrumb if the user waited; answers add none, and refusals take off the last.
- Heartbeat. The deadline says only how long ago the last read began. `Cycle`
  says where in the cycle the connection is (a wait for the next ping, a ping, a
  pong queued) and bounds, in each part, the silence by what has passed of it:
  together they bound the deadline from below. `TimeSpent` shares the time of
  `connect()` among the endpoints tried.
- Progress. `NoItemNoTimes`: without an item ever active the label is empty, so
  that `refresh_player` leaves no older time. `FollowInv` is what bounds the count.
  The messages under way are `InOrder` with the server: an answer tells of the
  player that the message before it told of, and the last one of what is so now. So when the timeout runs, the player plays or the client
  will hear otherwise (`SeekerPlays`), and when the player plays and nothing
  under way says so, the timeout runs. The last answer under way is as old as it
  has travelled (`AnswerRecent`); once it is read, a second counted is a second
  passed, but for the lateness that `late` adds up (`CountRecent`). The round trip is arithmetic on
  quotients and remainders by 60 and 3600.

Only model-checked: all liveness properties (TLAPS proves neither liveness under
fairness nor ENABLED), that is NothingHangs, the delivery in ImplementsChannel,
HandshakeEnds, Converges, FetchesReachServer and DeadServerLeft. Every
safety property of the passing runs is a theorem; StoppedClosed and ShownConnected
under the conditions named, without which they are false. No module uses a
RECURSIVE operator.

## Where the code falls short

Shown by a run (findings in PROJECT.json):

- Brackets are counted inside JSON strings too, so a title with a brace breaks
  the framing (framing_strings).
- `m_bracket_counter`, `m_json_stream` and `m_input_buffer` survive a
  disconnect: after a connection lost inside a response the next one never
  completes a document (framing_reconnect).
- Only `start()` waits on `m_deadline`, and `check_deadline` stops for good at
  the first disconnect: later connections have no timeout (unsupervised).
- Responses queued before `disconnect()` are handled after it: under
  "Disconnected." `m_connected` becomes true again, so that preferences opened
  then offer Disconnect, and the seek timer starts again (follows_on).

Noticed while modelling, visible in the model, claimed by no document and so not
a finding:

- Two overlapping calls of `connect()` (Connect stays sensitive until the
  handshake is over) share one socket: StoppedClosed and ShownConnected fail, which
  is why their run uses one call.
- So they do when the second call overlaps nothing but a leftover of the first
  connection. `handle_ping` does not look at `m_stopped`: a pong handled after
  `disconnect()` starts the heartbeat again, and its ping, due while the new name
  is resolved, fails to be written and stops the client, whose attempt then opens a
  socket nobody closes. And `m_connected`, made true again by a late answer
  (follows_on), lets Disconnect be clicked in mid-handshake. `CleanStep` in
  ConnectionBounds_proofs excludes overlapping calls and these two leftovers; the
  theorems named CleanReconnects say that there is no third.
- `requests.cc` 140 sends `Playlist.Clear` under the id of `Playlist.Add`; both
  are answered alike, so nothing comes of it.
- `get_active_iter` takes the playlist's number minus one for a row; with
  playlist 0, or too few rows, `refresh_player` reads an invalid iterator
  (label `invalidIter`).
- `on_client_stop` writes "Stopped." and `refresh_player` overwrites it at once.
- Breadcrumbs: a refused ".." pops twice; browser rows work without a
  connection, moving breadcrumbs while the request is dropped; breadcrumbs are
  not cleared by a new connection, which adds another "sources" behind them.
- A click on ".." while `handle_connect` is between a breadcrumb and its button
  can, after another ".." in haste, pop with no button left: `children.back()`
  of an empty vector. PopsAButton says that it
  takes one of the events that lead astray.
- What another player announces (music under pictures, say) is taken for
  player 1's: its stop says "Stopped." of a film that plays, until player 1
  is next heard of.
- PING_INTERVAL runs from the handling of a pong in the main loop, so
  whatever keeps the main loop busy eats of the five seconds that are left.
- A stop leaves the times in the progress label: `refresh_player` writes them
  again after they were cleared. Seeks are not noticed before the next OnPlay.
- `scale()` keeps the picture scaled first when the thumbnail is fetched again.
- Overlapping fetches of two objects: the picture that comes last stays, whichever
  item plays.
- A web server that accepts and stays silent keeps an object "fetching" for ever,
  and a thread with it; three such, and no thumbnail is fetched any more.
- A player that rewinds has a negative speed, which `client.cc` 301 takes for a
  pause; one that winds forward is counted at a second per second.
- After `disconnect()` a wait of a timer may remain: a pong handled late begins one
  of PING_INTERVAL, at whose end the ping is not written, the client being stopped.

## Not modelled

- Speeds of a player other than 0 and 1: Session and Progress say nothing of
  winding (above).
- In Connection, reads ended by notifications (`client.cc` 245-254) and by answers
  to the browser (169): the loop reads on as after a pong.
- What becomes of a request that names player 1 while another plays is XBMC's:
  refused, or answered empty, as `Session` has it.
- Memory: `async_write` on a local string, torn reads of shared fields, handlers
  bound to deleted buttons of a preferences page, `~Client` beside a running
  worker. These are undefined behaviour of C++; the model takes a write as sent
  or failed, and leaves out changing the page while the connection changes.
- Ends of the program: an exception of the resolver ends the main thread
  (`ResolveFails`), one of the decoder is left out.
- jsoncpp, GTK, asio, curl: external. A document parses or does not; a
  completion comes in the order in which it was posted.
- Drawing (cell renderers, `.glade`), the schema, the build system: no behaviour.
- `util.cc` beside the two conversions: a file name and a settings object. The
  width of `int` and `long`: items of more than 2^31 seconds do not exist.

## Plan

Done, in this order, the most important behaviour first: FrameReader and Channel;
Connection; Session; XvfsCache; Browser; the type invariant of each and the
safety properties in the table above as theorems; then the refinement of
`Channel` across connections and its proof, other players in Session, Heartbeat
and Progress with their proofs, the chains of reads in Connection, the pops of
breadcrumbs.

Then the remaining safety properties as theorems: the counts of Connection and the
end of its sessions, one or many; the window of Session; the count of Progress;
the ways of Browser; the picture of XvfsCache.

Next, proofs:

1. Of the refused "..": what the breadcrumbs are after it, so that Browser's
   `astray` covers one event less.
2. In FrameReader, the finding framing_reconnect for all values: how far the counter
   is off after a connection lost inside a message, and that whole messages never
   bring it back.
3. In Session, the mirror while another player speaks: which of its fields stay
   exact although `foreign` holds.

## Running it

    tlc -config FrameReader_framing.cfg FrameReader
    tlc -config Browser_walk.cfg BrowserMC
    tlapm FrameReader_proofs.tla
    tlapm ConnectionBounds_proofs.tla

and likewise for the other `<module>_<run>.cfg` (`disconnected` of Session is the
run follows_on). The longest run (reconnect, four million states) takes a few
minutes; the others less.
