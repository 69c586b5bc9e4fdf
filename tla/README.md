# A TLA+ verification of BigNetScreen

BigNetScreen casts a computer's screen, or files on it, to the receivers of a
local network. A session service (`bignetscreend`) owns discovery and
transmission; a GTK window and external media players are its D-Bus clients.
Around ten protocol crates talk to Chromecasts, DLNA televisions, Miracast
receivers, browsers and NDI, over connections that are lost and late.

This directory holds TLA+ modules of the parts whose correctness depends on the
order in which things happen, the configurations that let TLC check them on
small instances, and proofs of their main properties for every value of the
constants.

    tlc -config SessionCast.cfg MCSessionEngine      # model-check one run
    tlapm SessionEngine_proofs.tla                   # check one module's proofs

## 1. Inventory

What the system is made of, what each part remembers, what it does, what makes
it hard, and what has to hold.

| Part (sources) | State | Operations | Hard because | Correct when |
| --- | --- | --- | --- | --- |
| **Session engine** (`nd-service/src/engine*`, `cast.rs`) | the receivers found, the session and its owner, the published status, the cast task, the file session, the player's token, the pending sound card change | begin a cast, send files, control, stop, rescan, take preferences, discovery events, tick, shutdown | a cast is a task of its own that reports back through a channel; its end races stops, new scans, preferences and shutdown | one session at a time, one owner, every stop is carried out, nothing is created after shutdown |
| **Cast mirroring track** (`nd-chromecast/src/flow.rs`, `mirror_session/`) | the acknowledgement window, the frames kept for repair, the repairs asked for, the key frame request | send a frame, take feedback, repair, force a key frame | frame ids are one byte on the wire; UDP loses, repeats and delays; a reader thread and a worker share the window | no id is taken for another frame's; every frame that may still be asked for is kept; video starts again after a gap |
| **Preferences** (`nd-core/src/settings.rs`, the window's pages, `dbus.rs`) | the window's copy, the file, the service's cached copy, the engine's copy | edit, delayed save, save before a call, reload, toggle | four copies in two processes, blocking writers, a cache that is cleared and filled again | no save goes back, a cast has the edits made before it, everything agrees once quiet |
| **Cast control channel** (`nd-chromecast/src/cast/`) | the frame writer, the requests waiting, the reader and the heartbeat, the launched app | connect, launch, request, stop the app, close | three writers of one stream that may stall at half a frame; the television answers late, closes by itself, or needs its heartbeat while it is being stopped | a session reported as stopped is gone; nothing follows the last frame; nobody waits for a reader that has ended |
| **Cast mirroring session** (`mirror_session/mod.rs`, `mirror/`) | the pipeline, the tracks' threads, the negotiated streams | negotiate, stream, first outcome wins | two threads, the pipeline's bus, the television and the user can all end it | the first failure is the outcome, all threads are joined |
| **Cast HTTP path** (`session/`, `nd-core/src/stream_server*`) | the sockets served, attendance, the drain's playback rate | admit a client, hand over its socket, measure the delay | GStreamer's threads call back while the server accepts | at most one stream, a refused client gets nothing, the rate returns to one |
| **File playback** (`nd-chromecast/src/media/`, `file_server.rs`) | the queue, the latest seek and volume, playback state | play, next, seek, volume, stop | commands are coalesced, the television's reports are late | the last command wins, the end is reported once |
| **D-Bus service** (`dbus.rs`, `wire.rs`, binaries) | owners of players, the idle deadline | start and control a player, signals, exit when idle | clients vanish; the deadline races a new session | a player's session ends with its owner; no exit under a session |
| **Window** (`nd-gui`) | the state last read, the pending edit, the connection | follow the service, reconnect, flush | subscription against first read, a service that restarts | the window shows what the service has |
| **DLNA** (`nd-dlna`) | known renderers, the session slot, pause state | sweep, describe, start with retries, pause, stop | renderers open, drop and retry connections | a paused television is not abandoned, an old session clears only its own slot |
| **Miracast** (`nd-wfd`) | the RTSP state | the M1-M7 exchange, keepalive, retries | a receiver's requests interleave with ours | no stream before PLAY, silence ends it |
| **Wi-Fi Direct, firewall** (`nd-net`) | the group, the open ports and their record | form a group, open ports, release, recover | activation is polled and cancelled; a crash leaves ports open | what was opened is closed, and nothing else |
| **Browser sharing** (`nd-webrtc`) | failed attempts per address | check a PIN, forward | slow bodies in parallel | the lockout holds |
| **NDI** (`nd-ndi`), **capture** (`nd-capture`), **pipelines** (`nd-core/src/pipeline`) | plugin and compositor sessions | start, stop | outside libraries | resources are released |
| **Discovery providers** (`nd-core/src/meta.rs`, mDNS) | streams of events | merge, deadline | providers hang | one does not block the others |
| **Stores** (`persistence.rs`, `identity.rs`, `secret.rs`) | files | replace a file whole | crash between steps | a file is old or new |

How they interact: the window and players call the service over D-Bus; the bus
object turns a call into a command on the engine's queue and answers when the
engine has; the engine spawns a cast task, which selects a capture backend and
awaits the receiver's `start_stream`; the receiver's sink runs a control channel
and either the mirroring session (RTP from two threads, feedback from a third)
or the HTTP path; everything that ends returns through the cast task to an event
on the engine's second queue, and the engine publishes a snapshot that the bus
object turns into property changes. Preferences go the other way: the window
writes a file, and asks the service to read it again.

### Hard behaviours, in short

`PROJECT.json` lists them at their lines. They come in five kinds:

- **A task that outlives its command.** Stop only signals; the cast task, the
  file session and the tracks' threads end later, and the engine is asked for
  something new in between.
- **Shared state that is looked at twice.** The window of unacknowledged frames
  (worker and reader), the preferences cache (bus calls and engine), the frame
  writer (session, reader, heartbeat).
- **Names that come round.** One-byte frame ids, request ids that other senders
  use as well, scan generations, player tokens.
- **Limits.** 120 unacknowledged frames, 64 NACK batches, 128 events, 512
  receivers.
- **A television that is not ours.** It refuses, is silent, is switched off, is
  used by somebody else, or answers after the question was given up.

## 2. What is built

| Part | Modules | Followed in the run | Proofs |
| --- | --- | --- | --- |
| Session engine | `SessionEngine` | `SessionCast`, `SessionStops` | `SessionEngine_proofs` |
| Cast mirroring track | `MirrorTrack` | `Mirror` | `Mirror_proofs` |
| Cast mirroring session | `MirrorSession` | `Mirror` | `Mirror_proofs` |
| Preferences | `Preferences` | `Desktop`, `ReloadsCross` | `Desktop_proofs` |
| Window, options, service life | `Window`, `OptionsPanel`, `ServiceLife` | `Desktop` | `Desktop_proofs` |
| Cast control channel | `CastControl` | `CastControl` | `CastControl_proofs` |
| File playback | `MediaSession`, `FilePlayback`, `MediaFiles`, `FileServer` | `Playback` | `Playback_proofs` |
| Streams over HTTP | `StreamServer`, `DlnaSession`, `CastHttpSession`, `HttpStream` | `Pipelines`, `HttpDrain` | `Streaming_proofs` |
| Miracast | `StreamTask` (abstract), `WifiDirect`, `Firewall`, `WfdRtsp`, `Miracast` | `Miracast`, `FirewallForgets` | `Miracast_proofs` |
| Browser sharing | `FrontDoor` | `Network` | `Network_proofs` |
| Providers, simple sinks, UPnP | `DlnaProvider`, `WfdProvider`, `MdnsScan`, `Sinks`, `UpnpClient` | `Network` | `Network_proofs` |
| Capture and pipelines | `Capture`, `WfdModes`, `EncoderChoice`, `DecodeBuffer`, `PipelineBus` | `Pipelines` | `Streaming_proofs` |

Three ways of putting modules together are used.

- **Composition of one system.** `HttpStream` conjoins the serving task, the
  DLNA session and the Cast session, which share the socket, its attendance and
  the cancellation. `Miracast` conjoins the group, the ports and the RTSP
  session: one `cast::run` walks through all three and undoes them.
  `FilePlayback` puts the page before the session, `MirrorSession` the threads
  over the modes.
- **An abstract specification.** `StreamTask` is what a `Sink` promises whoever
  casts to it, and the `KeepsPromise` of `Miracast` is `StreamTask!Spec` under
  the mapping `running <- ses.at # "idle"`, `told <- cancel /\ ses.at # "idle"`,
  `shown <- status`. `SessionEngine` relies on the same promise when it lets a
  cast task run, fail and report as it likes but end when it was cancelled.
- **Several modules in one run.** The MC modules `MCDesktop`, `MCMirror`,
  `MCPlayback`, `MCNetwork` and `MCPipelines` extend modules that share no
  state. Their `Init` picks one `part`, whose next-state relation alone moves;
  the others keep one initial state. The runs therefore take the sum of the
  state spaces and not their product, and nothing is claimed of the
  interleaving of two such parts: they meet only in values that each leaves
  open (an edit, a snapshot, a mode, a queue).

## 3. The modules and the code

A module's comment names its files and `PROJECT.json` maps each definition to
its lines.

### SessionEngine

`nd-service/src/engine.rs`, `engine/session.rs`, `engine/discovery.rs` and
`cast.rs`. The engine is one Tokio task that handles one command, one event or
one tick at a time, so each of these is one action, with the refresh and the
`reconcile_audio` that follow it. The record `e` has the fields of
`struct Engine`; a handler is an operator from the record before to the record
after (`CastBegun`, `Reaped`, `Rescanned` ...), and `Turn` closes the step as the
run loop does.

| Model | Code |
| --- | --- |
| `e.active_cast`, `active_sink`, `cast_cancel`, `media_*`, `status`, ... | the fields of the same names |
| `e.serial` | what tells sessions apart in the code: the identity of the cancel channel and the random token of a player |
| `tasks[s]` | one `cast::run`, from its creation through NDI check, sound card, backend, capture, `start_stream`, `stop_stream` and the backend's stop to `CastFinished` |
| `timers`, `probes` | `SearchTimedOut` tasks and link probes whose answer is under way |
| `Command` | the arms of `Engine::handle_command` |
| `Event` | the arms of `Engine::handle_event` |
| `Tick` | the poll tick: link, file session, idle |
| `Shutdown`, `ClosingTick`, `Close`, `Abandon` | `finish_shutdown` and its sixty seconds |
| `phase = "abandoned"` | the process exits with a session that did not end |

Events may come in any order between the two queues, which `select!` allows.
Sinks are opaque (`Arcs`): what matters is which object a row and the session
hold. File sessions have a handle that runs, stops, or has ended in one of three
ways. A cast's `start_stream` may return at any time, with or without an error,
and is not assumed to return unless it was cancelled. Left out: the list of
provider issues, the virtual screen flag, the clients' keepalive stamp.

### MirrorTrack

`flow.rs`, `rtcp.rs` and `mirror_session/` of `nd-chromecast`: one track, audio
or video. The worker thread goes round its loop (`Turn`, `Pull`, `Send`, `Push`),
with a step of its own wherever it takes or leaves the window's lock, so the
reader thread (`Deliver`) comes in between. Frames are numbered without end in
the model and named by their remainder on the wire, so a property can say which
frame was *meant* (`Datagrams.nacks`, `cp`) and which the code *took*
(`Expanded`, `Matches`). The network keeps, repeats, loses and reorders
datagrams.

Where no reference time comes with a report (a plain RTCP receiver report) the
code tells old from new only by the checkpoint's expansion. No code could do
more with that message, and it is enough while fewer frames go by than the
cycle less the window: `OnTime` and `LifetimeAssumption` state that bound, with
136 frames (2.2 s of 60 frames per second) for the code's constants. Left out:
sender reports, rate control, pacing, packet formats.

### MirrorSession

Its first part (nd-core `pipeline/stream_config.rs`, nd-chromecast
`mirror/answer.rs`, `mirror/mod.rs`) has no state: it is the arithmetic that
chooses a size, a rate and a bitrate from the captured screen, the preference,
the receiver's limits and the pacer. The second (`mirror_session/mod.rs`,
`worker.rs`) is the task that negotiates with it and streams: `at` is where the
task is, `thread` each track's thread and the feedback reader, `cause` what
ended the session first (`SessionSignals`), `prepare` the blocking preparation
of a file, which runs on its own thread and cannot be interrupted. What a thread
does with frames is `MirrorTrack`'s.

### Preferences

`nd-core/src/settings.rs` runs in both processes. In the window: `Edit`,
`TimerFires`, `Press` (`call_with_settings`), and for each call a job that takes
`WRITER`, reads the newest copy, writes, and asks the service to reload. In the
service each reload is three separate steps on a blocking thread (`Clears`,
`Checks`/`Reads`, `Stores`), and so is the engine's own at the beginning of a
cast, which takes what it reads without comparing it (`CastStarts`). Preferences
are the discovery toggle, which both sides change, and the number of the last
edit, for everything else. `discovery` is what discovery last ran under, with a
history flag, `missed`: a cast has taken over preferences that no handled change
has acted on yet.

### OptionsPanel, Window, ServiceLife

`OptionsPanel` (nd-gui `pages/options.rs` and the parts of `app/` and of the
settings and media pages it exchanges messages with): four components with a
queue each. A tile sends a message whenever it becomes active, whoever made it
so, and a message for the value the panel already holds changes nothing. That an
echo is always such a message (`EchoChangesNothing`, after `options.rs:125`) is so
while the person waits for the panel; two picks it has not taken yet make it go
back and forth between them. No run checks this: it is a remark, and what the
runs check and `QuietAgrees` proves is that whenever it comes to rest, all agree.

`Window` (`app/service_link.rs`, `app/mod.rs`, the emitter of the service):
`told` is the emitter's last published state, `owed` what it has still to
signal, `bus` the signals under way, `link` and `read` the follower, `mail` the
commands for the model, `view` what is drawn. Unless `Flicker` is TRUE a
property does not change and change back before the emitter has looked (it is
awake within microseconds, a session lasts seconds); with it, a change and its
undoing may be seen as none.

`ServiceLife` (`dbus.rs`: `idle_after`, the player's calls): time is a tick of
the window's heartbeat, the grace is counted in ticks, and everything else is
done in less than one.

### CastControl

`nd-chromecast/src/cast/mod.rs`, `cast/writer.rs`, the session functions
`mirror_session::run` and `session::run_with_video`, and `start_stream` with its
fallback.

| Model | Code |
| --- | --- |
| `task.pc` | where `start_stream` is: connecting, writing a frame (`sending`), after it (`sent`, `unsent`), streaming (`running`), about to STOP, to CLOSE, returned |
| `task.frame` | the frame it writes, or whose reply it awaits |
| `writer.lock`, `closed`, `closing` | the stream's mutex and the two flags of `ControlWriter` |
| `writer.said` | a record of the frames that mark the teardown, for the properties |
| `reader`, `ping` | `reader_loop` (and the PONG it is writing), `heartbeat` |
| `pending`, `events` | the map of waiting requests, the bounded events channel |
| `wire`, `inbound`, `receiver` | the connection, both ways, and the television |

`WriteBegins`, `WriteEnds` and `WriteFails` are `ControlWriter::write` cut where
it awaits; between them any other task moves. Left out or simplified:

- a task whose wait for the lock times out before the holder's write does: the
  holder asked first, with the same two seconds;
- LOAD and the media status requests of the HTTP path: to the teardown they are
  ways in which the stream ends (`StreamEnds`);
- messages that arrive after the reader ended: nobody reads them;
- a second `start_stream` of the same sink, which `SessionReservation` refuses.

### MediaSession, FilePlayback, MediaFiles, FileServer

`MediaSession` (nd-chromecast `media/mod.rs`, `cast_queue.rs`, `upnp_queue.rs`,
`decoded_queue.rs`): a task, its command slot where seeks add up and the last
volume wins, the queue, and a receiver whose reports come late; `mode` says who
plays the items (`cast`, `upnp`, `decoded`). `FilePlayback` adds the
page of the window that made the queue and follows it by published status only.
`MediaFiles` (`media.rs`, `file_server.rs`, the engine's choice of the way a
queue goes) reads the files one after the other while they may be written over.
A file that is written over after it was judged is `touched`, and nothing is
claimed of what it has become: the code opens it as it is and does not look
again; of its bytes, `TransfersAreSound` speaks.
`FileServer` (`file_server.rs`) serves ranges of a file that may change, shrink
or vanish, to one receiver, on at most `Limit` connections; a byte is its offset.

### StreamServer, DlnaSession, CastHttpSession, HttpStream

`StreamServer` (nd-core `stream_server.rs`): the task that accepts and hands
sockets over, the sink's thread that feeds and removes them, and the attendance
between them, keyed by a descriptor the system gives out again. `DlnaSession`
(nd-dlna `lib.rs`, `session.rs`): the slot of the running session, the handshake
and its attempts, the polls, pauses from both sides. The slot is free as soon as
its session was told to stop, so the next may begin while the earlier one still
builds, serves or ends: `old` holds those sessions, each at its own step, and
they write over the status and the renderer they share with the next (`OldTask`).
`CastHttpSession` (nd-chromecast `session/`):
LOAD, and the drain of the receiver's buffer, whose probe holds the session's
whole loop. `HttpStream` is their composition, for a screen or a file to DLNA
and a Cast session.

### WifiDirect, Firewall, WfdRtsp, Miracast

`WifiDirect` (nd-net `p2p/group.rs`): NetworkManager's activation may appear, get
an address and vanish at any time; the code asks, polls, tears down and tries
again. `Firewall` (`firewall.rs`): each call to firewalld is a step that may be
refused, `record` is the file on disk, and a process of its own (`boot`) sweeps
what an earlier run left. `WfdRtsp` (nd-wfd `rtsp/`): what is awaited and agreed,
the keepalive and the negotiation's timer. `Miracast` (nd-wfd `lib.rs`) is the
cast: group, ports, connection, stream, and back; the process may die between
any two steps and start again.

### FrontDoor, the providers, Sinks, UpnpClient

`FrontDoor` (nd-webrtc): one publication at a time; a PIN request is judged after
its body has been read, by a guard per address and one for all. `DlnaProvider`
(nd-dlna `ssdp.rs`), `WfdProvider` (nd-wfd `lib.rs`, nd-net `P2pDevice`) and
`MdnsScan` (nd-chromecast `lib.rs`, nd-core `meta.rs`, the engine's reader) find
receivers on a network that loses and delays. `Sinks` is `stream_until_cancelled`
of `cast.rs` over the mDNS, NDI and dummy sinks with the `SinkStatus` they share.
`UpnpClient` (nd-dlna `upnp.rs`) reads an answer piece by piece from a device
that may declare a wrong length, close, or hold the connection open.

### Capture, WfdModes, EncoderChoice, DecodeBuffer, PipelineBus

`Capture` (nd-capture): the requests to the compositor, each of which may fail,
reads of the layout included, and GNOME's layout, which Mutter resets whenever
the set of monitors changes. The arrangement comes back wherever a cast ends, is
cancelled or fails, except in the cases TLC shows when `LayoutKept`'s hypotheses
are dropped: the monitors changed under the cast (`replugged`); Mutter would not
say or take the layout, or the portal made the extra screen, which nobody lays
out (`unkept`); or `start`'s own close was cancelled after it had taken what it
restores (`cutShort`, `mutter.rs:549`). Where only the reading at the stop fails
(`mutter.rs:553`), the layout of the start is put back, and an arrangement made
meanwhile is not. A monitor plugged in while the extra screen is created, or
connectors that could not be listed, may make it stream another one
(`display_config.rs:383`), hence the hypotheses of `StreamsTheExtraScreen`.
`WfdModes` (nd-wfd `rtsp/capabilities.rs`): parsing the sink's M3 answer, the
choice (of equals, `max_by_key` keeps the last of the table and
`min_by_key` the first: `LastOf`, `FirstOf`), and the M4 as the sink reads it. `EncoderChoice` (nd-core
`encoder_selection.rs`, `encoder.rs`, nd-wfd and nd-webrtc's use): candidates in
order, tried, kept open or closed. `DecodeBuffer` (`decode_buffer.rs`): the SPS
rewritten bit by bit; `MCPipelines` has a writer of SPSs from their fields, and
the rewriting is compared with it. `PipelineBus` (`pipeline/mod.rs`):
end of stream through pads, synthetic tracks, a bounded channel, and the latency
recalculation on threads of its own.

## 4. The runs

| Run | Asks | Instance |
| --- | --- | --- |
| `SessionCast` | is what the service says of a session so; does any step take it back | two sessions, a receiver, NDI, two players, both settings of the card |
| `SessionStops` | is every stop carried through, and the shutdown | one session, a restart of discovery, fair scheduling |
| `Mirror` | are frame ids, repairs and the window right when datagrams are lost, overtaken, repeated and late; is a session's success earned and everything joined; do picture and session go on | cycle 4, window 2, inbox 1; two reports and two datagrams under way, with and without reference times, four frames; for progress, one datagram and six frames; a session with four different ANSWERs |
| `Desktop` | do preferences, options, the window's view and the service's life agree across processes | calls one at a time: three edits, two casts; two calls at once: two edits, one cast, one toggle; two picks, one connection lost, grace of three ticks |
| `CastControl` | is the end of a control connection orderly, and does it come | queue of one event, one PING or unasked message, both attempts |
| `Playback` | does the receiver play what is shown, and can it; is what is announced sent | three items, one command slot, files that change, two connections and a foreign one |
| `Miracast` | is everything taken given back; does silence end it; is the `Sink`'s promise kept | two ports, one of them perhaps the user's, a disk that fails, one refusal, two connections and attempts, one crash |
| `Network` | the browser's door, the providers' lists, the sinks' outcomes, the UPnP client | two browsers, two renderers, a Miracast receiver, two mDNS devices, two polls, seven framings of an answer |
| `Pipelines` | is the desktop given back, does the sink read the mode picked, does the encoder work, is the buffer stated, is the end heard; does a stop reach the HTTP session that runs, is a hand-over repeated only when it must | two restores, two edits of the layout, one monitor plugged, seven bitmaps, three encoders, two frames, a channel of two; one socket, and one session of a file or a Cast stream, or of a screen with two attempts, or two of a screen |
| `HttpDrain` | drain.rs line 117, **violated** | one socket, two sessions, two attempts |
| `ReloadsCross` | ARCHITECTURE.md line 50, **violated** | two calls, two edits, one cast |
| `FirewallForgets` | firewall.rs line 286, **violated** | two ports, two refusals, two casts |

What the properties say is written above each in its module; several are
conjunctions of named parts. The passing runs show that they hold in every
interleaving of their instance, and every one has a variant of the code
(operators named `Something_Variant` beside the definition they change) under
which the same run finds a counterexample.

### Bounds, and why they are enough

- `SessionCast` has two sessions because the hazards of the engine are of one
  that is ending against one that begins; a third adds no new pair. It does not
  restart discovery (`MaxGenerations = 0`), but withdraws it, so that events of
  an ended scan still come. `SessionStops` restarts it. The theorems are for any
  number of either.
- `WireCycle = 4`, `MaxUnacked = 2`, `NackInbox = 1` keep the relation of 256,
  120 and 64 (the sum of the last two is less than the first), and six frames go
  round the cycle once and a half. What a track believes of its receiver is
  followed in two more instances of the module (`Stamped`, `Unstamped`, in
  `MCMirror`) with *two* datagrams under way, so that feedback is overtaken,
  comes again behind newer feedback and, with reference times, a whole cycle
  late, and `acknowledge` has something to refuse; four frames are a cycle.
  Progress is followed with one datagram at a time, since its fairness asks only
  that one gets through. The theorems cover the real numbers.
- `MaxEdits`, `MaxToggles`, `MaxCasts`, `MaxPicks` bound what people do; two
  calls at once are enough for every crossing that was found, and the theorems
  are for any number. `MCDesktop` follows two cases of preferences: the window's
  calls one at a time, with more edits and casts, and two at a time beside a cast
  and another client's toggle. In the second a cast does take a change over
  before its reload is handled: without `discovery.missed`, TLC finds
  `DiscoveryFollows` violated there.
- `MCPipelines` follows `HttpStream` three times, each time with what the other
  two leave out: a file and a Cast session, a second hand-over, and a session
  that begins beside an earlier one that has been cancelled but not ended. The
  theorems are for all of them at once.
- `EventQueue = 1`, `Capacity = 2`, `QueueCap = 1`, `Limit = 1` let each queue or
  pool be empty and full. `MaxExtras = 1` counts PINGs of both sides and unasked
  messages together: the one message can be a heartbeat in the teardown, a
  foreign reply under a pending id or an event that fills the queue before the
  CLOSE. Two attempts are all `start_stream` makes.
- One socket is enough for a descriptor that is given out again. Two sessions
  let an old one end under a new one. `TightenAfter` and the number of
  stalls reach the point at which the drain gives up.
- `MaxReports = 2` (of `Playback`) lets a report that was overtaken stand before
  one that was not: with one at a time the receiver's last word is always the
  one that is read. The theorems are for any number.
- Two ports and one refusal let a lease be half opened and half closed, one
  crash falls between any two steps and is followed by the next run's sweep.
- Counts of the network's misfortunes (`MaxTroubles`, `MaxChanges`,
  `MaxFaults`, ...) reach the code's own limits where it has one
  (`MISSES_BEFORE_REMOVAL`, PIN attempts).
- Symmetry is used only in `SessionCast`, for sink objects and players; never in
  a run with liveness.
- Deadlock is not checked: every component really stops in the end (a session
  that is over, a bound that is reached). That they do not stop *earlier* is
  what the liveness properties are about.

### Fairness, and why the code justifies it

- `SessionEngine`: the run loop's `select!` polls its branches in random order,
  so an event or a tick that stays ready is taken. Every await of a *cancelled*
  cast task and of a stopped file session is bounded by its protocol's own
  timeouts. Nothing is assumed of a session that was not stopped.
- `MirrorTrack`: the worker is a thread, silence is a timer. Samples keep
  coming and a forced key frame is produced among them (strong fairness: pulls
  are enabled again and again, not continuously).
- `MirrorSession`: the task is polled when it can move, a thread that sees the
  stop flag returns, one that hears nothing gives up after `RECEIVER_SILENCE`.
  The prepare of a *stopped* pipeline returns; of one that plays it may not.
- `Preferences`, `ServiceLife`: blocking threads, timers and the engine's loop go
  on, time passes, a stopped session ends.
- `CastControl`: tasks are scheduled, and a write ends by `WRITE_TIMEOUT`. The
  receiver reads and answers in the end; that requests time out is assumed only
  where a property needs it (`CancelEndsSession`), so that the others do not
  rest on timeouts. Nothing makes the stream end by itself, a person cancel or a
  television behave.
- `Miracast`: the cast's own steps, the negotiation's timer and the keepalive's
  tick. Nothing of the receiver.
- The network's parts: tasks run, a search is heard and a description fetched or
  given up (each has a timeout), NetworkManager answers, a session that was
  signalled ends.

## 5. Where the code and its documents differ

Three are runs that TLC finds violated; the trace is what the code does.

- **A drain that gave up keeps its raised rate** (`HttpDrain`). `on_stall`
  switches the controller off before the rate is looked at, and `wanted_rate`
  answers nothing when it is off; the comment at drain.rs line 117 says that the
  receiver is left with its natural buffer.
- **The record of an open port can be lost** (`FirewallForgets`).
  `ensure_ports_open` goes on after a sweep that could not close a port, and its
  `remember` overwrites the record. firewall.rs line 286 says that a failed
  cleanup must never erase the only record of a port.
- **A cast may begin with older preferences than were saved for it**
  (`ReloadsCross`). `settings::reload` clears the cache and fills it in separate
  steps. The reload of a save by the timer reads the file, a transmission's own
  call saves a later edit and is reloaded, the cast clears the cache, and then
  the first reload stores what it had read: the cast finds the cache filled.
  ARCHITECTURE.md line 50 says that starting a transmission waits for
  publication and service reload; it waits for its own reload, not for others.

Met while modelling, and stated here without a run of their own. Where a passing
property has a clause for one of them, the clause is named.

- ARCHITECTURE.md line 48 says that errors stay until an explicit action
  replaces them. A control command that fails publishes an error while its file
  session goes on, and when the queue ends normally a tick sets `Idle`.
- The same line: a sink keeps its own error until its next session. A cast that
  ends before it asks the sink (cancelled in its checks, or without a capture:
  `cast.rs` lines 48 and 119) is reported as it ended, while the sink still shows
  how the session before it failed. `StatusTellsOutcome` speaks of the sink's
  last session, not of the last cast.
- `begin_cast` and `send_media` take the file's preferences without comparing. If
  a cast is begun between a save and the handling of its reload, the reload finds
  nothing changed, and discovery goes on under the old protocol or toggle until
  the next change (`discovery.missed` in `DiscoveryFollows`).
- A DLNA session that was cancelled while it was being built, or serves, goes on
  beside the next one: it may set `WaitSocket` over the other's status
  (session.rs line 169, before it looks at its cancellation in line 170), show
  `Streaming` for the reader it admitted, and leave `Disconnected` or `Error` as
  its last word; and its Stop reaches the renderer after the next one's Play.
  `HandedOverOnce` therefore speaks of the session in the slot's own steps, and
  `SessionIsReached` of who may empty the slot.
- A keep-alive pipeline that a cancelled close of `start` had taken is dropped
  while it plays, and pipeline/mod.rs line 308 says that this leaves its elements
  running (`stray`). It holds no screen once Mutter's session is stopped, so
  `NothingLeftOpen` leaves it out.
- `display_config.rs` reads and sets the layout on a best effort: what happens to
  the arrangement when Mutter refuses is in section 3, under Capture.
- `set_auto_discovery` saves the service's whole copy, and `WRITER` is a lock of
  one process: an older file can be written (`WindowSavesInOrder` speaks of the
  window's own saves).
- A reader that leaves before `Enters` has entered it stays in the attendance.
- A cancel while the OFFER is being written drops it in mid-frame
  (`OfferDropped`): the writer is closed, STOP cannot be sent, and the app stays
  on the television until it notices. The session does not claim success, but
  the confirmed STOP of docs/chromecast.md does not happen.
- A change published between the answer to the window's first read and the
  emitter's first look, in a service just started, is told to nobody
  (`ViewIsCurrent` excludes it with `readEarly`).
- media.rs line 97 says of a picture's frame that it is the smallest 16:9 one
  that holds it, so that nothing is scaled that did not need to be. Rounding to
  even sizes can take it below the picture: 400x225 goes out in 398x224.
  `FrameHolds` states what is true, that at most an odd line and two columns are
  lost, and is proved.
- A departure of a Wi-Fi Direct receiver can overtake its announcement, which
  waits for the receiver's properties.

## 6. What is proved

For all values of the constants, under the assumptions named in the modules.
`PROJECT.json` lists the theorems and the run's property each one states.

**SessionEngine_proofs.** `SessionInv` is types, `TaskHoldsSession` and
`SessionHasOwner`. The first alone is not inductive: a handler that spawns a cast
task knows only that nothing is *shown* running, and needs the converse, that a
shown session has somebody alive behind it, to conclude that no task is. Each
handler is shown to keep types and the session's fields (`SameSession`) once, and
the steps of commands, events, ticks and tasks follow. `CardGoneAfterShutdown`
comes from it: a step that brings the card back belongs to a live task, which
would hold a session, and the loop was left because there was none.

`SessionIsConsistent` and `SessionStepsKeepTheirWord` rest on a second
invariant beside it, `ShownInv`. What the property says of a shown stop
(`StoppingIsUnderWay`: the session's own task was cancelled) is not inductive,
as an event can make another task the session's as far as the step can tell;
`StopReached` says that the stop reached *every* live task. A measurement is
current because a probe of the current operation was started for the session
that runs (`ProbesCurrent`), and the row of the receiver on the air stays
because a listed row has an object and the session's receiver is never evicted
(`Listed`, `SinkWithCast`, `ActiveRowKept`). Handlers are related record to
record: `Keeps` (nothing of the session moves), `Told`, `Rows`, `Vacated`,
`Begun`, `Lasts`, and a step is a chain of them. Assumptions: names are
disjoint, `None` is none of them.

**Mirror_proofs, the track.** `TrackInv` relates four parts. What the receiver holds
lies between checkpoint and last frame sent; the history covers the window; a
datagram under way says nothing the receiver does not hold, and, if it is not
outdated, nothing behind the checkpoint, so that its byte expands to what was
meant (`ExpansionExact`, by arithmetic on remainders); a batch in the inbox is no
more frames late than turns it waited (`InboxInv`, with a slack of one for the
frame sent since the last turn). The last is what makes
`MaxUnacked + NackInbox < WireCycle` the right condition for `NackNamesFrame`:
120 + 64 < 256. `WindowServed` adds `LinkInv`: unless
video waits for a key frame, the encoder's last frame was sent, so that no delta
frame follows a frame that was dropped.

**Mirror_proofs, the session.** `NothingLeft`: each way to the end passes the join of
all threads, and a failed start drops what it had opened. `Honest`: the first
cause is kept and the others are not looked at. `FittedSize` and `Agreement` are
about the choice of a mode, for every size, cap and ANSWER: scaling by the tighter axis
leaves the other within its cap (`OtherAxisFits`).

**Desktop_proofs, the preferences.** `PrefsInv` is types with "whatever is stored or saved was
read", so a cleared cache is never saved. `SavesNeverGoBack` needs a ceiling: no
copy anywhere is newer than the window's, nor, while a job holds the lock and
writes, newer than what that job took (`SaveInv`). It holds for any number of
calls, casts and toggles, and so does `DiscoveryKeepsUp`: discovery lags behind
the engine's preferences only while a toggle is being saved, or since a cast
took others over. All assume what the modules' names mean: `None` is no call and
no preferences.

**Desktop_proofs, the rest.** `QuietAgrees` is about queues: for each thing two
components hold, the last message about it under way, or in its absence what the
receiver holds, is what the sender holds (`Leads`). A choice goes round by the
settings page, so what `PageLeads` says of the way back holds once none is on
its way there; and while the desktop makes no extra screen, a panel that shows
one has another share in its inbox (`ExtraLeaves`). `LeaseKept` needs that no
tick passes between a heartbeat that is due and the renewal it brings, so that
the lease of an open window is whole whenever the deadline is looked at
(`LeaseIsWhole`). `ViewCurrent` speaks property by property: either the emitter
still has something to say of it, or the last signal under way is true, and if
there is none what the follower read is (`HeardInv`, `KnownInv`); a service that
leaves while the window listens is noticed, and one that begins has nobody to
signal to (`EmitterInv`); the last state among the commands is the follower's,
and a proxy is never without one behind it (`MailInv`). It assumes `~Flicker`,
as the run does: no property changes and changes back between two looks of the
emitter.

**CastControl_proofs.** Types part by part, one lemma for each variable, the
events channel's capacity among them. `NothingFollowsTheEnd`: once CLOSE or half
a frame is out the lock is free *and* the writer closed, and the lock is only
taken while it is open. `EveryWaiterReleased`: the only entry of the map is the
task's own request, the writer is closed before the reader clears the map, and
whoever registers after that cannot get the lock (`OnlyTheTask`, `LockIsBusy`,
`ClosedFirst`, `TooLate`). `TeardownInOrder`: a frame of the teardown is written
only after its predecessor went out or when the writer can never be written
again (`InTurn`). `EndIsAsItSays` adds that a session which claims success, or
falls back to HTTP, left nothing of ours on the receiver. Its invariant
(`AppInv`) follows the app from the request to the report: before a LAUNCH is
written nothing of ours is under way (`Unasked`), a LAUNCH nobody has read is
the first request and is still awaited or was given up with an error
(`OnItsWay`), and a reply that says the app is absent is true on its way and
when it is taken (`RepliesTrue`, `ReplyTrue`), since an app that is gone stays
gone until the next LAUNCH. `PingsGetAnswers`: a PING goes unanswered only once
`closing` is set, which is when the frame is CLOSE and no request waits
(`ClosingIsLast`). The only assumption is that the two limits are natural
numbers.

**Streaming_proofs, HTTP.** `HttpInv` is types, part by part, with what ties the
parts together: whoever is admitted or handed over is a connection (`Placed`),
the handshake is made only while the session serves (`HandshakeOK`), something
is served only by a session that serves, and the status says "streaming" only
after a reader came (`Served`). `SessionReached` needs that every session still
finishing is older than the one in the slot (`Reached`), so that none that
empties the slot on its way out empties the new one's; and of the drain that its
*floor* as well as its target is above what stalled or at the ceiling (`Away`),
since the target sinks to the floor. `HandedOver` takes the steps one by one:
only the watch repeats a hand-over, and each step that changes the status under
"streaming" ends the session, begins the next or is a step of a cancelled one
(`OldChanges`, for any number of them). The assumptions are the
module's own (`HttpAssumption`): `None` is no socket and no state, and the
limits are at least one.

**Playback_proofs, the session.** `PlayInv` holds for any items, commands, picks
and reports, in each mode. Each way of playing keeps to its own points
(`WaysApart`). A slot stands in the channel or in the task's hand, never in
both, and something waits in it for as long (`OnePlace`); `SeeksAddUp` is not
inductive without it, since a marker taken when nothing waits, or taken twice,
would lose or repeat a seek. Nothing plays before the app is launched or while
an item is held back (`NotYetOn`), which is what a cancelled start needs to
leave nothing playing. No item stands twice in the queue, so that what has been
passed is not ahead (`QueueInv`), the receiver has the head of the queue or what
was there before it, and a report about an item that is still ahead is true
(`ReportsTrue`): a report of a passed item matches nothing, which is
`NeverAnEarlierItem`. It rests on the page sending each file once (`With`,
`SubsequenceIs`, `RetainedIs`). The proof follows the steps by the group of
variables they touch, one lemma for each part and group.

**Playback_proofs, the server and the request.** `ServerInv`: the head of an
answer, the place its body has reached and the end of the range are one range of
the size that was read with the head (`Sound`, over all forms of Range header),
and a connection is only served while there is room for it (`RoomInv`), with
`Limit` any number and the connections any set. `MediaInv` of a request: what
was read is listed as it was until its file is written over (`ListedTrue`), the
way `fetch` is only taken by what the receiver can play itself (`Fetched`), and
a frame is even, within 4K, 16:9 and all but a line and two columns of its
picture, by arithmetic on remainders (`FrameHolds`). Assumptions: the names of
files and of streams are apart, sizes are natural numbers, there is a
television, `None` is no item and no command.

**Streaming_proofs, the bus.** `BusInv`: pads move with the decoder, `remaining` counts
the tracks that have not ended (which needs each pad counted once however often
it repeats its end), the pipeline ends after its tracks, and the channel holds
the end once it is told: what does not fit is dropped, and a channel that is full
already holds it. The latency walk clears its flag before it reads what was asked.

**Streaming_proofs, the capture.** `CaptureInv` is four things. Each backend runs
through its own steps, in which `start`'s close may stand before the first and
`stop`'s after the last (`StepsInOrder`). What is recorded as open is what has
been opened by that step, and what a stop has taken is what it has still to
close (`RecordInStep`, `SessionsOwned`: a session in the compositor is the
record's, the caller's, or that of a call that was dropped and closes itself).
While the record names the extra screen, its keep-alive or the session that
created it is there (`ScreenHeld`), and the connector found by elimination is the
extra one if nothing was plugged in and the connectors could be listed
(`ScreenFound`). Last, as long as nothing of
`LayoutKept`'s exceptions has happened (`Clean`), the user's arrangement is in
force or in the hand of a step that will put it back (`DeskOwed`): while opening,
in the snapshot; while streaming, in the record; while closing, in what was
taken. `DeskOwed` is not inductive without the other three, since what a closing
step restores is what an opening step recorded. It holds for any number of casts,
monitors plugged, edits, failures and attempts; the assumptions are that `Missing` is no
connector and no snapshot, that the connectors differ, and that at least one
attempt is made.

**Streaming_proofs, the mode.** `PickRead` is for every bitmap and native byte a
sink may send, every screen, limit and frame rate (assumed to be natural
numbers). Its work is that a choice among the offered modes succeeds whenever
there is one to choose. "Closer to the screen's shape, and larger if equally
close" is a strict order on finitely many bits, so some mode has nothing before
it; that is a proof by the number of modes before each, whose least value the
library's well-foundedness of the naturals gives (`MinimalIs`, `LargestIs`,
`ClosestIs`), and the tables' own order picks one of several (`EndsOfTable`).
What is picked is then offered, progressive and within the limits
(`PreferredIs`), and the byte and the bit packed into M4 are read back
(`ReadBack`, by division and remainder).

**Streaming_proofs, the encoder.** `EncoderRight` is for any machine (cards,
installed encoders, a forced one, what each does when played) and any number of
sessions. Every set of encoders has a ranking (`RankingsExist`: of the sets
without one take a smallest, rank it without its last, and append that), so what
is tried is each candidate once and the best first. `EncoderInv` says that what
is left is a ranked rest and that every candidate not in it was tried in vain
(`RestInOrder`); taking the head leaves such a rest again (`RestAfterTry`). What
the logs name is the head of the same ranking. The assumption is that the
machine's encoders are those of the code (`KnownEncoders`).

**Network_proofs, the door.** `DoorInv`: an address that must be refused
(`barred`, the history of the lockouts earned) is still locked out for that
long, by the guard of all addresses or by its own, which nobody has forgotten to
make room for another (`BarredIsLocked`); it is inductive because `Kept` drops
no guard that is locked. The guesses are those the guard of all has counted
(`GuessesCounted`), whence their bound. `PinStands` follows, with any number of
connections, addresses, limits and lockouts; it assumes the module's own
`DoorAssumption`.

**Network_proofs, the providers.** `SweepInv`: no renderer's misses exceed the
whole searches it was silent in, and they are one less while the list has still
to age (`MissesEarned`), so that `Gone` takes only what has earned it.
`SearchInv`: the steps that hold `DISCOVERY_LOCK` are those of one scan
(`OneHolds`), so that whoever switches the search off is not followed by
another; without it `SearchIsOn` is not inductive.
`ScanInv` follows what is said of a device on its way to the list: the last word
about it is in its service's inbox (and then it is what the device was last
announced with), or else in its thread's hand, or else in the stream, or else it
is what the list has (`LastWord`). Each step moves a word on or puts a later one
behind it; that two threads share the stream does no harm because a device is
announced on one service only. `QuietListTrue`, the safety part of `ListSettles`,
follows: when nothing is on its way, the list is what was announced. The
assumption (`ScanAssumption`) is that a device has one service and that addresses
are of the kinds `best_address` tells apart.

**Network_proofs, sinks and requests.** `SinkInv` says of each step of a session
whether the status shows a running session or rests (`Shows`, `Rests`), what it
shows at rest of the last session's result (`Tells`), and that the made-up
receiver never runs one. `UpnpInv`: no more is read than was sent,
and no more sent than the reply has; a device that hung up had sent all of it; a
service that was found, and the place an action went to, were described
(`Described`). That the service found is in the part that was read needs the
first of several blocks to be a block (`FirstIs`, from the library's
well-foundedness of the naturals). The assumption (`ReplyAssumption`) is that
lengths and limits are natural numbers.

**Miracast_proofs.** `CastInv` is `PortsInv` and `SessionInv`. Every port of
ours that is open is the cast's or on record (`OpenIsKnown`), what a release has
finished with is closed (`DoneIsClosed`), and a record has somebody who will
clear it: the cast that wrote it, or the sweep that read the whole of it
(`RecordHasOwner`). `PortsReturned` is that a cast that is over has neither. The
ways in which a port may escape, a refused call and a death with a port off the
record, are marked (`spoiled`). Of the session: its stages in order, a group and
the radio held only by a session that will give them back, and the cancel
channel is in its slot or was told. `PromiseKept` takes the steps one by one to
steps of `StreamTask` or stuttering; the fairness of the promise stays with the
run.

### Only model-checked

- Liveness and everything under fairness (`StopsComplete`, `BothGoOn`,
  `DesktopGoesOn`, `SessionsEnd`, `SilenceEnds`, the fairness part of
  `KeepsPromise`, `StopEmptiesDoor`, `ListFollowsNetwork`, `NearbyIsListed`,
  `ThreadsEnd`, `ListSettles`, `StopIsHeard`): the proof system does not reach
  ENABLED and fairness. What of `ListSettles` is safety is proved (`QuietListTrue`).
- `StatesItsBuffer`: the rewritten parameter set is what a fold over its bits
  computes, and induction over data is beyond the proof system too. It is the
  one invariant of the runs without a theorem. (`WfdModes` and `EncoderChoice`
  state the choices of their loops over tables and candidates by what is chosen,
  not by folds, so that they can be proved about.)

## 7. What is not modelled

`PROJECT.json` gives the reason for each component. In short:

- the Cast wire format, certificates and the remembered device key: data that no
  modelled step decides on;
- stores and helpers: a file is replaced or not, a sound card ensured or removed;
- GStreamer's inside, NetworkManager, firewalld, Mutter, receivers: external,
  modelled by what the code asks of them and what they may answer;
- the portal's dialogue, KWin's protocol, the page a browser loads, dialogs and
  wording;
- encodings: TLS, device authentication, XML and SDP texts, HTTP header texts,
  audio codecs, content protection.

Within the modelled parts, section 3 says what each leaves out. Nothing is
claimed of two parts of one MC module moving together, of time beyond the order
of timeouts named above, or of memory safety.
