--------------------------- MODULE SessionEngine ---------------------------
(***************************************************************************)
(* The session engine of nd-service: one Tokio task that owns what is      *)
(* being sent and where, and the tasks it starts.  Casts, file sessions,   *)
(* discovery, the link probe and the virtual sound card all race with the  *)
(* commands clients send; the engine handles one command, event or poll    *)
(* tick at a time, so each of those is one step here, trailing             *)
(* reconcile_audio included.                                               *)
(*                                                                         *)
(* The engine's fields are the record e.  A handler is an operator from    *)
(* the record before to the record after; Turn closes the step the way     *)
(* the run loop does.  The cast task (cast.rs) takes its own steps.        *)
(***************************************************************************)
EXTENDS Integers, FiniteSets

CONSTANTS
    Receivers,       \* ids a discovery provider can announce
    Publishers,      \* ids the engine makes a sink for itself (NDI, WebRTC)
    Ndi,             \* the publisher that needs an installed runtime
    Chromecasts,     \* receivers that can fetch a file by URL
    Renderers,       \* receivers that are DLNA renderers
    NotCastable,     \* receivers that are listed and refuse a cast (AirPlay)
    Arcs,            \* the sink objects announcements carry
    Players,         \* D-Bus names of external players
    Files,           \* what the preferences file may hold
    MaxReceivers,    \* nd_core::provider::MAX_RECEIVERS
    MaxSessions,     \* bound: sessions begun in a behaviour
    MaxGenerations,  \* bound: restarts of discovery in a behaviour
    None

ASSUME NamesAssumption ==
    /\ Ndi \subseteq Publishers
    /\ Publishers \cap Receivers = {}
    /\ Chromecasts \cup Renderers \cup NotCastable \subseteq Receivers
    /\ Chromecasts \cap Renderers = {}
ASSUME NoneAssumption ==
    /\ None \notin Receivers \cup Publishers \cup Arcs \cup Players \cup Nat
    /\ None \notin [sender : Players, id : Nat]
ASSUME BoundsAssumption ==
    /\ MaxReceivers \in Nat /\ MaxSessions \in Nat /\ MaxGenerations \in Nat

VARIABLES
    e,        \* the fields of struct Engine
    phase,    \* where Engine::run is: its loop, finish_shutdown, returned
    tasks,    \* cast tasks, by the session each was spawned for
    wall,     \* SinkState of the active sink: a receiver shows the picture
    card,     \* the virtual sound card exists in the sound server
    timers,   \* SearchTimedOut tasks still to report, by generation
    probes    \* link probes in flight: generation, and the session probed

vars == <<e, phase, tasks, wall, card, timers, probes>>

Ids == Receivers \cup Publishers
Sinks == Arcs \cup Publishers
Sessions == 1..MaxSessions

Settings == [auto_discovery : BOOLEAN, card : BOOLEAN]

ASSUME FilesAssumption == Files \subseteq Settings

Statuses == {"idle", "searching", "discovery_off", "empty", "found", "connecting",
             "streaming", "sending", "stopping", "error", "card_failed",
             "ndi_missing"}

(***************************************************************************)
(* Files are played by a MediaSession, whose task runs apart: the engine   *)
(* only sees its handle and the status it publishes.  "none" is the absent *)
(* handle; the three ends are finished, finished with an error, and        *)
(* finished because the receiver proved another identity.                  *)
(***************************************************************************)
MediaEnds == {"ended", "failed", "impostor"}
MediaStates == {"none", "running", "stopping"} \cup MediaEnds

(***************************************************************************)
(* cast::run: created; asking the NDI runtime; ensuring the sound card;    *)
(* selecting a backend; starting the capture; inside start_stream; inside  *)
(* stop_stream; awaiting start_stream after it; stopping the backend;      *)
(* returned; CastFinished in the event channel; consumed.                  *)
(***************************************************************************)
TaskPhases == {"none", "new", "checking", "ensuring", "selecting",
               "capturing", "playing", "stopping", "draining", "closing",
               "done", "reported", "gone"}
Outcomes == {"ok", "error", "ndi_missing"}
Idle == [phase |-> "none", id |-> None, cancel |-> FALSE, outcome |-> "ok"]

(***************************************************************************)
(* serial counts sessions begun.  It stands for what makes two sessions    *)
(* distinct in the code: the cancel channel, and the random token a player *)
(* is given.  cast_cancel is the serial whose channel the engine holds.    *)
(***************************************************************************)
Engines ==
    [registry : UNION {[S -> Arcs] : S \in SUBSET Receivers},
     order : SUBSET Receivers,
     searching : BOOLEAN,
     discovering : BOOLEAN,
     generation : Nat,
     settings : Settings,
     audio_pending : BOOLEAN,
     active_cast : Ids \cup {None},
     active_sink : Sinks \cup {None},
     cast_cancel : Nat \cup {None},
     media_session : MediaStates,
     media_owner : [sender : Players, id : Nat] \cup {None},
     media_target : Receivers \cup {None},
     refused : Receivers \cup {None},
     measured : Nat \cup {None},
     probing : BOOLEAN,
     operation_generation : Nat,
     serial : 0..MaxSessions,
     status : Statuses]

TypeOK ==
    /\ e \in Engines
    /\ phase \in {"running", "closing", "closed", "abandoned"}
    /\ tasks \in [Sessions -> [phase : TaskPhases, id : Ids \cup {None},
                               cancel : BOOLEAN, outcome : Outcomes]]
    /\ wall \in BOOLEAN
    /\ card \in BOOLEAN
    /\ timers \in SUBSET Nat
    /\ probes \in SUBSET [generation : Nat, session : Nat]

Init ==
    \E s \in Files :
      /\ e = [registry |-> [r \in {} |-> None], order |-> {},
              searching |-> s.auto_discovery,
              discovering |-> s.auto_discovery, generation |-> 0,
              settings |-> s, audio_pending |-> s.card,
              active_cast |-> None, active_sink |-> None,
              cast_cancel |-> None, media_session |-> "none",
              media_owner |-> None, media_target |-> None, refused |-> None,
              measured |-> None, probing |-> FALSE,
              operation_generation |-> 0, serial |-> 0,
              status |-> IF s.auto_discovery THEN "searching"
                                             ELSE "discovery_off"]
      /\ phase = "running"
      /\ tasks = [s2 \in Sessions |-> Idle]
      /\ wall = FALSE
      /\ card = FALSE
      /\ timers = IF s.auto_discovery THEN {0} ELSE {}
      /\ probes = {}

-----------------------------------------------------------------------------
(* The status a client is shown. *)

Listing(x) ==
    IF DOMAIN x.registry # {} THEN "found"
    ELSE IF ~x.settings.auto_discovery THEN "discovery_off"
    ELSE IF x.searching THEN "searching" ELSE "empty"

Shown(x) ==
    IF x.active_sink # None
    THEN IF wall THEN "streaming" ELSE "connecting"
    ELSE IF x.media_session # "none" THEN "sending" ELSE Listing(x)

ErrorStatuses == {"error", "card_failed", "ndi_missing"}

\* Mutant: a refresh shows a session that is being stopped as running.
Refresh_OverStopping(x) ==
    IF x.status \in ErrorStatuses THEN x ELSE [x EXCEPT !.status = Shown(x)]

Refresh(x) ==
    IF x.status \in ErrorStatuses \cup {"stopping"}
    THEN x ELSE [x EXCEPT !.status = Shown(x)]

(* status = Idle; refresh_status() *)
ToIdle(x) == Refresh([x EXCEPT !.status = "idle"])

-----------------------------------------------------------------------------
(* Discovery. *)

AbortDiscovery(x) ==
    [x EXCEPT !.discovering = FALSE, !.generation = @ + 1]

(* rescan without its last call, start_discovery, which adds to timers. *)
Rescanned(x) ==
    LET cleared == IF x.status \in ErrorStatuses
                   THEN [x EXCEPT !.status = "idle"] ELSE x
        kept == DOMAIN x.registry \cap {x.active_cast}
    IN  [Refresh([AbortDiscovery(cleared) EXCEPT
                    !.registry = [r \in kept |-> x.registry[r]],
                    !.order = @ \cap {x.active_cast},
                    !.searching = TRUE])
         EXCEPT !.discovering = TRUE]

Preferred(x) ==
    IF x.settings.auto_discovery
    THEN Rescanned(x)
    ELSE Refresh([AbortDiscovery(x) EXCEPT !.searching = FALSE])

(* start_discovery's second task, when y is x after a rescan. *)
TimersFor(x, y) ==
    IF y.generation # x.generation /\ y.discovering
    THEN timers \cup {y.generation} ELSE timers

Announced(x, r, arc) ==
    IF r \notin DOMAIN x.registry
       /\ Cardinality(DOMAIN x.registry) >= MaxReceivers
    THEN x
    ELSE Refresh([x EXCEPT
           !.registry = IF x.active_cast = r THEN @
                        ELSE [q \in DOMAIN @ \cup {r} |->
                                 IF q = r THEN arc ELSE @[q]],
           !.order = @ \cup {r},
           !.searching = FALSE])

\* Mutant: the receiver on the air is withdrawn like any other.
Withdrawn_Always(x, r) ==
    Refresh([x EXCEPT !.registry = [q \in DOMAIN @ \ {r} |-> @[q]],
                      !.order = @ \ {r}])

Withdrawn(x, r) ==
    IF x.active_cast = r THEN x
    ELSE Refresh([x EXCEPT
           !.registry = [q \in DOMAIN @ \ {r} |-> @[q]],
           !.order = @ \ {r}])

-----------------------------------------------------------------------------
(* Sessions beginning, being stopped and being cleared. *)

Running(x) == x.active_cast # None \/ x.media_session # "none"

Unrefused(x, r) == [x EXCEPT !.refused = IF @ = r THEN None ELSE @]

\* Mutant: the new session keeps the operation number of the last one.
CastBegun_SameOperation(x, id, sink) ==
    [x EXCEPT !.status = "connecting", !.probing = FALSE, !.measured = None,
              !.active_cast = id, !.active_sink = sink,
              !.serial = @ + 1, !.cast_cancel = x.serial + 1]

(* begin_cast, once nothing runs and the sink is known to be castable. *)
CastBegun(x, id, sink) ==
    [x EXCEPT !.status = "connecting",
              !.operation_generation = @ + 1,
              !.probing = FALSE,
              !.measured = None,
              !.active_cast = id,
              !.active_sink = sink,
              !.serial = @ + 1,
              !.cast_cancel = x.serial + 1]

(* send_media on a Chromecast that fetches every file itself. *)
FetchBegun(x, r) ==
    Refresh([x EXCEPT !.media_session = "running",
                      !.media_target = r,
                      !.serial = @ + 1,
                      !.status = "sending"])

(* send_media decoding here: the session holds the receiver like a cast. *)
LinkReset(x) ==
    [x EXCEPT !.operation_generation = @ + 1,
              !.probing = FALSE,
              !.measured = None]

DecodeBegun(x, r) ==
    Refresh([x EXCEPT !.media_target = r,
                      !.active_cast = r,
                      !.active_sink = x.registry[r],
                      !.media_session = "running",
                      !.serial = @ + 1,
                      !.status = "sending"])

Cleared(x) ==
    [x EXCEPT !.active_cast = None,
              !.active_sink = None,
              !.cast_cancel = None,
              !.measured = None,
              !.probing = FALSE]

\* Mutant: Stop clears the session itself, before its teardown.
Stopped_Clears(x) == ToIdle(Cleared(x))

Stopped(x) ==
    LET told == [x EXCEPT !.media_session =
                              IF @ = "running" THEN "stopping" ELSE @]
    IN  IF x.active_sink = None /\ x.media_session = "none"
        THEN ToIdle(told)
        ELSE [told EXCEPT !.status = "stopping"]

\* Mutant: the status says stopping and nobody is told.
CancelSent_Forgotten(x) == tasks

(* cast_cancel.send_replace(true), seen by the task holding the receiver. *)
CancelSent(x) ==
    [s \in Sessions |-> IF s = x.cast_cancel
                        THEN [tasks[s] EXCEPT !.cancel = TRUE] ELSE tasks[s]]

CastCleared(x, id, outcome) ==
    IF x.active_cast # id THEN x
    ELSE CASE outcome = "error" -> [Cleared(x) EXCEPT !.status = "error"]
           [] outcome = "ndi_missing" ->
                [Cleared(x) EXCEPT !.status = "ndi_missing"]
           [] outcome = "ok" -> ToIdle(Cleared(x))

\* Mutant: the owner outlives its session.
Reaped_KeepsOwner(x) ==
    IF x.media_session \in MediaEnds
    THEN ToIdle([Cleared(x) EXCEPT !.media_session = "none"]) ELSE x

Reaped(x) ==
    LET gone == [Cleared(x) EXCEPT !.media_session = "none",
                                   !.media_owner = None,
                                   !.media_target = None]
    IN  CASE x.media_session = "ended" -> ToIdle(gone)
          [] x.media_session = "failed" -> [gone EXCEPT !.status = "error"]
          [] x.media_session = "impostor" ->
               [gone EXCEPT !.status = "error", !.refused = x.media_target]
          [] OTHER -> x

-----------------------------------------------------------------------------
(***************************************************************************)
(* The end of each turn of the run loop: reconcile_audio puts the card up  *)
(* or takes it down, unless a session is using it, and an error of the     *)
(* sound server becomes the status.                                        *)
(***************************************************************************)
\* Mutant: new preferences reach the sound server at once.
Deferred_Never(x) == ~x.audio_pending

Deferred(x) == ~x.audio_pending \/ Running(x)

Reconciled(x, ok) ==
    IF Deferred(x) THEN x
    ELSE [x EXCEPT !.audio_pending = FALSE,
                   !.status = IF ok THEN @ ELSE "card_failed"]

CardAfter(x, ok) ==
    IF Deferred(x) \/ ~ok THEN card ELSE x.settings.card

Turn(x) ==
    \E ok \in BOOLEAN : e' = Reconciled(x, ok) /\ card' = CardAfter(x, ok)

Loop == phase = "running"

(* finish_shutdown handles events too, while something is left to clean up. *)
Settle(x) ==
    \/ Loop /\ Turn(x)
    \/ phase = "closing" /\ Running(e) /\ e' = x /\ UNCHANGED card

-----------------------------------------------------------------------------
(***************************************************************************)
(* Commands.  settings::reload() reads whatever the file holds by then,    *)
(* hence \E s \in Files; the bounds are MaxSessions, on sessions and on      *)
(* the attempts that fail after renumbering, and MaxGenerations.           *)
(***************************************************************************)

Offered(id) ==
    IF id \in Publishers THEN {id}
    ELSE {e.registry[r] : r \in DOMAIN e.registry \cap {id}}

(* begin_cast up to the sink: a refusal leaves the reload behind it. *)
Asked(id, s) ==
    [Unrefused(e, id) EXCEPT !.media_owner = None, !.settings = s]

CastRefused(id) ==
    /\ Loop /\ ~Running(e)
    /\ id \in Publishers \cup NotCastable \/ Offered(id) = {}
    /\ \E s \in Files : Turn(Asked(id, s))
    /\ UNCHANGED <<phase, tasks, wall, timers, probes>>

Cast(id) ==
    /\ Loop /\ ~Running(e)
    /\ id \notin NotCastable
    /\ e.serial < MaxSessions
    /\ \E s \in Files, sink \in Offered(id) :
         Turn(CastBegun(Asked(id, s), id, sink))
    /\ tasks' = [tasks EXCEPT ![e.serial + 1] =
                   [phase |-> "new", id |-> id, cancel |-> FALSE,
                    outcome |-> "ok"]]
    /\ UNCHANGED <<phase, wall, timers, probes>>

Stop ==
    /\ Loop
    /\ Turn(Stopped(e))
    /\ tasks' = CancelSent(e)
    /\ UNCHANGED <<phase, wall, timers, probes>>

Rescan ==
    /\ Loop
    /\ e.generation < MaxGenerations
    /\ Turn(Rescanned(e))
    /\ timers' = TimersFor(e, Rescanned(e))
    /\ UNCHANGED <<phase, tasks, wall, probes>>

SetAutoDiscovery(on) ==
    LET x == [e EXCEPT !.settings.auto_discovery = on]
    IN  /\ Loop
        /\ e.generation < MaxGenerations
        /\ Turn(Preferred(x))
        /\ timers' = TimersFor(x, Preferred(x))
        /\ UNCHANGED <<phase, tasks, wall, probes>>

(* Discovery after new preferences; protocol says the protocol changed. *)
Rediscovered(x, protocol) ==
    IF x.settings.auto_discovery # e.settings.auto_discovery THEN Preferred(x)
    ELSE IF ~protocol THEN x
    ELSE IF x.settings.auto_discovery THEN Rescanned(x)
    ELSE AbortDiscovery(x)

ApplySettings(new, protocol) ==
    LET retry == e.status = "card_failed"
        x == [e EXCEPT !.settings = new,
                       !.audio_pending = @ \/ retry
                                           \/ new.card # e.settings.card]
        y == Rediscovered(x, protocol)
    IN  /\ Loop
        /\ y.generation <= MaxGenerations
        /\ \E ok \in BOOLEAN :
             LET z == Reconciled(y, ok)
             IN  /\ e' = IF retry /\ ~z.audio_pending /\ ok
                         THEN ToIdle(z) ELSE z
                 /\ card' = CardAfter(y, ok)
        /\ timers' = TimersFor(x, y)
        /\ UNCHANGED <<phase, tasks, wall, probes>>

(***************************************************************************)
(* send_media; player is None for SendMedia and the caller's bus name for  *)
(* StartPlayer, which only the two controllable kinds accept.  fetch says  *)
(* that every file is one the Chromecast plays natively.                   *)
(***************************************************************************)
\* Mutant: the player is handed the receiver's id for its token.
Owned_Target(x, player) ==
    [x EXCEPT !.media_owner =
        IF player = None THEN None
        ELSE [sender |-> player, id |-> x.media_target]]

Owned(x, player) ==
    [x EXCEPT !.media_owner =
        IF player = None THEN None
        ELSE [sender |-> player, id |-> x.serial]]

Controllable(r, player) ==
    player = None \/ r \in Chromecasts \cup Renderers

Sendable(r, s) ==
    [Unrefused([e EXCEPT !.settings = s], r) EXCEPT !.media_owner = None]

SendMedia(r, player, fetch) ==
    /\ Loop /\ ~Running(e)
    /\ r \in DOMAIN e.registry
    /\ Controllable(r, player)
    /\ e.serial < MaxSessions
    /\ fetch => r \in Chromecasts
    /\ \E s \in Files :
         LET x == Sendable(r, s)
         IN  Turn(Owned(IF fetch THEN FetchBegun(x, r)
                        ELSE DecodeBegun(LinkReset(x), r), player))
    /\ UNCHANGED <<phase, tasks, wall, timers, probes>>

(* Every refusal of send_media, in the order the code meets them. *)
SendMediaRefused(r, player) ==
    /\ Loop
    /\ \E s \in Files :
         LET reloaded == [e EXCEPT !.settings = s]
         IN  IF r \notin DOMAIN e.registry \/ Running(e)
             THEN Turn(reloaded)
             ELSE IF ~Controllable(r, player)
             THEN Turn(Unrefused(reloaded, r))
             ELSE \/ r \in Chromecasts /\ Turn(Sendable(r, s))
                  \/ /\ e.operation_generation < MaxSessions
                     /\ Turn(LinkReset(Sendable(r, s)))
    /\ UNCHANGED <<phase, tasks, wall, timers, probes>>

(* A MediaSession refuses a command when its queue is full or it ended. *)
ControlMediaFails ==
    /\ Loop
    /\ e.media_session # "none"
    /\ Turn([e EXCEPT !.status = "error"])
    /\ UNCHANGED <<phase, tasks, wall, timers, probes>>

(* ControlPlayer without a command: the owner's scoped stop. *)
StopPlayer(player, id) ==
    /\ Loop
    /\ e.media_owner = [sender |-> player, id |-> id]
    /\ e.media_session # "none"
    /\ Turn(Stopped(e))
    /\ tasks' = CancelSent(e)
    /\ UNCHANGED <<phase, wall, timers, probes>>

PlayerGone(player) ==
    /\ Loop
    /\ e.media_owner # None
    /\ e.media_owner.sender = player
    /\ Turn(Stopped(e))
    /\ tasks' = CancelSent(e)
    /\ UNCHANGED <<phase, wall, timers, probes>>

\* Mutant: shutdown waits for a session it did not stop.
Shutdown_Waits ==
    /\ Loop
    /\ phase' = "closing"
    /\ e' = AbortDiscovery(e)
    /\ UNCHANGED <<tasks, wall, card, timers, probes>>

Shutdown ==
    /\ Loop
    /\ phase' = "closing"
    /\ e' = AbortDiscovery(Stopped(e))
    /\ tasks' = CancelSent(e)
    /\ UNCHANGED <<wall, card, timers, probes>>

\* Mutant: the card is removed without waiting for the session.
Close_Early ==
    /\ phase = "closing"
    /\ phase' = "closed"
    /\ card' \in {FALSE, card}
    /\ UNCHANGED <<e, tasks, wall, timers, probes>>

(* The session is gone: remove the card, which may fail, and return. *)
Close ==
    /\ phase = "closing" /\ ~Running(e)
    /\ phase' = "closed"
    /\ card' \in {FALSE, card}
    /\ UNCHANGED <<e, tasks, wall, timers, probes>>

(* Sixty seconds passed first. *)
Abandon ==
    /\ phase = "closing" /\ Running(e)
    /\ phase' = "abandoned"
    /\ card' \in {FALSE, card}
    /\ UNCHANGED <<e, tasks, wall, timers, probes>>

-----------------------------------------------------------------------------
(***************************************************************************)
(* Events and the poll tick.  A discovery event carries the generation of  *)
(* the scan that queued it: every scan so far may still have some in the   *)
(* channel, since aborting a scan does not take them back.                 *)
(***************************************************************************)
Queued(generation) ==
    generation < e.generation \/ (generation = e.generation /\ e.discovering)

\* Mutant: the generation of a discovery event is not looked at.
Discovered_AnyScan(generation, x) ==
    /\ Queued(generation)
    /\ Settle(x)
    /\ UNCHANGED <<phase, tasks, wall, timers, probes>>

Discovered(generation, x) ==
    /\ Queued(generation)
    /\ Settle(IF generation = e.generation THEN x ELSE e)
    /\ UNCHANGED <<phase, tasks, wall, timers, probes>>

Added(r, arc, generation) == Discovered(generation, Announced(e, r, arc))

Removed(r, generation) == Discovered(generation, Withdrawn(e, r))

SearchTimedOut(generation) ==
    /\ generation \in timers
    /\ timers' = timers \ {generation}
    /\ Settle(IF generation = e.generation /\ DOMAIN e.registry = {}
              THEN Refresh([e EXCEPT !.searching = FALSE]) ELSE e)
    /\ UNCHANGED <<phase, tasks, wall, probes>>

LinkMeasured(p) ==
    /\ p \in probes
    /\ probes' = probes \ {p}
    /\ Settle(IF p.generation # e.operation_generation THEN e
              ELSE [e EXCEPT !.probing = FALSE,
                             !.measured = IF e.active_sink # None
                                          THEN p.session ELSE @])
    /\ UNCHANGED <<phase, tasks, wall, timers>>

CastFinished(s) ==
    /\ tasks[s].phase = "reported"
    /\ Settle(CastCleared(e, tasks[s].id, tasks[s].outcome))
    /\ tasks' = [tasks EXCEPT ![s] = [Idle EXCEPT !.phase = "gone"]]
    /\ UNCHANGED <<phase, wall, timers, probes>>

\* Mutant: the poll runs for casts only, and forgets file sessions.
Tick_CastOnly(linked) ==
    /\ Loop
    /\ e.active_cast # None \/ e.audio_pending
    /\ Turn(Refresh(Reaped(e)))
    /\ UNCHANGED <<phase, tasks, wall, timers, probes>>

(* The tick: reap, ask for a measurement if the receiver has an address,   *)
(* refresh.  While closing it only reaps.                                  *)
Tick(linked) ==
    LET x == Reaped(e)
        asks == linked /\ x.active_sink # None /\ ~x.probing
    IN  /\ Loop
        /\ Running(e) \/ e.audio_pending
        /\ Turn(Refresh([x EXCEPT !.probing = @ \/ asks]))
        /\ probes' = IF asks
                     THEN probes \cup {[generation |-> x.operation_generation,
                                        session |-> x.serial]}
                     ELSE probes
        /\ UNCHANGED <<phase, tasks, wall, timers>>

ClosingTick ==
    /\ phase = "closing"
    /\ Settle(Reaped(e))
    /\ UNCHANGED <<phase, tasks, wall, timers, probes>>

-----------------------------------------------------------------------------
(* The cast task. *)

Goes(s, from, to) ==
    /\ tasks[s].phase = from
    /\ tasks' = [tasks EXCEPT ![s].phase = to]
    /\ UNCHANGED <<e, phase, timers, probes>>

Ends(s, from, to, outcome) ==
    /\ tasks[s].phase = from
    /\ tasks' = [tasks EXCEPT ![s].phase = to, ![s].outcome = outcome]
    /\ UNCHANGED <<e, phase, timers, probes>>

Cancelled(s) == tasks[s].cancel

TaskStarts(s) ==
    /\ UNCHANGED <<wall, card>>
    /\ IF tasks[s].id \in Ndi THEN Goes(s, "new", "checking")
       ELSE IF Cancelled(s) THEN Ends(s, "new", "done", "ok")
       ELSE Goes(s, "new", "ensuring")

(* ndi_ready: cancelled before or with the answer, it says so either way. *)
NdiChecked(s) ==
    /\ UNCHANGED <<wall, card>>
    /\ IF Cancelled(s) THEN Ends(s, "checking", "done", "ok")
       ELSE \/ Goes(s, "checking", "ensuring")
            \/ Ends(s, "checking", "done", "error")
            \/ Ends(s, "checking", "done", "ndi_missing")

(* settings::current() is the process's copy, which a ReloadSettings call *)
(* may have replaced before the engine is told.                           *)
CardEnsured(s) ==
    /\ UNCHANGED wall
    /\ \/ Goes(s, "ensuring", "selecting") /\ card' \in {card, TRUE}
       \/ Ends(s, "ensuring", "done", "error") /\ UNCHANGED card

BackendSelected(s) ==
    Goes(s, "selecting", "capturing") /\ UNCHANGED <<wall, card>>

SelectionCancelled(s) ==
    /\ Cancelled(s)
    /\ Ends(s, "selecting", "done", "ok")
    /\ UNCHANGED <<wall, card>>

(* backend.start, then the last look at cancel before start_stream. *)
CaptureStarted(s) ==
    /\ UNCHANGED <<wall, card>>
    /\ \/ Ends(s, "capturing", "closing", "error")
       \/ ~Cancelled(s) /\ Goes(s, "capturing", "playing")
       \/ Cancelled(s) /\ Ends(s, "capturing", "closing", "ok")

(* start_stream returns by itself, or after stop_stream made it return. *)
StreamReturned(s) ==
    /\ \E from \in {"playing", "draining"}, outcome \in {"ok", "error"} :
         Ends(s, from, "closing", outcome)
    /\ wall' = FALSE
    /\ UNCHANGED card

\* Mutant: nothing watches for a cancel while the stream plays.
StreamCancelled_Never(s) == FALSE /\ UNCHANGED vars

StreamCancelled(s) ==
    /\ Cancelled(s)
    /\ Goes(s, "playing", "stopping")
    /\ UNCHANGED <<wall, card>>

(* Its failure is logged: the device may still hold the session. *)
StopStreamReturned(s) ==
    Goes(s, "stopping", "draining") /\ UNCHANGED <<wall, card>>

BackendStopped(s) ==
    Goes(s, "closing", "done") /\ UNCHANGED <<wall, card>>

\* Mutant: the report is dropped, as a full channel would with try_send.
Reports_Lost(s) ==
    Goes(s, "done", "gone") /\ UNCHANGED <<wall, card>>

Reports(s) ==
    Goes(s, "done", "reported") /\ UNCHANGED <<wall, card>>

(* The file session's own task, and the sink's state, as the engine reads  *)
(* them.                                                                   *)
MediaReturns ==
    /\ e.media_session \in {"running", "stopping"}
    /\ \E end \in MediaEnds : e' = [e EXCEPT !.media_session = end]
    /\ wall' = FALSE
    /\ UNCHANGED <<phase, tasks, card, timers, probes>>

SinkStateChanges ==
    /\ \/ e.active_sink # None /\ e.media_session \in {"running", "stopping"}
       \/ \E s \in Sessions : tasks[s].phase \in {"playing", "stopping", "draining"}
    /\ wall' = ~wall
    /\ UNCHANGED <<e, phase, tasks, card, timers, probes>>

-----------------------------------------------------------------------------

Command ==
    \/ \E id \in Ids : CastRefused(id) \/ Cast(id)
    \/ Stop
    \/ Rescan
    \/ \E on \in BOOLEAN : SetAutoDiscovery(on)
    \/ \E s \in Files, protocol \in BOOLEAN : ApplySettings(s, protocol)
    \/ \E r \in Receivers, p \in Players \cup {None} :
          \/ \E fetch \in BOOLEAN : SendMedia(r, p, fetch)
          \/ SendMediaRefused(r, p)
    \/ ControlMediaFails
    \/ \E p \in Players :
          \/ \E id \in Sessions : StopPlayer(p, id)
          \/ PlayerGone(p)
    \/ Shutdown

Event ==
    \/ \E r \in Receivers, g \in 0..MaxGenerations + 1 :
          \/ \E arc \in Arcs : Added(r, arc, g)
          \/ Removed(r, g)
    \/ \E g \in timers : SearchTimedOut(g)
    \/ \E p \in probes : LinkMeasured(p)
    \/ \E s \in Sessions : CastFinished(s)

TaskStep(s) ==
    \/ TaskStarts(s) \/ NdiChecked(s) \/ CardEnsured(s)
    \/ BackendSelected(s) \/ SelectionCancelled(s) \/ CaptureStarted(s)
    \/ StreamReturned(s) \/ StreamCancelled(s) \/ StopStreamReturned(s)
    \/ BackendStopped(s) \/ Reports(s)

Next ==
    \/ Command
    \/ Event
    \/ \E linked \in BOOLEAN : Tick(linked)
    \/ ClosingTick \/ Close \/ Abandon
    \/ \E s \in Sessions : TaskStep(s)
    \/ MediaReturns
    \/ SinkStateChanges

Spec == Init /\ [][Next]_vars

(***************************************************************************)
(* What the code's scheduling gives: the run loop's select is unbiased, so *)
(* an event or tick that stays ready is taken; every await of a cancelled  *)
(* cast task and of a stopped file session is bounded by its protocol.     *)
(* Nothing is assumed of a task that was not cancelled, nor of Abandon.    *)
(***************************************************************************)
CancelledStep(s) ==
    /\ Cancelled(s)
    /\ IF tasks[s].phase = "playing" THEN StreamCancelled(s) ELSE TaskStep(s)
StoppedMediaReturns == e.media_session = "stopping" /\ MediaReturns

Fairness ==
    /\ \A s \in Sessions : WF_vars(CancelledStep(s)) /\ WF_vars(CastFinished(s))
    /\ WF_vars(StoppedMediaReturns)
    /\ WF_vars(\E linked \in BOOLEAN : Tick(linked))
    /\ WF_vars(ClosingTick) /\ WF_vars(Close)

FairSpec == Spec /\ Fairness

-----------------------------------------------------------------------------
(* Safety. *)

Alive(s) == tasks[s].phase \notin {"none", "gone"}

(* A cast task that has not been accounted for is the one session: its     *)
(* receiver stays taken, its cancel channel stays held and no file session *)
(* runs beside it (begin_cast, send_media and cast_finished: "the only     *)
(* thing that clears a cast").                                             *)
TaskHoldsSession ==
    \A s \in Sessions : Alive(s) =>
        /\ e.active_cast \in Ids
        /\ e.active_cast = tasks[s].id
        /\ e.cast_cancel = s
        /\ e.media_session = "none"

(* A session that is shown running has somebody who will clear it: a file  *)
(* session the tick reaps, or a cast task that still has to report.        *)
SessionHasOwner ==
    e.active_cast # None /\ e.media_session = "none" =>
        \E s \in Sessions : Alive(s) /\ tasks[s].id = e.active_cast

(* A client shown "stopping" waits for a teardown that is under way: the   *)
(* file session was told to stop, or the cast task's channel says cancel.  *)
StoppingIsUnderWay ==
    e.status = "stopping" =>
        \/ e.media_session \in MediaEnds \cup {"stopping"}
        \/ \E s \in Sessions : Alive(s) /\ Cancelled(s)

(* The receiver on the air keeps its row and its connection: discovery     *)
(* neither drops it nor puts another sink object in its place, and a       *)
(* rescan leaves it (ARCHITECTURE.md, "retains the active sink").          *)
ActiveRowKept ==
    e.active_cast \in Receivers =>
        /\ e.active_cast \in e.order
        /\ e.active_cast \in DOMAIN e.registry
        /\ e.registry[e.active_cast] = e.active_sink

(* A published round trip was measured during the session it is shown for, *)
(* whatever probes of earlier sessions were still in flight.               *)
MeasurementIsCurrent ==
    e.measured # None => e.active_sink # None /\ e.measured = e.serial

(* A player's token is good for the session it started and no other: once  *)
(* that session is cleared or another begins, nobody owns it.              *)
OwnerHasSession ==
    e.media_owner # None =>
        e.media_session # "none" /\ e.media_owner.id = e.serial

-----------------------------------------------------------------------------
(* What a step may never do. *)

(* "stopping" is left only with the session, or for an error: no refresh,  *)
(* rescan or discovery event shows a stopped session as running again.     *)
StoppingUntilCleared ==
    [][e.status = "stopping" /\ e'.status # "stopping" =>
          (e'.active_cast = None /\ e'.media_session = "none")
          \/ e'.status \in ErrorStatuses]_vars

(* Once discovery was switched off, or restarted, the events still queued  *)
(* by the scan before add no receiver.                                     *)
AbortedScanIsSilent ==
    [][~e.discovering => DOMAIN e'.registry \subseteq DOMAIN e.registry]_vars

(* The sound card neither appears nor disappears under a running session,  *)
(* but for the cast task's own ensure: reconcile_audio waits.              *)
CardKeptDuringSession ==
    [][Loop /\ Running(e') /\ card' # card =>
          card' /\ \E s \in Sessions : tasks[s].phase = "ensuring"]_vars

(* After an orderly shutdown removed the card nothing brings it back: no   *)
(* cast task outlived the session it served.                               *)
CardStaysGone == [][phase = "closed" => (card' => card)]_vars

(* An error stays published until a command replaces it (ARCHITECTURE.md   *)
(* line 48).  The code does not do this: see the README.                   *)
ErrorsUntilAction ==
    [][e.status \in ErrorStatuses /\ e'.status \notin ErrorStatuses
          => Command]_vars

-----------------------------------------------------------------------------
(* Liveness, under FairSpec. *)

(* A cancelled cast is torn down and cleared, unless the service gave up   *)
(* waiting at shutdown.                                                    *)
CancelledCastEnds ==
    \A s \in Sessions :
        tasks[s].cancel ~> tasks[s].phase = "gone" \/ phase = "abandoned"

(* A stopped file session is reaped.                                       *)
StoppedMediaEnds ==
    e.media_session = "stopping" ~>
        e.media_session = "none" \/ phase = "abandoned"

(* Shutdown ends without having to wait out its sixty seconds.             *)
ShutdownCompletes == phase = "closing" ~> phase \in {"closed", "abandoned"}

(* What the published session says is so: somebody will clear it, a stop   *)
(* is under way, a measurement and an owner are this session's, and        *)
(* discovery leaves the row of the receiver on the air (begin_cast,        *)
(* cast_finished, reap_finished_media and the discovery arms).             *)
SessionConsistent ==
    /\ SessionHasOwner /\ StoppingIsUnderWay /\ MeasurementIsCurrent
    /\ OwnerHasSession /\ ActiveRowKept

(* No step takes a published stop back, adds what an ended scan found or   *)
(* changes the sound card under a session (refresh, the discovery arms,    *)
(* reconcile_audio).                                                       *)
StepsKeepTheirWord == StoppingUntilCleared /\ AbortedScanIsSilent /\ CardKeptDuringSession

(* Whatever was told to stop ends, and with it the service's shutdown      *)
(* (cast_finished, reap_finished_media, the closing loop).                 *)
StopsComplete == CancelledCastEnds /\ StoppedMediaEnds /\ ShutdownCompletes

=============================================================================
