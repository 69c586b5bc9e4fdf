---------------------------- MODULE MirrorSession ----------------------------
(* A Cast mirroring session between the launch of the receiver's app and the *)
(* end of the streaming: nd-chromecast mirror_session/mod.rs (mirror,        *)
(* negotiate_mode, stream, outcome) and worker.rs (the signals its threads   *)
(* share).  The session task, the thread of each track, the feedback reader, *)
(* the pipeline's bus, a blocking prepare and the user all move on their     *)
(* own.  What a track's thread does with frames is MirrorTrack's; the        *)
(* control channel is CastControl's.                                         *)
EXTENDS Integers, FiniteSets

----------------------------------------------------------------------------
(* How a mode - a size, a frame rate and a bitrate - is chosen: what the     *)
(* captured screen, the user's preference, the receiver's limits and the     *)
(* pacer each allow (nd-core pipeline/stream_config.rs, nd-chromecast        *)
(* mirror/answer.rs and mirror/mod.rs).  A size is <<width, height>>.        *)

Least(a, b) == IF a <= b THEN a ELSE b
Most(a, b) == IF a >= b THEN a ELSE b
EvenPart(n) == n - (n % 2)

Dimensions == Nat \X Nat
Mode == [size: Dimensions, fps: Nat, kbps: Nat]
NoLimit == -1

(* H.264 needs even dimensions, of at least two pixels. *)
Pixels(n) == EvenPart(Most(n, 2))

(* The mutant: the width alone decides the scale. *)
FitWithin_ByWidth(source, max) ==
    LET mw == Pixels(max[1])  mh == Pixels(max[2])
        w == Most(source[1], 2)  h == Most(source[2], 2)
    IN IF source[1] = 0 \/ source[2] = 0 THEN <<mw, mh>>
       ELSE IF w <= mw THEN <<EvenPart(w), EvenPart(h)>>
       ELSE <<mw, Pixels((h * mw) \div w)>>

(* A size shrunk to fit a cap, scaled by the most restrictive axis; a size   *)
(* that fits is only made even, and an empty one is taken for the cap.       *)
FitWithin(source, max) ==
    LET mw == Pixels(max[1])  mh == Pixels(max[2])
        w == Most(source[1], 2)  h == Most(source[2], 2)
        scaled == (h * mw) \div w
    IN IF source[1] = 0 \/ source[2] = 0 THEN <<mw, mh>>
       ELSE IF w <= mw /\ h <= mh THEN <<EvenPart(w), EvenPart(h)>>
       ELSE IF scaled <= mh THEN <<mw, Pixels(scaled)>>
       ELSE <<Pixels((w * mh) \div h), mh>>

(* A preference lowers what the link agreed on and never raises it. *)
CappedFps(negotiated, preferred) == Most(Least(negotiated, preferred), 1)

(* Where the protocol states no maximum, an untouched preference leaves the  *)
(* protocol's own guess in place and any other one wins.                     *)
PreferredOr(chosen, untouched, guess) ==
    IF chosen = untouched THEN guess ELSE chosen

(* The table of bitrates: by pixels for 30 frames a second, raised by half   *)
(* again at 60.  A rate already set stands.                                  *)
TableKbps(pixels) ==
    IF pixels <= 640 * 480 THEN 6000
    ELSE IF pixels <= 1280 * 720 THEN 9000
    ELSE IF pixels <= 1920 * 1080 THEN 10000
    ELSE IF pixels <= 2560 * 1440 THEN 14000
    ELSE 20000

ScaledKbps(mode) ==
    LET base == TableKbps(mode.size[1] * mode.size[2])
    IN IF mode.kbps # 0 THEN mode.kbps
       ELSE IF mode.fps > 30
            THEN base + (base * (Least(mode.fps, 60) - 30)) \div 60
            ELSE base

(* What the mode needs, held to what the pacer lets out. *)
CastKbps(mode, pacer) == Least(ScaledKbps(mode), pacer)

(* The receiver's limits on video: NoLimit where its ANSWER leaves a field   *)
(* out.  Bitrates are in bits a second, as the ANSWER states them.           *)
VideoLimits ==
    [size: Dimensions, fps: Nat, pixel_rate: Int, min_bits: Nat, max_bits: Nat,
     min_size: Dimensions, max_delay: Int]

(* Bitrates the wrong way round or a rate of nothing make no ANSWER at all. *)
WellFormed(limits) ==
    /\ limits.min_bits <= limits.max_bits /\ limits.max_bits > 0
    /\ limits.pixel_rate = NoLimit \/ limits.pixel_rate > 0

CeilingKbps(limits) == limits.max_bits \div 1000
FloorKbps(limits) == (limits.min_bits + 999) \div 1000

(* A mode under a receiver's limits: its size fitted, its rate capped by the *)
(* frame rate and by the pixels a second the decoder takes.                  *)
Shrunk(mode, limits) ==
    LET size == FitWithin(mode.size, limits.size)
        slower == Least(mode.fps, limits.fps)
    IN [mode EXCEPT
        !.size = size,
        !.fps = IF limits.pixel_rate = NoLimit THEN slower
                ELSE Least(slower, limits.pixel_rate \div (size[1] * size[2]))]

(* Whether those limits leave a mode to send at this playout delay. *)
Accommodates(limits, shrunk, delay) ==
    /\ limits.size[1] >= 2 /\ limits.size[2] >= 2
    /\ CeilingKbps(limits) # 0
    /\ FloorKbps(limits) <= CeilingKbps(limits)
    /\ shrunk.fps # 0
    /\ shrunk.size[1] >= limits.min_size[1]
    /\ shrunk.size[2] >= limits.min_size[2]
    /\ limits.max_delay = NoLimit \/ delay <= limits.max_delay

(* The mutant: the receiver's floor on the bitrate is left out of account. *)
HeldKbps_NoCeiling(shrunk, limits, pacer) ==
    Most(CastKbps(shrunk, pacer), FloorKbps(limits))

HeldKbps(shrunk, limits, pacer) ==
    Most(Least(CastKbps(shrunk, pacer), CeilingKbps(limits)), FloorKbps(limits))

----------------------------------------------------------------------------
(* The session. *)

CONSTANTS
    Portal,        \* the size the portal claims for the screen
    Ceiling,       \* the size mirroring is held to
    Preferred,     \* the frame rate the user prefers
    Captured,      \* the sizes a capture may settle on, NoSize for too late
    Pacer,         \* the bitrate the pacer lets out
    FloorRate,     \* adaptation never goes below this one
    Patience,      \* healthy windows before the bitrate is raised again
    Delay,         \* the playout delay offered
    Answers,       \* the ANSWERs a receiver may send
    Says,          \* what each states: the streams it takes, its limits
    FilePlayed,    \* whether the session plays a file from some position
    MaxWindows     \* bound: windows of sending looked at

NoSize == <<0, 0>>
Tracks == {"video", "audio"}
Threads == Tracks \cup {"reader"}

ASSUME ModeAssumption ==
    /\ Portal \in Dimensions /\ Ceiling \in Dimensions
    /\ Captured \subseteq Dimensions
    /\ Preferred \in Nat /\ Pacer \in Nat /\ FloorRate \in Nat
ASSUME AnswerAssumption ==
    \A a \in Answers :
        /\ Says[a].streams \subseteq Tracks
        /\ Says[a].audio \in BOOLEAN
        /\ Says[a].video \subseteq VideoLimits
        /\ IsFiniteSet(Says[a].video) /\ Cardinality(Says[a].video) <= 1
        /\ \A l \in Says[a].video : WellFormed(l)

VARIABLES
    at,        \* where the session task is
    cancel,    \* the user has stopped the session
    pipe,      \* the pipeline: "none", "playing" or "null"
    prepare,   \* the blocking prepare of a file
    mode,      \* the task's StreamConfig
    session,   \* the ANSWER agreed on, as a set: empty before
    encoded,   \* the mode the running pipeline really encodes
    thread,    \* each thread: "none", "runs", "ended", "failed", "stopped"
    signals,   \* the stop flag, the tracks still running, the first outcome
    bus,       \* what the pipeline reported: "none", "eos", "error"
    peer,  \* "talks" or "gone"
    cause,     \* why the task stopped the streaming itself, "none" so far
    rate,      \* RateControl and the windows it has seen
    result     \* "none", "ok", "unsupported" or "failed"

taskVars == <<at, mode, session, encoded, cause, result>>
mirrorVars == <<at, cancel, pipe, prepare, mode, session, encoded, thread, signals, bus,
          peer, cause, rate, result>>

Results == {"none", "ok", "unsupported", "failed"}
Running == {t \in Threads : thread[t] = "runs"}

MirrorTypeOK ==
    /\ at \in {"configuring", "preparing", "abandoning", "adopting",
               "negotiating", "opening", "streaming", "winding", "over"}
    /\ cancel \in BOOLEAN
    /\ pipe \in {"none", "playing", "null"}
    /\ prepare \in {"none", "runs", "done", "failed"}
    /\ mode \in Mode /\ encoded \in Mode
    /\ session \subseteq Answers
    /\ thread \in [Threads -> {"none", "runs", "ended", "failed", "stopped"}]
    /\ signals \in [stop: BOOLEAN, running: 0..2, outcome: Results]
    /\ bus \in {"none", "eos", "error"}
    /\ peer \in {"talks", "gone"}
    /\ cause \in {"none", "cancelled", "closed", "lost"}
    /\ rate \in [now: Nat, ceiling: Nat, healthy: Nat, windows: 0..MaxWindows]
    /\ result \in Results

(* The mode encoded before the receiver has spoken: the portal's claim under *)
(* the ceiling, at the bitrate of the table.                                 *)
Guessed ==
    LET guess == [size |-> FitWithin(Portal, Ceiling),
                  fps |-> CappedFps(60, Preferred), kbps |-> 0]
    IN [guess EXCEPT !.kbps = ScaledKbps(guess)]

MirrorInit ==
    /\ at = "configuring" /\ cancel = FALSE
    /\ pipe = "none" /\ prepare = "none"
    /\ mode = [Guessed EXCEPT !.kbps = 0] /\ encoded = Guessed
    /\ session = {}
    /\ thread = [t \in Threads |-> "none"]
    /\ signals = [stop |-> FALSE, running |-> 0, outcome |-> "none"]
    /\ bus = "none" /\ peer = "talks" /\ cause = "none"
    /\ rate = [now |-> 0, ceiling |-> 0, healthy |-> 0, windows |-> 0]
    /\ result = "none"

(* The task returns: the guard of the capture takes the pipeline to Null. *)
Returns(r) ==
    /\ at' = "over" /\ result' = r
    /\ pipe' = IF pipe = "none" THEN "none" ELSE "null"

----------------------------------------------------------------------------
(* The capture. *)

(* No encoder works, or the pipeline cannot be built or started. *)
StartFails ==
    /\ at = "configuring"
    /\ Returns("failed")
    /\ UNCHANGED <<cancel, prepare, mode, session, encoded, thread, signals, bus,
                   peer, cause, rate>>

CancelledEarly ==
    /\ at = "configuring" /\ cancel
    /\ Returns("ok")
    /\ UNCHANGED <<cancel, prepare, mode, session, encoded, thread, signals, bus,
                   peer, cause, rate>>

Starts ==
    /\ at = "configuring" /\ ~cancel
    /\ pipe' = "playing"
    /\ at' = IF FilePlayed THEN "preparing" ELSE "adopting"
    /\ prepare' = IF FilePlayed THEN "runs" ELSE "none"
    /\ UNCHANGED <<cancel, mode, session, encoded, thread, signals, bus, peer,
                   cause, rate, result>>

(* Finding the position the file is played from blocks a thread of its own;  *)
(* a stopped pipeline unblocks it.                                           *)
PrepareReturns ==
    /\ prepare = "runs"
    /\ prepare' \in {"done", "failed"}
    /\ UNCHANGED <<at, cancel, pipe, mode, session, encoded, thread, signals, bus,
                   peer, cause, rate, result>>

Prepared ==
    /\ at = "preparing" /\ prepare \in {"done", "failed"}
    /\ IF prepare = "done"
       THEN at' = "adopting" /\ UNCHANGED <<pipe, result>>
       ELSE Returns("failed")
    /\ UNCHANGED <<cancel, prepare, mode, session, encoded, thread, signals, bus,
                   peer, cause, rate>>

PrepareCancelled_StillPlaying ==
    /\ at = "preparing" /\ cancel
    /\ at' = "abandoning"
    /\ UNCHANGED <<cancel, pipe, prepare, mode, session, encoded, thread, signals, bus,
                   peer, cause, rate, result>>

PrepareCancelled ==
    /\ at = "preparing" /\ cancel
    /\ at' = "abandoning" /\ pipe' = "null"
    /\ UNCHANGED <<cancel, prepare, mode, session, encoded, thread, signals, bus,
                   peer, cause, rate, result>>

Abandoned ==
    /\ at = "abandoning" /\ prepare # "runs"
    /\ Returns("ok")
    /\ UNCHANGED <<cancel, prepare, mode, session, encoded, thread, signals, bus,
                   peer, cause, rate>>

(* The OFFER is written from the size the capture settled on, the portal's   *)
(* claim where it took too long, and from the bitrate that size needs.       *)
Adopts(size) ==
    /\ at = "adopting"
    /\ LET real == [mode EXCEPT !.size = IF size = NoSize THEN @ ELSE size,
                                !.kbps = 0]
       IN mode' = [real EXCEPT !.kbps = CastKbps(real, Pacer)]
    /\ encoded' = [encoded EXCEPT !.size = mode'.size]
    /\ at' = "negotiating"
    /\ UNCHANGED <<cancel, pipe, prepare, session, thread, signals, bus,
                   peer, cause, rate, result>>

----------------------------------------------------------------------------
(* The negotiation. *)

(* What an ANSWER makes of the mode: the limits it states, if it states any. *)
Constrained(answer) ==
    IF Says[answer].video = {} THEN mode
    ELSE LET limits == CHOOSE l \in Says[answer].video : TRUE
             shrunk == Shrunk(mode, limits)
         IN [shrunk EXCEPT !.kbps = HeldKbps(shrunk, limits, Pacer)]

Fits(answer) ==
    /\ \A l \in Says[answer].video : Accommodates(l, Shrunk(mode, l), Delay)
    /\ "audio" \in Says[answer].streams => Says[answer].audio

(* The capsfilter is narrowed, to the agreed size and frame rate, only for a *)
(* receiver that asked for another size.                                     *)
Pinned(agreed) ==
    IF agreed.size = mode.size THEN encoded
    ELSE [encoded EXCEPT !.size = agreed.size, !.fps = agreed.fps]

(* A usable ANSWER: the mode is agreed and the accepted tracks are known. *)
Agrees(answer) ==
    /\ at = "negotiating" /\ peer = "talks" /\ ~cancel
    /\ "video" \in Says[answer].streams /\ Fits(answer)
    /\ mode' = Constrained(answer) /\ encoded' = Pinned(mode')
    /\ session' = {answer}
    /\ at' = "opening"
    /\ UNCHANGED <<cancel, pipe, prepare, thread, signals, bus, peer,
                   cause, rate, result>>

(* One the receiver cannot be sent anything under. *)
Refuses(answer) ==
    /\ at = "negotiating" /\ peer = "talks"
    /\ Returns(IF Says[answer].streams = {} THEN "failed" ELSE "unsupported")
    /\ ~("video" \in Says[answer].streams /\ Fits(answer))
    /\ UNCHANGED <<cancel, prepare, mode, session, encoded, thread, signals, bus,
                   peer, cause, rate>>

(* No answer in time or an error in its place; a closed channel or app.      *)
OfferFails ==
    /\ at = "negotiating"
    /\ \E r \in {"unsupported", "failed"} : Returns(r)
    /\ UNCHANGED <<cancel, prepare, mode, session, encoded, thread, signals, bus,
                   peer, cause, rate>>

OfferCancelled ==
    /\ at = "negotiating" /\ cancel
    /\ Returns("ok")
    /\ UNCHANGED <<cancel, prepare, mode, session, encoded, thread, signals, bus,
                   peer, cause, rate>>

----------------------------------------------------------------------------
(* Streaming. *)

AcceptedTracks == UNION {Says[answer].streams : answer \in session}

OpensCancelled ==
    /\ at = "opening" /\ cancel
    /\ Returns("ok")
    /\ UNCHANGED <<cancel, prepare, mode, session, encoded, thread, signals, bus,
                   peer, cause, rate>>

(* The socket, a sender for each track and the threads: a session goes on    *)
(* without its sound, never without its picture.                             *)
Opens(tracks) ==
    /\ at = "opening" /\ ~cancel
    /\ "video" \in tracks /\ tracks \subseteq AcceptedTracks
    /\ thread' = [t \in Threads |->
                    IF t \in tracks \cup {"reader"} THEN "runs" ELSE "none"]
    /\ signals' = [signals EXCEPT !.running = Cardinality(tracks)]
    /\ rate' = [rate EXCEPT !.now = Most(mode.kbps, FloorRate),
                            !.ceiling = Most(mode.kbps, FloorRate)]
    /\ at' = "streaming"
    /\ UNCHANGED <<cancel, pipe, prepare, mode, session, encoded, bus, peer, cause,
                   result>>

(* Some of it fails after some threads were spawned: they are stopped and    *)
(* joined like those of a session that streamed.                             *)
OpenFails(spawned) ==
    /\ at = "opening" /\ ~cancel
    /\ spawned \subseteq AcceptedTracks \cup {"reader"}
    /\ spawned \cap Tracks # {} => "reader" \in spawned
    /\ thread' = [t \in Threads |-> IF t \in spawned THEN "runs" ELSE "none"]
    /\ signals' = [stop |-> TRUE, running |-> Cardinality(AcceptedTracks),
                   outcome |-> "failed"]
    /\ pipe' = "null" /\ at' = "winding"
    /\ UNCHANGED <<cancel, prepare, mode, session, encoded, bus, peer, cause, rate,
                   result>>

(* The first thread to say how the session ended is the one believed. *)
Finish(s, outcome) ==
    IF s.outcome = "none" THEN [s EXCEPT !.outcome = outcome] ELSE s

TrackEnded_Any(s) == Finish([s EXCEPT !.running = @ - 1], "ok")
(* The last track to end reports success. *)
TrackEnded(s) ==
    LET left == [s EXCEPT !.running = @ - 1]
    IN IF s.running = 1 THEN Finish(left, "ok") ELSE left

(* A track's thread runs out of samples. *)
TrackEnds(t) ==
    /\ thread[t] = "runs" /\ ~signals.stop
    /\ thread' = [thread EXCEPT ![t] = "ended"]
    /\ signals' = TrackEnded(signals)
    /\ UNCHANGED <<taskVars, cancel, pipe, prepare, bus, peer, rate>>

(* It fails: no first frame, a send, or samples that cannot be read. *)
TrackFails(t) ==
    /\ thread[t] = "runs"
    /\ thread' = [thread EXCEPT ![t] = "failed"]
    /\ signals' = Finish(signals, "failed")
    /\ UNCHANGED <<taskVars, cancel, pipe, prepare, bus, peer, rate>>

(* It has heard nothing from the receiver for as long as one may be silent. *)
TrackHearsNothing(t) == peer = "gone" /\ ~signals.stop /\ TrackFails(t)

(* A thread sees the stop flag; a track's reports itself ended. *)
ThreadStops(t) ==
    /\ thread[t] = "runs" /\ signals.stop
    /\ thread' = [thread EXCEPT ![t] = "stopped"]
    /\ signals' = IF t \in Tracks THEN TrackEnded(signals) ELSE signals
    /\ UNCHANGED <<taskVars, cancel, pipe, prepare, bus, peer, rate>>

(* The window's bitrate: a fifth off under congestion, a tenth back after    *)
(* enough healthy windows, never above what was agreed.                      *)
Observed(congested) ==
    LET healthy == rate.healthy + 1
    IN IF congested
       THEN [rate EXCEPT !.healthy = 0,
                         !.now = Most((rate.now * 4) \div 5, FloorRate)]
       ELSE IF healthy >= Patience /\ rate.now < rate.ceiling
       THEN [rate EXCEPT !.healthy = 0,
                         !.now = Least((rate.now * 11) \div 10, rate.ceiling)]
       ELSE [rate EXCEPT !.healthy = Least(healthy, Patience)]

(* The video thread looks at a window of sending and retunes the encoder     *)
(* when the rate changed.                                                    *)
Adapts(congested) ==
    /\ thread["video"] = "runs" /\ ~signals.stop /\ rate.windows < MaxWindows
    /\ rate' = [Observed(congested) EXCEPT !.windows = @ + 1]
    /\ encoded' = IF rate'.now = rate.now THEN encoded
                  ELSE [encoded EXCEPT !.kbps = rate'.now]
    /\ UNCHANGED <<at, cancel, pipe, prepare, mode, session, thread, signals, bus,
                   peer, cause, result>>

----------------------------------------------------------------------------
(* The task while it streams. *)

(* The user, the receiver's app or the control channel ends the session: the *)
(* task tells the streaming to stop and waits for it.                        *)
Asks(why) ==
    /\ at = "streaming" /\ cause = "none"
    /\ why = "cancelled" => cancel
    /\ cause' = why
    /\ UNCHANGED <<at, cancel, pipe, prepare, mode, session, encoded, thread, signals,
                   bus, peer, rate, result>>

(* The streaming stops for whichever it sees first; its workers are told,    *)
(* the pipeline stopped, and the threads joined.                             *)
Winds(outcome) ==
    /\ at = "streaming"
    /\ \/ signals.outcome = outcome
       \/ bus = "eos" /\ outcome = "ok"
       \/ bus = "error" /\ outcome = "failed"
       \/ cause # "none" /\ outcome = "ok"
    /\ signals' = [signals EXCEPT !.stop = TRUE, !.outcome = outcome]
    /\ pipe' = "null" /\ at' = "winding"
    /\ UNCHANGED <<cancel, prepare, mode, session, encoded, thread, bus, peer,
                   cause, rate, result>>

Joined_NotWaiting ==
    /\ at = "winding"
    /\ Returns(IF cause = "lost" THEN "failed" ELSE signals.outcome)
    /\ UNCHANGED <<cancel, prepare, mode, session, encoded, thread, signals, bus,
                   peer, cause, rate>>

Joined ==
    /\ at = "winding" /\ Running = {}
    /\ Returns(IF cause = "lost" THEN "failed" ELSE signals.outcome)
    /\ UNCHANGED <<cancel, prepare, mode, session, encoded, thread, signals, bus,
                   peer, cause, rate>>

----------------------------------------------------------------------------
(* The world around it. *)

Cancel ==
    /\ ~cancel /\ at # "over" /\ cancel' = TRUE
    /\ UNCHANGED <<taskVars, pipe, prepare, thread, signals, bus, peer,
                   rate>>

Reports(event) ==
    /\ pipe = "playing" /\ bus = "none" /\ event # "none"
    /\ at \in {"opening", "streaming"}
    /\ bus' = event
    /\ UNCHANGED <<taskVars, cancel, pipe, prepare, thread, signals, peer,
                   rate>>

Vanishes ==
    /\ peer = "talks" /\ at # "over" /\ peer' = "gone"
    /\ UNCHANGED <<taskVars, cancel, pipe, prepare, thread, signals, bus,
                   rate>>

Negotiates ==
    \/ \E a \in Answers : Agrees(a) \/ Refuses(a)
    \/ OfferFails
    \/ OfferCancelled

Opening ==
    \/ OpensCancelled
    \/ \E tracks \in SUBSET Tracks : Opens(tracks)
    \/ \E spawned \in SUBSET Threads : OpenFails(spawned)

MirrorNext ==
    \/ StartFails \/ CancelledEarly \/ Starts
    \/ PrepareReturns \/ Prepared \/ PrepareCancelled \/ Abandoned
    \/ \E size \in Captured : Adopts(size)
    \/ Negotiates
    \/ Opening
    \/ \E t \in Tracks : TrackEnds(t) \/ TrackFails(t)
    \/ \E t \in Threads : ThreadStops(t)
    \/ \E congested \in BOOLEAN : Adapts(congested)
    \/ \E why \in {"cancelled", "closed", "lost"} : Asks(why)
    \/ \E outcome \in {"ok", "failed"} : Winds(outcome)
    \/ Joined
    \/ Cancel \/ Vanishes
    \/ \E event \in {"eos", "error"} : Reports(event)

MirrorSpec == MirrorInit /\ [][MirrorNext]_mirrorVars

Unblocked == pipe = "null" /\ PrepareReturns
Begins == StartFails \/ CancelledEarly \/ Starts
AdoptsSome == \E size \in Captured : Adopts(size)
CancelAsked == Asks("cancelled")
WindsSomehow == \E outcome \in {"ok", "failed"} : Winds(outcome)

(* The task is polled when it can move; a thread that sees the stop flag     *)
(* returns, and one that hears nothing gives up after RECEIVER_SILENCE; the  *)
(* prepare of a stopped pipeline returns, one of a playing pipeline may not. *)
MirrorFairness ==
    /\ WF_mirrorVars(Begins) /\ WF_mirrorVars(Unblocked) /\ WF_mirrorVars(Prepared)
    /\ WF_mirrorVars(PrepareCancelled) /\ WF_mirrorVars(Abandoned) /\ WF_mirrorVars(AdoptsSome)
    /\ WF_mirrorVars(Negotiates) /\ WF_mirrorVars(Opening)
    /\ WF_mirrorVars(CancelAsked) /\ WF_mirrorVars(WindsSomehow) /\ WF_mirrorVars(Joined)
    /\ WF_mirrorVars(TrackHearsNothing("video")) /\ WF_mirrorVars(TrackHearsNothing("audio"))
    /\ WF_mirrorVars(ThreadStops("video")) /\ WF_mirrorVars(ThreadStops("audio"))
    /\ WF_mirrorVars(ThreadStops("reader"))

MirrorFairSpec == MirrorSpec /\ MirrorFairness

----------------------------------------------------------------------------
(* A session reports success only when the user or the receiver's app ended  *)
(* it, the stream reached its end, or every track of it ran out: one track   *)
(* that ends early or fails is never taken for the end (SessionSignals,      *)
(* outcome and mirror, against all their races).                             *)
OkIsEarned ==
    result = "ok" =>
        \/ cancel \/ cause = "closed" \/ bus = "eos"
        \/ \A t \in Tracks : thread[t] \in {"none", "ended"}

(* When the session is over nothing of it is left: no thread sends, reads or *)
(* prepares, and no pipeline captures, however far a failed start had come.  *)
NothingLeftRunning ==
    at = "over" => Running = {} /\ prepare # "runs" /\ pipe # "playing"

(* The agreed mode is one the receiver stated it takes, never larger or      *)
(* faster than the one offered, and no larger than the pacer lets out unless *)
(* the receiver demands it.                                                  *)
AgreedFits ==
    \A a \in session :
        /\ Says[a].video = {} => mode.kbps <= Pacer
        /\ \A l \in Says[a].video :
            /\ mode.size[1] <= l.size[1] /\ mode.size[2] <= l.size[2]
            /\ mode.fps <= l.fps
            /\ mode.kbps \in FloorKbps(l)..CeilingKbps(l)

(* The encoder makes no more than the receiver agreed to: "`ceiling_kbps` is *)
(* the bitrate agreed with the receiver; adaptation only ever goes below it" *)
(* (worker.rs, VideoControl::new).                                           *)
RateIsAgreed == at = "streaming" => encoded.kbps <= mode.kbps

(* A cancelled session ends, also one waiting for a file's prepare, and so   *)
(* does one whose receiver went silent while it streamed.                    *)
SessionEnds ==
    (cancel \/ (at = "streaming" /\ peer = "gone")) ~> at = "over"
=============================================================================
