----------------------------- MODULE PipelineBus -----------------------------
(* A running pipeline (nd-core/src/pipeline/mod.rs): how it is built and put  *)
(* down, what its bus tells the session, how a file's synthetic tracks are    *)
(* ended once every decoded track has, and how its latency is recalculated    *)
(* when an encoder learns its delay.  Streaming threads, bus messages, the    *)
(* threads that recalculate and the session interleave.                       *)
(* External: GStreamer.  A decoder exposes all its pads, then says there are  *)
(* no more, then lets them flow; each pad may repeat its end of stream; the   *)
(* pipeline posts end of stream when both its branches have ended.            *)
EXTENDS Integers, Sequences, FiniteSets

CONSTANTS
    Tracks,         \* what a file may decode to
    Capacity,       \* bound: the events the channel holds
    MaxMessages,    \* bound: latency messages, and warnings and errors
    Repeats         \* bound: ends of stream on one pad

ASSUME PipelineAssumption == Capacity \in Nat \ {0} /\ {"audio", "video"} = Tracks

VARIABLES
    media,      \* what the description plays, see Media
    state,      \* the pipeline: being built, failed, ready, playing, null
    pads,       \* each track's pad: hidden, exposed, flowing, ended
    eosLeft,    \* ends of stream each pad may still pass
    exposed,    \* the decoder has said there are no more pads
    remaining,  \* decoded tracks that have not ended
    synthetic,  \* the synthetic sources still running
    queueEnded, \* end of stream was sent into the unlinked audio queue
    events,     \* events in the channel
    heard,      \* whether the session has taken one
    ended,      \* the bus has posted an error or the end of stream
    eos,        \* the pipeline has posted end of stream
    latency,    \* messages so far, and the newest one a recalculation has seen
    spawned,    \* whether a recalculating thread has yet to begin
    walking,    \* the threads walking the graph: the newest message each began after
    busy,       \* the flag that a thread is about to recalculate
    noise       \* warnings and errors so far

busVars == <<media, state, pads, eosLeft, exposed, remaining, synthetic, queueEnded, events,
             heard, ended, eos, latency, spawned, walking, busy, noise>>
fileVars == <<pads, eosLeft, exposed, remaining, synthetic, queueEnded>>
latencyVars == <<latency, spawned, walking, busy>>

\* A song with a drawn picture; a film; a film sent without its sound; a photo,
\* which never ends.  `queue` is the audio queue the decoder feeds.
Media ==
    {[tracks |-> t, queue |-> q, photo |-> p, synthetic |-> s] :
        t \in SUBSET Tracks, q, p \in BOOLEAN, s \in SUBSET {"silence", "picture"}}
Playable ==
    {m \in Media :
        /\ m.queue <=> "silence" \notin m.synthetic
        /\ m.photo => m.tracks = {"video"} /\ m.synthetic = {"silence"}
        /\ m.tracks # {}
        /\ "picture" \in m.synthetic => "audio" \in m.tracks /\ m.queue
        /\ "picture" \notin m.synthetic => "video" \in m.tracks}

BusInit ==
    /\ media \in Playable
    /\ state = "building"
    /\ pads = [t \in Tracks |-> "hidden"] /\ eosLeft = [t \in Tracks |-> Repeats]
    /\ exposed = FALSE /\ remaining = 0
    /\ synthetic = {} /\ queueEnded = FALSE
    /\ events = <<>> /\ heard = FALSE /\ ended = FALSE /\ eos = FALSE
    /\ latency = [asked |-> 0, done |-> 0] /\ noise = 0
    /\ spawned = FALSE /\ walking = {} /\ busy = FALSE

(* ------------------------- building and ending -------------------------- *)

\* GStreamer or the description is refused, or the configuration fails, and
\* nothing is built; READY may be refused, and what was built goes to Null.
BuildConfigured ==
    /\ state = "building"
    /\ \E outcome \in {"refused", "not ready", "ready"} :
        state' = CASE outcome = "refused" -> "failed" [] outcome = "not ready" -> "null"
                   [] OTHER -> "ready"
    /\ UNCHANGED <<media, fileVars, events, heard, ended, eos, latencyVars, noise>>

Plays ==
    /\ state = "ready"
    /\ state' = "playing" /\ synthetic' = media.synthetic
    /\ UNCHANGED <<media, pads, eosLeft, exposed, remaining, queueEnded, events, heard, ended, eos,
                   latencyVars, noise>>

\* The guard is dropped: at the session's end, on an early return, or with the
\* future that held it.
GuardDropped ==
    /\ state \in {"ready", "playing"}
    /\ state' = "null"
    /\ UNCHANGED <<media, fileVars, events, heard, ended, eos, latencyVars, noise>>

(* ------------------------------- the file -------------------------------- *)

Decoding == state = "playing"

PadAdded(t) ==
    /\ Decoding /\ ~ exposed /\ t \in media.tracks /\ pads[t] = "hidden"
    /\ pads' = [pads EXCEPT ![t] = "exposed"]
    /\ remaining' = IF media.photo THEN remaining ELSE remaining + 1
    /\ UNCHANGED <<media, state, eosLeft, exposed, synthetic, queueEnded, events, heard, ended, eos,
                   latencyVars, noise>>

\* No audio pad was linked to the audio queue: it is ended at once.  A slip: never.
EndsUnlinkedQueue_Never == FALSE
EndsUnlinkedQueue == media.queue /\ "audio" \notin media.tracks

NoMorePads ==
    /\ Decoding /\ ~ exposed /\ \A t \in media.tracks : pads[t] = "exposed"
    /\ exposed' = TRUE
    /\ pads' = [t \in Tracks |-> IF t \in media.tracks THEN "flowing" ELSE "hidden"]
    /\ queueEnded' = EndsUnlinkedQueue
    /\ UNCHANGED <<media, state, eosLeft, remaining, synthetic, events, heard, ended, eos,
                   latencyVars, noise>>

\* The first end of stream of a pad counts it out, and the last pad's asks the
\* synthetic sources to end.  A slip: every end of stream counts.
CountedOut_Each(t) == remaining' = remaining - 1

CountedOut(t) == remaining' = IF pads[t] = "ended" THEN remaining ELSE remaining - 1

PadEnds(t) ==
    /\ Decoding /\ pads[t] \in {"flowing", "ended"} /\ eosLeft[t] > 0
    /\ eosLeft' = [eosLeft EXCEPT ![t] = @ - 1]
    /\ pads' = [pads EXCEPT ![t] = "ended"]
    /\ IF media.photo THEN UNCHANGED <<remaining, synthetic>>
       ELSE /\ CountedOut(t)
            /\ synthetic' = IF remaining' # remaining /\ remaining = 1 THEN {} ELSE synthetic
    /\ UNCHANGED <<media, state, exposed, queueEnded, events, heard, ended, eos, latencyVars, noise>>

(* -------------------------------- the bus -------------------------------- *)

VideoEnded ==
    IF "picture" \in media.synthetic THEN "picture" \notin synthetic
    ELSE ~ media.photo /\ pads["video"] = "ended"
AudioEnded ==
    IF "silence" \in media.synthetic THEN "silence" \notin synthetic
    ELSE queueEnded \/ pads["audio"] = "ended"

\* What does not fit the channel is dropped.
SendsEvent(event) == events' = IF Len(events) < Capacity THEN Append(events, event) ELSE events

BusEos ==
    /\ Decoding /\ exposed /\ ~ eos /\ VideoEnded /\ AudioEnded
    /\ eos' = TRUE /\ ended' = TRUE /\ SendsEvent("end")
    /\ UNCHANGED <<media, state, fileVars, heard, latencyVars, noise>>

BusError ==
    /\ Decoding /\ noise < MaxMessages
    /\ noise' = noise + 1 /\ ended' = TRUE /\ SendsEvent("end")
    /\ UNCHANGED <<media, state, fileVars, heard, eos, latencyVars>>

\* A slip: warnings go down the channel too.
BusWarning_Sent ==
    /\ Decoding /\ noise < MaxMessages
    /\ noise' = noise + 1 /\ SendsEvent("warning")
    /\ UNCHANGED <<media, state, fileVars, heard, ended, eos, latencyVars>>

\* Warnings are only logged.
BusWarning ==
    /\ Decoding /\ noise < MaxMessages
    /\ noise' = noise + 1
    /\ UNCHANGED <<media, state, fileVars, events, heard, ended, eos, latencyVars>>

Drains ==
    /\ events # <<>>
    /\ events' = Tail(events) /\ heard' = (heard \/ Head(events) = "end")
    /\ UNCHANGED <<media, state, fileVars, ended, eos, latencyVars, noise>>

(* ----------------------------- the latency ------------------------------- *)

\* A message starts a thread unless one has yet to begin.
BusLatency ==
    /\ Decoding /\ latency.asked < MaxMessages
    /\ latency' = [latency EXCEPT !.asked = @ + 1]
    /\ spawned' = (spawned \/ ~ busy) /\ busy' = TRUE
    /\ UNCHANGED <<media, state, fileVars, events, heard, ended, eos, walking, noise>>

\* The thread lets the next message start another before it walks the graph.  A
\* slip: only after.
ClearsFlag_After(step) == step = "walked"
ClearsFlag(step) == step = "began"

ThreadBegins ==
    /\ spawned
    /\ spawned' = FALSE /\ walking' = walking \cup {latency.asked}
    /\ busy' = (busy /\ ~ ClearsFlag("began"))
    /\ UNCHANGED <<media, state, fileVars, events, heard, ended, eos, latency, noise>>

ThreadWalked ==
    /\ \E seen \in walking :
        /\ walking' = walking \ {seen}
        /\ latency' = [latency EXCEPT !.done = IF seen > @ THEN seen ELSE @]
    /\ busy' = (busy /\ ~ ClearsFlag("walked"))
    /\ UNCHANGED <<media, state, fileVars, events, heard, ended, eos, spawned, noise>>

(* ------------------------------ the machine ------------------------------ *)

FileNext == \/ \E t \in Tracks : PadAdded(t) \/ PadEnds(t)
            \/ NoMorePads \/ BusEos
BusNext ==
    \/ BuildConfigured \/ Plays \/ GuardDropped \/ FileNext
    \/ BusError \/ BusWarning \/ Drains
    \/ BusLatency \/ ThreadBegins \/ ThreadWalked

BusSpec == BusInit /\ [][BusNext]_busVars

(* ------------------------------ properties ------------------------------- *)

\* Once the bus has reported an error or the end, the session hears of it,
\* however many messages came before: it has taken one, or one is in the channel.
EndIsHeard == ended => heard \/ \E i \in DOMAIN events : events[i] = "end"

\* No decoded track is cut short by the end of the synthetic ones, or by an end
\* of stream posted early, though pads repeat theirs.
NothingCutShort ==
    (state = "playing" /\ (eos \/ synthetic # media.synthetic)) =>
        \A t \in media.tracks : pads[t] = "ended"

\* The newest latency an element asked for is applied, or a thread that will
\* still read it is under way: a burst of messages loses none.
LatencyNeverStale == latency.done < latency.asked => spawned \/ latency.asked \in walking

\* What elements report is acted on: the end is heard and is the real one, and
\* the newest latency is applied (pipeline/mod.rs, file.rs).
BusIsHeeded == EndIsHeard /\ NothingCutShort /\ LatencyNeverStale

=============================================================================
