------------------------------- MODULE Sinks -------------------------------
(* A session as the cast task drives it (stream_until_cancelled of           *)
(* nd-service/src/cast.rs) over three of the sinks it may be given: a        *)
(* receiver found over mDNS with its fallback from mirroring to HTTP          *)
(* (nd-chromecast/src/lib.rs), the NDI publisher (nd-ndi/src/lib.rs) and the  *)
(* made-up receiver (nd-core/src/dummy.rs); and the status they share with    *)
(* whoever shows it (SinkStatus of nd-core/src/sink.rs).                      *)
EXTENDS Integers, Sequences, FiniteSets

CONSTANTS
    MaxCasts,       \* bound: sessions in a row on one sink
    MaxPolls        \* bound: times the receivers of a publication are counted

IsCastable(kind) == kind \notin {"airplay", "dummy"}

NoLink == [mode |-> "none", receivers |-> -1]

VARIABLES
    sink,       \* the sink: who made it, its kind, and its address if it has one
    caller,     \* the cast task: idle, begun, playing, stopping
    stopAsked,     \* whether the engine has asked it to stop
    doing,         \* start_stream: out, unpolled, or what the session is doing
    slot,       \* the running session's handle: empty, held, signalled
    capture,    \* whether the capture source is held
    pipeline,   \* whether a publication's pipeline is out of Null
    status,     \* the sink's state, whether it carries a message, its link
    outcome,    \* history: what the last start_stream returned: none, ok, error
    casts,      \* sessions so far
    polls       \* counts of receivers so far

sinkVars == <<sink, caller, stopAsked, doing, slot, capture, pipeline, status, outcome, casts, polls>>

Busy == {"Connecting", "EnsuringFirewall", "WaitSocket", "WaitStreaming"}
Fresh == [state |-> "Disconnected", message |-> FALSE, link |-> NoLink]

SinkInit ==
    /\ sink \in {[made |-> "mdns", kind |-> "chromecast", address |-> "ip"],
                 [made |-> "mdns", kind |-> "chromecast", address |-> "none"],
                 [made |-> "mdns", kind |-> "airplay", address |-> "ip"],
                 [made |-> "ndi", kind |-> "ndi", address |-> "none"],
                 [made |-> "dummy", kind |-> "chromecast", address |-> "ip"]}
    /\ caller = "idle" /\ stopAsked = FALSE /\ doing = "out" /\ slot = "empty"
    /\ capture = FALSE /\ pipeline = FALSE
    /\ status = Fresh /\ outcome = "none" /\ casts = 0 /\ polls = 0

(* ------------------------------ the status ------------------------------- *)

\* An error is kept over an idle state, and a link only while a session runs.
Set(s, state) ==
    IF s.state = "Error" /\ state = "Disconnected" THEN s
    ELSE [state |-> state, message |-> s.message /\ state = "Error",
          link |-> IF state \in {"Disconnected", "Error"} THEN NoLink ELSE s.link]

SetLink(s, mode, receivers) == [s EXCEPT !.link = [mode |-> mode, receivers |-> receivers]]
SetReceivers(s, n) == IF s.link = NoLink THEN s ELSE [s EXCEPT !.link.receivers = n]
FailedWith(s) == [state |-> "Error", message |-> TRUE, link |-> NoLink]

(* ------------------------------- the caller ------------------------------ *)

\* The engine refuses a receiver that is only listed.
CastBegins ==
    /\ caller = "idle" /\ casts < MaxCasts /\ IsCastable(sink.kind)
    /\ caller' = "begun" /\ stopAsked' = FALSE /\ capture' = TRUE
    /\ casts' = casts + 1 /\ polls' = 0
    /\ UNCHANGED <<sink, doing, slot, pipeline, status, outcome>>

Cancels ==
    /\ caller # "idle" /\ ~ stopAsked
    /\ stopAsked' = TRUE
    /\ UNCHANGED <<sink, caller, doing, slot, capture, pipeline, status, outcome, casts, polls>>

\* Cancelled before it had the sink, which keeps what it showed, or about to
\* wait for it.
Checks ==
    /\ caller = "begun"
    /\ IF stopAsked
       THEN caller' = "idle" /\ capture' = FALSE /\ UNCHANGED doing
       ELSE caller' = "playing" /\ doing' = "unpolled" /\ UNCHANGED capture
    /\ UNCHANGED <<sink, stopAsked, slot, pipeline, status, outcome, casts, polls>>

\* The sound card or the capture could not be had: the sink is not asked.
CaptureFails ==
    /\ caller = "begun"
    /\ caller' = "idle" /\ capture' = FALSE
    /\ UNCHANGED <<sink, stopAsked, doing, slot, pipeline, status, outcome, casts, polls>>

\* A slip: the cancellation may be looked at before the session has run at all.
SessionFirst_Unbiased == TRUE

\* The select is biased: the session runs up to its first wait before the
\* cancellation is looked at.
SessionFirst == doing # "unpolled"

\* The task asks the sink to stop, then waits for the session itself.
HearsCancel ==
    /\ caller = "playing" /\ stopAsked /\ SessionFirst
    /\ caller' = "stopping"
    /\ IF sink.made = "dummy" THEN status' = Fresh /\ UNCHANGED slot
       ELSE slot' = (IF slot = "held" THEN "signalled" ELSE slot) /\ UNCHANGED status
    /\ UNCHANGED <<sink, stopAsked, doing, capture, pipeline, outcome, casts, polls>>

(* ------------------------------ start_stream ----------------------------- *)

\* start_stream returns, its slot given up, and the task with it.
Returns(result, newStatus) ==
    /\ caller' = "idle" /\ doing' = "out" /\ slot' = "empty" /\ outcome' = result
    /\ capture' = FALSE /\ pipeline' = FALSE /\ status' = newStatus
    /\ UNCHANGED <<sink, stopAsked, casts, polls>>

\* What runs before the first wait: refused at once, or the slot taken and the
\* status cleared.
Polled == caller \in {"playing", "stopping"} /\ doing = "unpolled"

RefusedAtOnce ==
    /\ Polled
    /\ \/ sink.made = "dummy"
       \/ sink.made = "mdns" /\ (sink.kind # "chromecast" \/ sink.address = "none")
    /\ Returns("error", FailedWith(status))

CastStarts ==
    /\ Polled /\ sink = [made |-> "mdns", kind |-> "chromecast", address |-> "ip"] /\ slot = "empty"
    /\ slot' = "held" /\ doing' = "mirroring" /\ status' = Set(Fresh, "Connecting")
    /\ UNCHANGED <<sink, caller, stopAsked, capture, pipeline, outcome, casts, polls>>

\* The publisher has no wait before its pipeline plays: the plugin, the
\* description, the sink's name and the start of the pipeline, any of which fails.
NdiStarts ==
    /\ Polled /\ sink.made = "ndi"
    /\ \/ /\ slot' = "held" /\ doing' = "published" /\ pipeline' = TRUE
          /\ status' = Set(SetLink(Set(Fresh, "WaitStreaming"), "published", 0), "Streaming")
          /\ UNCHANGED <<sink, caller, stopAsked, capture, outcome, casts, polls>>
       \/ Returns("error", FailedWith(status))

(* ----------------------------- a Cast session ---------------------------- *)

Connecting(state) ==
    /\ doing \in {"mirroring", "http"}
    /\ status' = Set(status, state)
    /\ UNCHANGED <<sink, caller, stopAsked, doing, slot, capture, pipeline, outcome, casts, polls>>

\* The mode is agreed, and then pictures flow.
Agrees ==
    /\ doing \in {"mirroring", "http"} /\ status.link = NoLink
    /\ status' = SetLink(status, doing, -1)
    /\ UNCHANGED <<sink, caller, stopAsked, doing, slot, capture, pipeline, outcome, casts, polls>>

Streams ==
    /\ doing \in {"mirroring", "http"} /\ status.link # NoLink
    /\ status' = Set(status, "Streaming")
    /\ UNCHANGED <<sink, caller, stopAsked, doing, slot, capture, pipeline, outcome, casts, polls>>

\* A slip: the status of the attempt given up is carried into the next one.
FallbackStatus_Kept == status
FallbackStatus == Fresh

\* The receiver does not mirror: over HTTP then, unless it was cancelled.
MirroringUnsupported ==
    /\ doing = "mirroring" /\ status.state # "Streaming"
    /\ IF slot = "signalled"
       THEN Returns("ok", Set(status, "Disconnected"))
       ELSE /\ doing' = "http" /\ status' = Set(FallbackStatus, "Connecting")
            /\ UNCHANGED <<sink, caller, stopAsked, slot, capture, pipeline, outcome, casts, polls>>

CastFails ==
    /\ doing \in {"mirroring", "http"}
    /\ Returns("error", FailedWith(status))

\* The receiver closes it, the file ends, or the signal is heard.
CastEnds ==
    /\ doing \in {"mirroring", "http"}
    /\ slot = "signalled" \/ status.state = "Streaming"
    /\ Returns("ok", Set(status, "Disconnected"))

(* ----------------------------- a publication ----------------------------- *)

Counts(n) ==
    /\ doing = "published" /\ polls < MaxPolls
    /\ status' = SetReceivers(status, n) /\ polls' = polls + 1
    /\ UNCHANGED <<sink, caller, stopAsked, doing, slot, capture, pipeline, outcome, casts>>

PublicationFails == doing = "published" /\ Returns("error", FailedWith(status))
PublicationEnds == doing = "published" /\ Returns("ok", Fresh)
HearsSignal == doing = "published" /\ slot = "signalled" /\ Returns("ok", Fresh)

(* ------------------------------ the machine ------------------------------ *)

SinkNext ==
    \/ CastBegins \/ Cancels \/ Checks \/ CaptureFails \/ HearsCancel
    \/ RefusedAtOnce \/ CastStarts \/ NdiStarts
    \/ \E state \in Busy : Connecting(state)
    \/ Agrees \/ Streams \/ MirroringUnsupported \/ CastFails \/ CastEnds
    \/ \E n \in 0..2 : Counts(n)
    \/ PublicationFails \/ PublicationEnds \/ HearsSignal

\* The task runs, and a session that was signalled ends.
SignalledEnds == slot = "signalled" /\ (CastEnds \/ HearsSignal)
SinkFairness ==
    /\ WF_sinkVars(Checks) /\ WF_sinkVars(HearsCancel)
    /\ WF_sinkVars(RefusedAtOnce \/ CastStarts \/ NdiStarts)
    /\ WF_sinkVars(SignalledEnds)

SinkSpec == SinkInit /\ [][SinkNext]_sinkVars /\ SinkFairness

(* ------------------------------- properties ------------------------------ *)

\* A session the engine asked to stop comes to its end: the request is never
\* spent on a sink whose session has not yet left anything to signal.
StopIsHeard == (stopAsked /\ caller # "idle") ~> (caller = "idle")

\* What the sink shows agrees with how its last session went (SinkStatus): while
\* none runs, an error with its cause exactly if the last that was started
\* failed, until the next one is, whatever becomes of a cast that ends before it
\* asks the sink; while one runs, no error; and what was agreed is shown only by
\* the attempt that agreed it.
StatusTellsOutcome ==
    /\ doing \in {"out", "unpolled"} =>
        /\ status.state = (IF outcome = "error" THEN "Error" ELSE "Disconnected")
        /\ (status.message <=> outcome = "error") /\ status.link = NoLink
    /\ doing \in {"mirroring", "http", "published"} =>
        /\ status.state \in Busy \cup {"Streaming"} /\ ~ status.message
        /\ status.link # NoLink => status.link.mode = doing
    /\ capture = (caller # "idle") /\ (doing = "out" => slot = "empty" /\ ~ pipeline)

=============================================================================
