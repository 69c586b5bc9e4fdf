----------------------------- MODULE DlnaSession -----------------------------
(***************************************************************************)
(* A screen or a file streamed to a DLNA television (nd-dlna): the sink    *)
(* and its session slot, the handshake that runs while the server is       *)
(* already accepting, the polls of the renderer's state, and the pause     *)
(* that either side may begin.  The renderer is external.                  *)
(***************************************************************************)
EXTENDS StreamServer

CONSTANTS
    MaxSessions,    \* bound: sessions that show the screen; a file's begins once
    Attempts        \* START_ATTEMPTS

IdlePolls == 2                     \* IDLE_POLLS_BEFORE_ENDING

VARIABLES
    slot,    \* DlnaSink::session: the number in it, 0 for None
    old,     \* the cancelled sessions whose slot was taken, each at its own step
    hs,      \* the handshake: its step, how often it was tried, settled
    watch,   \* until_renderer_stops and the pause watcher
    tv       \* the renderer's transport state

dlna == <<slot, old, hs, watch, tv>>

States == {"disconnected", "connecting", "waitSocket", "waitStreaming", "streaming", "error"}
Transport == {"idle", "transitioning", "playing", "paused", "off"}

Readers == {"none", "admitted", "shown"}
OldSessions ==
    [number : Nat, at : {"building", "built", "picture", "serving", "stopping"},
     end : {"ok", "failed"}, step : {"none", "uri", "play", "done"}, reader : Readers]

DlnaTypeOK ==
    /\ slot \in Nat /\ ses.number \in Nat /\ old \subseteq OldSessions
    /\ status \in States
    /\ hs.step \in {"none", "uri", "play", "done"} /\ hs.attempts \in Nat
    /\ watch.idle \in 0..IdlePolls /\ watch.poll \in Transport \cup {None}
    /\ watch.tell \in {None, "pause", "play"}
    /\ pipe \in {"null", "ready", "playing", "paused"}
    /\ tv \in Transport

Unwatched ==
    [played |-> FALSE, idle |-> 0, byTv |-> FALSE, here |-> FALSE, poll |-> None,
     tell |-> None]
NoHandshake == [step |-> "none", attempts |-> 0, settled |-> FALSE]

DlnaInit ==
    /\ ses = [at |-> "none", number |-> 0, end |-> "ok"]
    /\ slot = 0 /\ old = {}
    /\ status = "disconnected"
    /\ hs = NoHandshake /\ watch = Unwatched
    /\ pipe = "null" /\ tv = "idle"

(* SinkStatus::set: an error is kept over Disconnected.                    *)
SetStatus(s) == IF status = "error" /\ s = "disconnected" THEN status ELSE s

-----------------------------------------------------------------------------
(* DlnaSink. *)

(* A cancelled session goes on by itself, whatever it was doing.           *)
SetAside ==
    [number |-> ses.number, at |-> ses.at, end |-> ses.end, step |-> hs.step,
     reader |-> IF serve.served THEN "shown"
                ELSE IF serve.at = "hand" THEN "admitted" ELSE "none"]

(* start_stream, unless the slot holds a session nobody stopped.           *)
StartStream ==
    /\ kind # "cast" /\ ses.number < (IF kind = "screen" THEN MaxSessions ELSE 1)
    /\ slot = 0 \/ cancel
    /\ old' = IF ses.at \in {"none", "over"} THEN old ELSE old \cup {SetAside}
    /\ ses' = [at |-> "building", number |-> ses.number + 1, end |-> "ok"]
    /\ slot' = ses.number + 1
    /\ cancel' = FALSE /\ status' = "connecting"
    /\ hs' = NoHandshake /\ watch' = Unwatched /\ pipe' = "null"
    /\ Closed
    /\ UNCHANGED <<kind, tv>>

StopStream ==
    /\ kind # "cast" /\ slot # 0 /\ slot = ses.number /\ ~cancel
    /\ cancel' = TRUE
    /\ UNCHANGED <<server, kind, ses, slot, old, status, hs, watch, pipe, tv>>

\* Mutant: whoever returns empties the slot.
Emptied_Whoever(n) == 0

(* Only its own session is cleared.                                        *)
Emptied(n) == IF slot = n THEN 0 ELSE slot

Result(end) == IF end = "ok" THEN SetStatus("disconnected") ELSE "error"

(* The session that ends tells the renderer, whatever its answer.          *)
Silenced == tv' \in IF tv = "off" THEN {tv} ELSE {tv, "idle"}

Over(end) ==
    /\ ses' = [ses EXCEPT !.at = "over", !.end = end]
    /\ slot' = Emptied(ses.number)
    /\ status' = Result(end)
    /\ pipe' = "null"

Stopped ==
    /\ kind # "cast" /\ ses.at = "stopping"
    /\ Silenced /\ Over(ses.end)
    /\ UNCHANGED <<server, cancel, kind, old, hs, watch>>

-----------------------------------------------------------------------------
(* session::stream *)

(* The server, the encoder, the pipeline and, for a file, its preroll.     *)
Built ==
    /\ kind # "cast" /\ ses.at = "building"
    /\ \/ Over("failed")
       \/ cancel /\ Over("ok")
       \/ /\ ~cancel
          /\ ses' = [ses EXCEPT !.at = IF kind = "screen" THEN "picture" ELSE "ready"]
          /\ pipe' = IF kind = "screen" THEN "playing" ELSE "ready"
          /\ status' = "waitSocket" /\ UNCHANGED slot
    /\ UNCHANGED <<server, cancel, kind, old, hs, watch, tv>>

Ends(end) ==
    /\ ses' = [ses EXCEPT !.at = "stopping", !.end = end]
    /\ hs' = NoHandshake /\ watch' = Unwatched
    /\ Closed

(* start_picture: the first frame, or three seconds; then the server       *)
(* accepts and the handshake begins beside it.                             *)
Serve ==
    /\ ses.at \in {"picture", "ready"} /\ kind # "cast"
    /\ \/ /\ ses.at = "picture" /\ (Ends("failed") \/ (cancel /\ Ends("ok")))
       \/ /\ ses' = [ses EXCEPT !.at = "serving"]
          /\ serve' = [Unserved EXCEPT !.at = "accept"]
          /\ hs' = [NoHandshake EXCEPT !.step = "uri", !.attempts = 1]
          /\ UNCHANGED <<conn, attendance, watch>>
    /\ UNCHANGED <<cancel, kind, slot, old, status, pipe, tv>>

InServing == kind # "cast" /\ ses.at = "serving"

(* hand_over: Stop, whatever the answer, and SetAVTransportURI; then Play. *)
HandUri ==
    /\ InServing /\ hs.step = "uri"
    /\ \/ /\ tv # "off" /\ tv' \in {tv, "idle"}
          /\ hs' = [hs EXCEPT !.step = "play"] /\ UNCHANGED <<server, ses, watch>>
       \/ Ends("failed") /\ UNCHANGED tv
    /\ UNCHANGED <<cancel, kind, slot, old, status, pipe>>

\* Mutant: the state says "waiting" whether or not it was fetched meanwhile.
HandPlay_Waiting ==
    /\ InServing /\ hs.step = "play"
    /\ \/ /\ tv # "off" /\ tv' = "transitioning"
          /\ hs' = [hs EXCEPT !.step = "done"]
          /\ status' = "waitStreaming"
          /\ UNCHANGED <<server, ses, watch>>
       \/ Ends("failed") /\ UNCHANGED <<status, tv>>
    /\ UNCHANGED <<cancel, kind, slot, old, pipe>>

HandPlay ==
    /\ InServing /\ hs.step = "play"
    /\ \/ /\ tv # "off" /\ tv' = "transitioning"
          /\ hs' = [hs EXCEPT !.step = "done"]
          /\ status' = IF serve.served THEN status ELSE "waitStreaming"
          /\ UNCHANGED <<server, ses, watch>>
       \/ Ends("failed") /\ UNCHANGED <<status, tv>>
    /\ UNCHANGED <<cancel, kind, slot, old, pipe>>

(* start_watch: a connection that lasted settles the start; a stream       *)
(* nobody reads any more is handed over again.                             *)
Settles ==
    /\ InServing /\ hs.step = "done" /\ hs.attempts < Attempts /\ ~hs.settled
    /\ MayHaveLasted
    /\ hs' = [hs EXCEPT !.settled = TRUE]
    /\ UNCHANGED <<server, cancel, kind, ses, slot, old, status, watch, pipe, tv>>

\* Mutant: any reader that left counts.
GivenUp_AnyLeft == attendance.left

GivenUp == Abandoned /\ ~attendance.lasted

HandsOverAgain ==
    /\ InServing /\ hs.step = "done" /\ hs.attempts < Attempts /\ ~hs.settled
    /\ GivenUp /\ serve.at # "hand"
    /\ hs' = [hs EXCEPT !.step = "uri", !.attempts = @ + 1]
    /\ UNCHANGED <<server, cancel, kind, ses, slot, old, status, watch, pipe, tv>>

(* The first client starts a file's pipeline and shows the stream.         *)
FirstClient ==
    IF serve.served THEN UNCHANGED <<status, pipe>>
    ELSE status' = "streaming" /\ pipe' = "playing"

(* serve returned, or nobody came in time.                                 *)
ServingEnds ==
    /\ InServing
    /\ \/ serve.at = "cancelled" /\ Ends("ok")
       \/ serve.at \in {"slow", "failed"} /\ Ends("failed")
       \/ ~serve.served /\ Ends("failed")
    /\ UNCHANGED <<cancel, kind, slot, old, status, pipe, tv>>

(* The pipeline failed, or reached the file's end.                         *)
ServingFails ==
    /\ InServing
    /\ Ends("failed") \/ (pipe = "playing" /\ Ends("ok"))
    /\ UNCHANGED <<cancel, kind, slot, old, status, pipe, tv>>

-----------------------------------------------------------------------------
(* A screen's session that was cancelled and whose place was taken: what   *)
(* it still does until it looks at its cancellation, and writes over the   *)
(* status it shares with the next one.                                     *)

Becomes(o, p) == old' = (old \ {o}) \cup {p}

OldBuilds(o) ==
    /\ o.at = "building"
    /\ Becomes(o, [o EXCEPT !.at = "built"])
    /\ status' = "waitSocket"
    /\ UNCHANGED <<slot, tv>>

OldStarts(o) ==
    /\ o.at = "picture"
    /\ Becomes(o, [o EXCEPT !.at = "serving", !.step = "uri"])
    /\ UNCHANGED <<slot, status, tv>>

(* The reader it had admitted already.                                     *)
OldShows(o) ==
    /\ o.at = "serving" /\ o.reader = "admitted"
    /\ Becomes(o, [o EXCEPT !.reader = "shown"])
    /\ status' = "streaming"
    /\ UNCHANGED <<slot, tv>>

OldHandsOver(o) ==
    /\ o.at = "serving" /\ tv # "off"
    /\ \/ /\ o.step = "uri" /\ tv' \in {tv, "idle"}
          /\ Becomes(o, [o EXCEPT !.step = "play"]) /\ UNCHANGED status
       \/ /\ o.step = "play" /\ tv' = "transitioning"
          /\ Becomes(o, [o EXCEPT !.step = "done"])
          /\ status' = IF o.reader = "shown" THEN status ELSE "waitStreaming"
       \/ /\ o.step = "done" /\ o.reader = "shown"
          /\ Becomes(o, [o EXCEPT !.step = "uri"]) /\ UNCHANGED <<status, tv>>
    /\ UNCHANGED slot

OldEnds(o) ==
    /\ o.at \in {"picture", "serving"}
    /\ \E end \in {"ok", "failed"} :
           Becomes(o, [o EXCEPT !.at = "stopping", !.end = end, !.step = "none",
                                !.reader = "none"])
    /\ UNCHANGED <<slot, status, tv>>

(* session::run returned; only a session that served tells the renderer.   *)
OldReturns(o) ==
    /\ \/ o.at = "building" /\ status' = "error" /\ UNCHANGED tv
       \/ o.at = "built" /\ status' = Result("ok") /\ UNCHANGED tv
       \/ o.at = "stopping" /\ status' = Result(o.end) /\ Silenced
    /\ old' = old \ {o}
    /\ slot' = Emptied(o.number)

OldTask ==
    /\ \E o \in old : \/ OldBuilds(o) \/ OldStarts(o) \/ OldShows(o)
                      \/ OldHandsOver(o) \/ OldEnds(o) \/ OldReturns(o)
    /\ UNCHANGED <<server, cancel, kind, ses, hs, watch, pipe>>

-----------------------------------------------------------------------------
(* until_renderer_stops, polled once the handshake is done. *)

AsksState ==
    /\ InServing /\ hs.step = "done" /\ watch.poll = None
    /\ watch' = [watch EXCEPT !.poll = tv]
    /\ UNCHANGED <<server, cancel, kind, ses, slot, old, status, hs, pipe, tv>>

Heard(w) == [w EXCEPT !.poll = None]

HearsPlaying ==
    /\ watch.poll = "playing"
    /\ watch' = Heard([watch EXCEPT !.played = TRUE, !.idle = 0, !.byTv = FALSE,
                                    !.here = @ /\ ~watch.byTv])
    /\ pipe' = IF watch.byTv THEN "playing" ELSE pipe
    /\ UNCHANGED <<server, ses, hs>>

(* A pause begun on the television holds the file.                         *)
HearsPaused ==
    LET byTv == kind = "file" /\ watch.played /\ ~watch.here IN
    /\ watch.poll = "paused"
    /\ byTv \/ watch.here \/ ~watch.played
    /\ watch' = Heard(IF byTv THEN [watch EXCEPT !.byTv = TRUE, !.here = TRUE, !.idle = 0]
                      ELSE IF watch.here THEN [watch EXCEPT !.idle = 0] ELSE watch)
    /\ pipe' = IF byTv THEN "paused" ELSE pipe
    /\ UNCHANGED <<server, ses, hs>>

HearsLoading ==
    /\ watch.poll = "transitioning" \/ (watch.poll = "idle" /\ ~watch.played)
    /\ watch' = Heard(IF watch.poll = "idle" THEN watch ELSE [watch EXCEPT !.idle = 0])
    /\ UNCHANGED <<server, ses, hs, pipe>>

\* Mutant: a television that does not answer is asked again, for ever.
HearsIdle_NotGone ==
    /\ \/ watch.poll = "idle" /\ watch.played
       \/ watch.poll = "paused" /\ watch.played /\ kind = "screen"
    /\ IF watch.idle + 1 = IdlePolls THEN Ends("ok")
       ELSE watch' = Heard([watch EXCEPT !.idle = @ + 1]) /\ UNCHANGED <<server, ses, hs>>
    /\ UNCHANGED pipe

HearsIdle ==
    /\ \/ watch.poll = "off"
       \/ watch.poll = "idle" /\ watch.played
       \/ watch.poll = "paused" /\ watch.played /\ kind = "screen"
    /\ IF watch.idle + 1 = IdlePolls THEN Ends("ok")
       ELSE watch' = Heard([watch EXCEPT !.idle = @ + 1]) /\ UNCHANGED <<server, ses, hs>>
    /\ UNCHANGED pipe

Hears ==
    /\ InServing /\ hs.step = "done"
    /\ HearsPlaying \/ HearsPaused \/ HearsLoading \/ HearsIdle
    /\ UNCHANGED <<cancel, kind, slot, old, status, tv>>

-----------------------------------------------------------------------------
(* A file's pause. *)

(* FilePlaybackControl: the player holds or resumes the pipeline.          *)
PlayerPauses ==
    /\ InServing /\ kind = "file" /\ pipe \in {"playing", "paused"}
    /\ pipe' = IF pipe = "playing" THEN "paused" ELSE "playing"
    /\ UNCHANGED <<server, cancel, kind, ses, slot, old, status, hs, watch, tv>>

(* pause_watch: a pause the renderer has not been told of is passed on.    *)
PassesOn ==
    /\ InServing /\ kind = "file" /\ hs.step = "done" /\ serve.served
    /\ watch.tell = None /\ watch.here # (pipe = "paused")
    /\ watch' = [watch EXCEPT !.here = pipe = "paused",
                              !.tell = IF pipe = "paused" THEN "pause" ELSE "play"]
    /\ UNCHANGED <<server, cancel, kind, ses, slot, old, status, hs, pipe, tv>>

(* follow_pause: a renderer that refuses Play is handed the URL again,     *)
(* which it may refuse as well.                                            *)
Tells ==
    /\ InServing /\ watch.tell # None
    /\ tv' \in IF tv = "off" THEN {tv}
              ELSE {tv, IF watch.tell = "pause" THEN "paused" ELSE "playing"}
    /\ watch' = [watch EXCEPT !.tell = None]
    /\ UNCHANGED <<server, cancel, kind, ses, slot, old, status, hs, pipe>>

-----------------------------------------------------------------------------
(* External: the renderer, its remote and its mains switch. *)

Fed == \E c \in Sockets : conn[c] = "fed"

TvPlays ==
    /\ kind # "cast" /\ tv \in {"transitioning", "paused"} /\ Fed /\ tv' = "playing"
    /\ UNCHANGED <<server, cancel, kind, ses, slot, old, status, hs, watch, pipe>>

TvPauses ==
    /\ kind # "cast" /\ tv = "playing" /\ tv' = "paused"
    /\ UNCHANGED <<server, cancel, kind, ses, slot, old, status, hs, watch, pipe>>

TvStops ==
    /\ kind # "cast" /\ tv \in {"transitioning", "playing", "paused"} /\ tv' = "idle"
    /\ UNCHANGED <<server, cancel, kind, ses, slot, old, status, hs, watch, pipe>>

TvOff ==
    /\ kind # "cast" /\ tv # "off" /\ tv' = "off"
    /\ UNCHANGED <<server, cancel, kind, ses, slot, old, status, hs, watch, pipe>>
=============================================================================
