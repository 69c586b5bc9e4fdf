---------------------------- MODULE CastHttpSession ----------------------------
(***************************************************************************)
(* A screen sent to a Cast device over HTTP (nd-chromecast's session): the *)
(* LOAD of the stream's address, the end of the session, and the drain of  *)
(* the buffer the receiver keeps, which a probe in flight holds the whole  *)
(* loop for.  Delays and rates are in hundredths.                          *)
(***************************************************************************)
EXTENDS StreamServer

CONSTANTS TightenAfter    \* LAG_TIGHTEN_AFTER

Target == [start |-> 90, max |-> 250, min |-> 35, step |-> 25, tighten |-> 10, margin |-> 40]
MaxStallProbes == 2
Natural == 100
DrainRate == 120

VARIABLES
    drain,    \* DrainController, the rate confirmed and the last LagMeter sample
    probe     \* the probe in flight, and the rate it asks for

cast == <<drain, probe>>

Smaller(a, b) == IF a < b THEN a ELSE b
Greater(a, b) == IF a > b THEN a ELSE b

CastTypeOK ==
    /\ drain.target \in Target.min..Target.max /\ drain.floor \in Target.min..Target.max
    /\ drain.stable \in 0..TightenAfter /\ drain.stalls \in 0..(MaxStallProbes + 1)
    /\ drain.frozen \in BOOLEAN /\ drain.enabled \in BOOLEAN /\ drain.stalled \in BOOLEAN
    /\ drain.rate \in {Natural, DrainRate} /\ drain.samples \in 0..2
    /\ drain.stalledAt \in 0..Target.max
    /\ probe.at \in {"idle", "asking", "changing"} /\ probe.rate \in {Natural, DrainRate}

Idle == [at |-> "idle", rate |-> Natural]

(* Off under the film profile; stalledAt is the highest target that ever   *)
(* stalled, kept for the properties only.                                  *)
NewDrain(on) ==
    [target |-> Target.start, floor |-> Target.min, stable |-> 0, stalls |-> 0,
     frozen |-> FALSE, enabled |-> on, rate |-> Natural, samples |-> 0,
     stalled |-> FALSE, stalledAt |-> 0]

CastInit ==
    /\ \E on \in BOOLEAN : drain = NewDrain(on)
    /\ probe = Idle

-----------------------------------------------------------------------------
(* run_with_video *)

CastStarts ==
    /\ kind = "cast" /\ ses.at = "none"
    /\ ses' = [ses EXCEPT !.at = "building"]
    /\ status' = "connecting"
    /\ UNCHANGED <<server, cancel, kind, pipe, drain, probe>>

CastStops ==
    /\ kind = "cast" /\ ses.at \notin {"none", "over"} /\ ~cancel
    /\ cancel' = TRUE
    /\ UNCHANGED <<server, kind, ses, status, pipe, drain, probe>>

CastOver(end) ==
    /\ ses' = [ses EXCEPT !.at = "over", !.end = end]
    /\ status' = IF end = "ok" THEN "disconnected" ELSE "error"
    /\ pipe' = "null"

Finishing(end) ==
    /\ ses' = [ses EXCEPT !.at = "finishing", !.end = end]
    /\ Closed

(* The server, the encoder and the pipeline.                               *)
CastBuilt ==
    /\ kind = "cast" /\ ses.at = "building"
    /\ \/ CastOver("failed")
       \/ cancel /\ CastOver("ok")
       \/ ~cancel /\ ses' = [ses EXCEPT !.at = "connecting"]
          /\ status' = "waitSocket" /\ pipe' = "ready"
    /\ UNCHANGED <<server, cancel, kind, drain, probe>>

CastConnects ==
    /\ ses.at = "connecting"
    /\ \/ CastOver("failed")
       \/ cancel /\ CastOver("ok")
       \/ ~cancel /\ ses' = [ses EXCEPT !.at = "launching"] /\ UNCHANGED <<status, pipe>>
    /\ UNCHANGED <<server, cancel, kind, drain, probe>>

CastLaunches ==
    /\ ses.at = "launching"
    /\ \/ CastOver("failed") /\ UNCHANGED server
       \/ cancel /\ Finishing("ok") /\ UNCHANGED <<status, pipe>>
       \/ ~cancel /\ ses' = [ses EXCEPT !.at = "loading"]
          /\ UNCHANGED <<server, status, pipe>>
    /\ UNCHANGED <<cancel, kind, drain, probe>>

(* LOAD refused, or acknowledged: then the server accepts.                 *)
CastLoads ==
    /\ ses.at = "loading"
    /\ \/ Finishing("failed") /\ UNCHANGED status
       \/ /\ ses' = [ses EXCEPT !.at = "serving"]
          /\ serve' = [Unserved EXCEPT !.at = "accept"]
          /\ status' = "waitStreaming" /\ UNCHANGED <<conn, attendance>>
    /\ UNCHANGED <<cancel, kind, pipe, drain, probe>>

-----------------------------------------------------------------------------
(* serve_receiver: every branch waits while a probe is awaited. *)

InCast == kind = "cast" /\ ses.at = "serving" /\ probe.at = "idle"

CastEnds ==
    /\ InCast
    /\ \/ serve.at \in {"slow", "failed"} /\ Finishing("failed")
       \/ (serve.at = "cancelled" \/ cancel) /\ Finishing("ok")
    /\ UNCHANGED <<cancel, kind, status, pipe, drain, probe>>

(* The first client's deadline, the pipeline's end, the app closed on the  *)
(* TV, the channel closed, or the media refused (receiver_event).          *)
CastEndedBy ==
    /\ InCast
    /\ \/ Finishing("failed")
       \/ (pipe = "playing" \/ serve.at # "off") /\ Finishing("ok")
    /\ UNCHANGED <<cancel, kind, status, pipe, drain, probe>>

(* finish_app: a STOP that was not confirmed fails a session that went     *)
(* well.                                                                   *)
CastFinishes ==
    /\ kind = "cast" /\ ses.at = "finishing"
    /\ \E stopped \in BOOLEAN :
           CastOver(IF ses.end = "ok" /\ ~stopped THEN "failed" ELSE ses.end)
    /\ UNCHANGED <<server, cancel, kind, drain, probe>>

-----------------------------------------------------------------------------
(* LagMeter and DrainController. *)

(* LagMeter::observe: only a second sample can show a stall, and a status  *)
(* without a position leaves the last verdict.                             *)
Observed(d) ==
    {d} \cup {[d EXCEPT !.samples = Smaller(@ + 1, 2), !.stalled = s] :
                 s \in IF d.samples = 0 THEN {FALSE} ELSE BOOLEAN}

\* Mutant: a stall raises the target and leaves the floor.
OnStall_NoFloor(d) ==
    IF ~d.enabled THEN d
    ELSE [d EXCEPT !.stable = 0, !.stalls = @ + 1,
                   !.stalledAt = Greater(@, d.target),
                   !.target = Smaller(@ + Target.step, Target.max),
                   !.enabled = ~d.frozen,
                   !.frozen = @ \/ d.stalls + 1 >= MaxStallProbes]

OnStall(d) ==
    IF ~d.enabled THEN d
    ELSE [d EXCEPT !.stable = 0, !.stalls = @ + 1,
                   !.stalledAt = Greater(@, d.target),
                   !.floor = Smaller(d.target + Target.margin, Target.max),
                   !.target = Smaller(@ + Target.step, Target.max),
                   !.enabled = ~d.frozen,
                   !.frozen = @ \/ d.stalls + 1 >= MaxStallProbes]

(* Tightens after enough stall-free samples in a row; the count is capped  *)
(* where it stops mattering.                                               *)
OnStable(d) ==
    LET counted == [d EXCEPT !.stable = Smaller(@ + 1, TightenAfter)] IN
    IF ~d.enabled THEN d
    ELSE IF d.frozen \/ d.stable + 1 < TightenAfter \/ d.target <= d.floor THEN counted
    ELSE [d EXCEPT !.stable = 0, !.target = Greater(@ - Target.tighten, d.floor)]

Moved(d) == IF d.stalled THEN OnStall(d) ELSE OnStable(d)

(* wanted_rate, for a delay above, at or below the target, when it is not  *)
(* the rate already confirmed.                                             *)
Wanted(d) == IF d.enabled /\ d.samples > 0 THEN {Natural, DrainRate} \ {d.rate} ELSE {}

(* BufferDrain::probe *)
AsksDelay ==
    /\ InCast /\ serve.served
    /\ probe' = [Idle EXCEPT !.at = "asking"]
    /\ UNCHANGED <<server, cancel, kind, ses, status, pipe, drain>>

HearsDelay ==
    /\ probe.at = "asking"
    /\ \/ probe' = Idle /\ UNCHANGED drain
       \/ \E o \in Observed(drain) :
              /\ drain' = Moved(o)
              /\ \/ probe' = Idle
                 \/ \E r \in Wanted(Moved(o)) : probe' = [at |-> "changing", rate |-> r]
    /\ UNCHANGED <<server, cancel, kind, ses, status, pipe>>

(* A refusal switches draining off for the session.                        *)
RateAnswered ==
    /\ probe.at = "changing"
    /\ \/ drain' = [drain EXCEPT !.rate = probe.rate]
       \/ drain' = [drain EXCEPT !.enabled = FALSE]
    /\ probe' = Idle
    /\ UNCHANGED <<server, cancel, kind, ses, status, pipe>>

(* BufferDrain::observe: a status the receiver sends on its own, once the  *)
(* first probe has started the clock.                                      *)
ReceiverReports ==
    /\ InCast /\ serve.served /\ drain.samples > 0
    /\ drain' \in Observed(drain)
    /\ UNCHANGED <<server, cancel, kind, ses, status, pipe, probe>>
=============================================================================
