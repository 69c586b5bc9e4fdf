-------------------------------- MODULE WfdRtsp --------------------------------
(***************************************************************************)
(* One RTSP session with a Miracast receiver (nd-wfd's rtsp): Negotiation, *)
(* which answers each message, and cast_to_sink, which owns the socket,    *)
(* the timers and the pipeline.  Each kind of request we send is awaited   *)
(* at most once at a time, so "pending" is the set of kinds.               *)
(***************************************************************************)
EXTENDS Naturals

CONSTANT Encoders       \* how many encoder candidates there are

ASSUME EncodersAssumption == Encoders \in Nat \ {0}

VARIABLES
    rtsp,   \* the loop: where it is; Negotiation: what is awaited and agreed
    pipe    \* the pipeline once PLAY started it

Awaiting == {"Options", "GetParameter", "SetFormat", "TriggerSetup", "Keepalive"}

Unused == [at |-> "off", pending |-> {}, asked |-> FALSE, mode |-> FALSE, port |-> FALSE,
           streaming |-> FALSE, try |-> 0]

RtspTypeOK ==
    /\ rtsp \in [at : {"off", "reading", "probing", "ended", "failed"}, pending : SUBSET Awaiting,
                 asked : BOOLEAN, mode : BOOLEAN, port : BOOLEAN, streaming : BOOLEAN,
                 try : 0..Encoders]
    /\ pipe \in {"none", "playing", "eos", "error"}

RtspInit == rtsp = Unused /\ pipe = "none"

(* cast_to_sink opens with M1.                                             *)
Begin == rtsp' = [Unused EXCEPT !.at = "reading", !.pending = {"Options"}] /\ pipe' = "none"

Reading == rtsp.at = "reading"

(* The loop is over; a pipeline that reported an error says so itself.     *)
Over(at) == rtsp' = [rtsp EXCEPT !.at = IF pipe = "error" THEN "failed" ELSE at]

(* answered, on_response and choose_format: what a response leads to.      *)
Answered(a) == rtsp.pending \ {a}

ResponseOk(a) ==
    /\ \/ /\ a \in {"Options", "TriggerSetup", "Keepalive"}
          /\ rtsp' = [rtsp EXCEPT !.pending = Answered(a)]
       \/ /\ a = "SetFormat"
          /\ rtsp' = [rtsp EXCEPT !.pending = Answered(a) \cup {"TriggerSetup"}]
       \/ /\ a = "GetParameter"
          /\ \/ \E port \in BOOLEAN :
                   rtsp' = [rtsp EXCEPT !.pending = Answered(a) \cup {"SetFormat"},
                                        !.mode = TRUE, !.port = @ \/ port]
             \/ Over("failed")      \* no AAC, or no mode both sides have
    /\ UNCHANGED pipe

(* A refusal ends the session, unless it is a keepalive's.                 *)
ResponseRefused(a) ==
    /\ \/ a = "Keepalive" /\ rtsp' = [rtsp EXCEPT !.pending = Answered(a)]
       \/ a # "Keepalive" /\ Over("failed")
    /\ UNCHANGED pipe

Response == Reading /\ \E a \in rtsp.pending : ResponseOk(a) \/ ResponseRefused(a)

(* on_request: OPTIONS is M2, and M3 follows it once.                      *)
Options ==
    /\ Reading /\ ~rtsp.asked
    /\ rtsp' = [rtsp EXCEPT !.asked = TRUE, !.pending = @ \cup {"GetParameter"}]
    /\ UNCHANGED pipe

Setup ==
    /\ Reading
    /\ \E port \in BOOLEAN :
           IF rtsp.port \/ port THEN rtsp' = [rtsp EXCEPT !.port = TRUE] ELSE Over("failed")
    /\ UNCHANGED pipe

(* PLAY starts the stream once; without a port or a mode it is an error.   *)
Play ==
    /\ Reading
    /\ \/ ~(rtsp.port /\ rtsp.mode) /\ Over("failed")
       \/ /\ rtsp.port /\ rtsp.mode /\ ~rtsp.streaming
          /\ rtsp' = [rtsp EXCEPT !.streaming = TRUE, !.at = "probing", !.try = 0]
    /\ UNCHANGED pipe

Teardown == Reading /\ Over("ended") /\ UNCHANGED pipe

(* start_pipeline: one encoder after the other until one produces frames.  *)
Probe ==
    /\ rtsp.at = "probing"
    /\ \/ rtsp' = [rtsp EXCEPT !.at = "reading"] /\ pipe' = "playing"
       \/ /\ rtsp.try + 1 < Encoders
          /\ rtsp' = [rtsp EXCEPT !.try = @ + 1] /\ UNCHANGED pipe
       \/ /\ rtsp.try + 1 = Encoders
          /\ Over("failed") /\ UNCHANGED pipe

(* External: the pipeline reaches its end or breaks; the loop reads it     *)
(* later than it happens.                                                  *)
PipelineStops ==
    /\ pipe = "playing" /\ rtsp.at \in {"reading", "probing"}
    /\ pipe' \in {"eos", "error"}
    /\ UNCHANGED rtsp

PipelineRead == Reading /\ pipe \in {"eos", "error"} /\ Over("ended") /\ UNCHANGED pipe

(* The timers of the wait, and a connection that breaks or takes nothing.  *)
NegotiationTimesOut_UntilAgreed ==
    Reading /\ pipe = "none" /\ ~rtsp.mode /\ Over("failed") /\ UNCHANGED pipe

NegotiationTimesOut == Reading /\ pipe = "none" /\ Over("failed") /\ UNCHANGED pipe

KeepaliveTick_Again ==
    /\ Reading /\ pipe # "none"
    /\ rtsp' = [rtsp EXCEPT !.pending = @ \cup {"Keepalive"}]
    /\ UNCHANGED pipe

KeepaliveTick ==
    /\ Reading /\ pipe # "none"
    /\ IF "Keepalive" \in rtsp.pending
       THEN Over("failed")
       ELSE rtsp' = [rtsp EXCEPT !.pending = @ \cup {"Keepalive"}]
    /\ UNCHANGED pipe

ConnectionFails == Reading /\ Over("failed") /\ UNCHANGED pipe

FromReceiver == Response \/ Options \/ Setup \/ Play \/ Teardown \/ ConnectionFails
RtspSteps == Probe \/ PipelineRead

(* The future of cast_to_sink is done with, or dropped where it stands.    *)
RtspDropped == rtsp' = Unused /\ pipe' = "none"
=============================================================================
