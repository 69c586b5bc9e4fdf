------------------------------- MODULE Miracast -------------------------------
(***************************************************************************)
(* A Miracast cast, whole (nd-wfd's WfdSink and cast): the group, then the *)
(* ports, then the receiver's connection, then the stream, and all of it   *)
(* given back whichever step fails or is cancelled.  A receiver that never *)
(* connects is tried again with a fresh group.  The daemon may die between *)
(* any two steps.                                                          *)
(***************************************************************************)
EXTENDS Firewall, WifiDirect, WfdRtsp

CONSTANTS
    SessionAttempts,
    MaxCasts, MaxCrashes    \* bounds: casts in one run, runs that die

ASSUME MiracastAssumption == SessionAttempts \in Nat \ {0}

VARIABLES
    ses,        \* cast::run: where it is, which attempt, how this one ended
    slot,       \* WfdSink.cancel holds the sender
    status,     \* SinkStatus
    quiet,      \* the radio guard is held
    spoiled,    \* a call was refused, or a run died with a port off the record
    casts, crashes

session == <<ses, slot, status, quiet, casts>>
vars == <<firewall, wifi, cancel, rtsp, pipe, session, spoiled, crashes>>

NoSession == [at |-> "idle", attempt |-> 0, outcome |-> "none"]

TypeOK ==
    /\ FirewallTypeOK /\ WifiTypeOK /\ RtspTypeOK
    /\ ses \in [at : {"idle", "opening", "joining", "firewall", "listening", "rtsp", "closing",
                      "leaving", "pausing"},
                attempt : 0..SessionAttempts, outcome : {"none", "ok", "never", "error"}]
    /\ slot \in BOOLEAN /\ quiet \in BOOLEAN /\ spoiled \in BOOLEAN
    /\ status \in {"Disconnected", "Connecting", "EnsuringFirewall", "WaitSocket", "Streaming", "Error"}
    /\ casts \in 0..MaxCasts /\ crashes \in 0..MaxCrashes

Init ==
    /\ FirewallInit /\ WifiInit /\ RtspInit
    /\ ses = NoSession /\ slot = FALSE /\ status = "Disconnected" /\ quiet = FALSE
    /\ cancel = FALSE /\ spoiled = FALSE /\ casts = 0 /\ crashes = 0

External == <<spoiled, crashes>>

(* start_stream's end: SinkStatus::set keeps an error over Disconnected.   *)
Finish(ok) ==
    /\ ses' = NoSession /\ slot' = FALSE
    /\ status' = IF ~ok \/ status = "Error" THEN "Error" ELSE "Disconnected"

(* The head of run's loop: the n-th attempt.                               *)
NextAttempt(n) ==
    IF cancel THEN Finish(TRUE) /\ UNCHANGED wd
    ELSE /\ ses' = [at |-> "joining", attempt |-> n, outcome |-> "none"]
         /\ wd' = Try(1)
         /\ status' = "Connecting" /\ UNCHANGED slot

StartStream ==
    /\ ses.at = "idle" /\ casts < MaxCasts
    /\ ses' = [NoSession EXCEPT !.at = "opening"]
    /\ slot' = TRUE /\ cancel' = FALSE /\ status' = "Connecting" /\ casts' = casts + 1
    /\ UNCHANGED <<firewall, wifi, rtsp, pipe, quiet, External>>

(* stop_stream takes the sender; the session does the rest.                *)
StopStream ==
    /\ ses.at # "idle"
    /\ slot' = FALSE /\ cancel' = (cancel \/ slot)
    /\ status' = "Disconnected"
    /\ UNCHANGED <<firewall, wifi, rtsp, pipe, ses, quiet, casts, External>>

(* P2pDevice::open.                                                        *)
OpenDevice ==
    /\ ses.at = "opening"
    /\ NextAttempt(1) \/ (Finish(FALSE) /\ UNCHANGED wd)
    /\ UNCHANGED <<firewall, nm, cancel, rtsp, pipe, quiet, casts, External>>

Joining ==
    /\ ses.at = "joining" /\ JoinSteps
    /\ UNCHANGED <<firewall, rtsp, pipe, session, External>>

(* A group that is not torn down is only logged.                           *)
Refusing == Refused /\ spoiled' = TRUE /\ UNCHANGED <<open, theirs, record, fw, crashes>>

DropRefused ==
    /\ ses.at = "joining" /\ Drop(TRUE) /\ Refusing
    /\ UNCHANGED <<rtsp, pipe, session>>

JoinEnds ==
    /\ ses.at = "joining" /\ wd.at \in {"cancelled", "failed"}
    /\ Finish(cancel) /\ wd' = NoJoin
    /\ UNCHANGED <<firewall, nm, cancel, rtsp, pipe, quiet, casts, External>>

(* The group is up: the radio is kept quiet, and run_session opens the     *)
(* ports; told to stop in between it leaves the group at once.             *)
Joined ==
    /\ ses.at = "joining" /\ wd.at = "joined"
    /\ wd' = NoJoin
    /\ \/ /\ cancel
          /\ ses' = [ses EXCEPT !.at = "leaving", !.outcome = "ok"]
          /\ UNCHANGED <<firewall, status, quiet>>
       \/ /\ ~cancel
          /\ ses' = [ses EXCEPT !.at = "firewall"]
          /\ status' = "EnsuringFirewall" /\ quiet' = TRUE
          /\ EnsurePortsOpen
    /\ UNCHANGED <<nm, cancel, rtsp, pipe, slot, casts, External>>

Closes(outcome) ==
    /\ ses' = [ses EXCEPT !.at = "closing", !.outcome = outcome]
    /\ Release /\ RtspDropped

(* serve: bind, then the wait for the receiver's connection.               *)
Listens ==
    /\ ses.at = "firewall"
    /\ \/ /\ fw["cast"].at = "failed"
          /\ fw' = [fw EXCEPT !["cast"] = Idle]
          /\ ses' = [ses EXCEPT !.at = "leaving", !.outcome = "error"]
          /\ UNCHANGED <<open, theirs, record, refused, status, rtsp, pipe>>
       \/ fw["cast"].at = "opened" /\ cancel /\ Closes("ok") /\ UNCHANGED status
       \/ fw["cast"].at = "opened" /\ ~cancel /\ Closes("error") /\ status' = "WaitSocket"
       \/ /\ fw["cast"].at = "opened" /\ ~cancel
          /\ ses' = [ses EXCEPT !.at = "listening"] /\ status' = "WaitSocket"
          /\ UNCHANGED <<firewall, rtsp, pipe>>
    /\ UNCHANGED <<wifi, cancel, slot, quiet, casts, External>>

(* External: the receiver opens its RTSP connection; from here on no other *)
(* attempt follows, and which one this was is forgotten.                   *)
ReceiverConnects ==
    /\ ses.at = "listening"
    /\ ses' = [ses EXCEPT !.at = "rtsp", !.attempt = 0] /\ status' = "Streaming"
    /\ Begin
    /\ UNCHANGED <<firewall, wifi, cancel, slot, quiet, casts, External>>

NeverConnects ==
    /\ ses.at = "listening" /\ Closes("never")
    /\ UNCHANGED <<wifi, cancel, slot, status, quiet, casts, External>>

(* cancel.changed() in serve, before or during the stream.                 *)
ServeCancelled_WhileWaiting ==
    /\ ses.at = "listening" /\ cancel /\ Closes("ok")
    /\ UNCHANGED <<wifi, cancel, slot, status, quiet, casts, External>>

ServeCancelled ==
    /\ ses.at \in {"listening", "rtsp"} /\ cancel /\ Closes("ok")
    /\ UNCHANGED <<wifi, cancel, slot, status, quiet, casts, External>>

Streams(step) ==
    /\ ses.at = "rtsp" /\ step
    /\ UNCHANGED <<firewall, wifi, cancel, session, External>>

StreamEnds ==
    /\ ses.at = "rtsp" /\ rtsp.at \in {"ended", "failed"}
    /\ Closes(IF rtsp.at = "ended" THEN "ok" ELSE "error")
    /\ UNCHANGED <<wifi, cancel, slot, status, quiet, casts, External>>

(* A port that is not opened spoils nothing; one that is not closed, or    *)
(* not written down, does.                                                 *)
Firewalling ==
    /\ FirewallSteps
    /\ spoiled' = (spoiled \/ (refused' > refused /\ fw["cast"].at # "open"))
    /\ UNCHANGED <<wifi, cancel, rtsp, pipe, session, crashes>>

PortsReleased ==
    /\ ses.at = "closing" /\ fw["cast"] = Idle
    /\ ses' = [ses EXCEPT !.at = "leaving"]
    /\ UNCHANGED <<firewall, wifi, cancel, rtsp, pipe, slot, status, quiet, casts, External>>

(* The group is torn down whatever happened, and the radio let go.         *)
LeaveGroup ==
    /\ ses.at = "leaving"
    /\ \E refusal \in BOOLEAN :
        /\ TearsDown(refusal)
        /\ IF refusal THEN Refusing ELSE UNCHANGED <<firewall, External>>
        /\ \/ ses.outcome = "ok" /\ Finish(~refusal)
           \/ ses.outcome = "error" /\ Finish(FALSE)
           \/ ses.outcome = "never" /\ ses.attempt = SessionAttempts /\ Finish(FALSE)
           \/ /\ ses.outcome = "never" /\ ses.attempt < SessionAttempts
              /\ ses' = [ses EXCEPT !.at = "pausing"]
              /\ status' = "Connecting" /\ UNCHANGED slot
    /\ quiet' = FALSE
    /\ UNCHANGED <<wd, cancel, rtsp, pipe, casts>>

Pause ==
    /\ ses.at = "pausing"
    /\ NextAttempt(ses.attempt + 1)
    /\ UNCHANGED <<firewall, nm, cancel, rtsp, pipe, quiet, casts, External>>

NetworkMoves ==
    /\ GroupMoves
    /\ UNCHANGED <<firewall, rtsp, pipe, session, External>>

FirewallReloads ==
    /\ Reload
    /\ UNCHANGED <<wifi, cancel, rtsp, pipe, session, External>>

(* The daemon dies and is started again: NetworkManager drops a group      *)
(* bound to its client, the ports stay.                                    *)
Crash ==
    /\ crashes < MaxCrashes /\ crashes' = crashes + 1
    /\ FirewallRestarts
    /\ spoiled' = (spoiled \/ ~(open \ theirs \subseteq record))
    /\ wd' = NoJoin /\ nm' = "none" /\ RtspDropped
    /\ ses' = NoSession /\ slot' = FALSE /\ status' = "Disconnected" /\ quiet' = FALSE
    /\ cancel' = FALSE /\ casts' = 0

Own ==
    \/ OpenDevice \/ Joining \/ DropRefused \/ JoinEnds \/ Joined \/ Listens \/ NeverConnects \/ ServeCancelled
    \/ Streams(RtspSteps) \/ StreamEnds \/ Firewalling \/ PortsReleased \/ LeaveGroup \/ Pause

Next ==
    \/ StartStream \/ StopStream \/ Own
    \/ ReceiverConnects \/ NetworkMoves \/ FirewallReloads \/ Crash
    \/ Streams(FromReceiver) \/ Streams(PipelineStops)
    \/ Streams(NegotiationTimesOut) \/ Streams(KeepaliveTick)

(* The session's tasks are scheduled, its timers run, and every call on    *)
(* the buses returns; nothing is assumed of the receiver or of the group.  *)
Spec == Init /\ [][Next]_vars

FairSpec ==
    /\ Spec /\ WF_vars(Own)
    /\ WF_vars(Streams(NegotiationTimesOut)) /\ WF_vars(Streams(KeepaliveTick))

(* Once a cast is over and nothing is being closed, what it took is given  *)
(* back: only the user's own ports are open, none is on record, the group  *)
(* is down and the radio free.  A run that died is made good by the next   *)
(* one's sweep; only a refused call or a port off the record escapes.      *)
CleanEnd ==
    ses.at = "idle" /\ Quiescent /\ ~spoiled =>
        open = theirs /\ record = {} /\ nm = "none" /\ ~quiet

(* A receiver that connects and then says nothing does not hold the        *)
(* session: PLAY starts the stream, or the session is left.                *)
NegotiationBounded == rtsp.at = "reading" ~> (pipe # "none" \/ ses.at # "rtsp")

(* A receiver that stops answering while the stream runs is noticed.       *)
SilenceNoticed ==
    (pipe = "playing" /\ "Keepalive" \in rtsp.pending) ~>
        (pipe # "playing" \/ "Keepalive" \notin rtsp.pending)

(* A Miracast cast keeps the Sink's promise: it shows one session at a     *)
(* time, and told to stop it returns, whichever step it was in.            *)
Promise == INSTANCE StreamTask WITH
    running <- ses.at # "idle", told <- cancel /\ ses.at # "idle", shown <- status
KeepsPromise == Promise!Spec

(* What a cast took is given back and what the user opened is left alone,  *)
(* through refusals, cancels and crashes (firewall.rs, p2p, lib.rs).       *)
PortsAreReturned == CleanEnd /\ UserPortsStay

(* A receiver that falls silent, while negotiating or while playing, does  *)
(* not hold the session (rtsp/mod.rs, the negotiation and keepalive timers).   *)
SilenceEnds == NegotiationBounded /\ SilenceNoticed

=============================================================================
