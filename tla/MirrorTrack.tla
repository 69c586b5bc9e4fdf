---------------------------- MODULE MirrorTrack ----------------------------
(***************************************************************************)
(* One track of a Cast mirroring session (nd-chromecast): the worker       *)
(* thread that pulls encoded frames and sends them, the RTCP reader thread *)
(* that moves the acknowledgement window, and between them the receiver    *)
(* and a network that loses, reorders, delays and duplicates feedback.     *)
(*                                                                         *)
(* Frames are numbered from 0; on the wire an id is its remainder by       *)
(* WireCycle.  What a frame holds, its packets and the pacing of bursts    *)
(* are left out: a repair is of a frame.                                   *)
(***************************************************************************)
EXTENDS Integers, Sequences, FiniteSets

CONSTANTS
    WireCycle,    \* 256: ids on the wire are eight bits
    MaxUnacked,   \* MAX_UNACKED_FRAMES
    NackInbox,    \* NACK_INBOX, batches
    MaxFrameId,   \* u32::MAX
    Timed,        \* the receiver sends XR reference times
    Lifetime,     \* frames sent while a datagram without one is under way
    Video,        \* the track is video: delta frames, key frame requests
    MaxReports,   \* bound: feedback datagrams in a behaviour
    MaxNetwork,   \* bound: datagrams under way at once
    NoTime

ASSUME CycleAssumption ==
    /\ WireCycle \in Nat \ {0} /\ MaxUnacked \in Nat \ {0}
    /\ NackInbox \in Nat \ {0} /\ MaxFrameId \in Nat
    /\ MaxUnacked + NackInbox < WireCycle
ASSUME TrackAssumption ==
    /\ Timed \in BOOLEAN /\ Video \in BOOLEAN
    /\ Lifetime \in Nat /\ MaxReports \in Nat /\ MaxNetwork \in Nat
    /\ NoTime \notin Nat
(* Without reference times the protocol only tells reordered feedback from *)
(* new while fewer frames than this go by.                                 *)
ASSUME LifetimeAssumption == Lifetime <= WireCycle - MaxUnacked

VARIABLES
    window,    \* AckWindow, behind its mutex
    worker,    \* the worker thread: where it is, and StreamSender's fields
    repairs,   \* repair_queue: frames to resend
    inbox,     \* NACK batches the reader queued for the worker
    wanted,    \* key_frame_wanted
    stop,      \* SessionSignals::stop
    encoder,   \* a key frame was forced; the last frame out was sent
    receiver,  \* the newest frame it holds complete, and its clock
    network    \* feedback datagrams under way

vars == <<window, worker, repairs, inbox, wanted, stop, encoder, receiver,
          network>>

Frames == 0..MaxFrameId
Checkpoints == Frames \cup {-1}
Times == 0..MaxReports
(* cp, nacks and at say what the receiver meant; the code sees remainders. *)
Datagrams ==
    [cp : Checkpoints, time : Times \cup {NoTime}, nacks : SUBSET Frames,
     at : Checkpoints]

TypeOK ==
    /\ window \in [last_sent : Checkpoints, checkpoint : Checkpoints,
                   newest : Times \cup {NoTime}, stalled : BOOLEAN]
    /\ worker \in [pc : {"turn", "pull", "send", "push", "ended", "failed"},
                   key : BOOLEAN, acked : Checkpoints,
                   frame_id : Frames, oldest : Frames,
                   resyncing : BOOLEAN, resync_requested : BOOLEAN,
                   key_frame_request : BOOLEAN]
    /\ repairs \in SUBSET Frames
    /\ inbox \in Seq(SUBSET Frames) /\ Len(inbox) <= NackInbox
    /\ wanted \in BOOLEAN
    /\ stop \in BOOLEAN
    /\ encoder \in [forced : BOOLEAN, linked : BOOLEAN]
    /\ receiver \in [cp : Checkpoints, clock : Times]
    /\ network \in SUBSET Datagrams

Init ==
    /\ window = [last_sent |-> -1, checkpoint |-> -1, newest |-> NoTime,
                 stalled |-> FALSE]
    /\ worker = [pc |-> "turn", key |-> FALSE, acked |-> -1, frame_id |-> 0,
                 oldest |-> 0, resyncing |-> Video,
                 resync_requested |-> FALSE, key_frame_request |-> FALSE]
    /\ repairs = {}
    /\ inbox = <<>>
    /\ wanted = FALSE
    /\ stop = FALSE
    /\ encoder = [forced |-> FALSE, linked |-> FALSE]
    /\ receiver = [cp |-> -1, clock |-> 0]
    /\ network = {}

-----------------------------------------------------------------------------
(* AckWindow. *)

Pending == window.last_sent - window.checkpoint

\* Mutant: one frame more than the window holds.
CanSend_OneMore == Pending <= MaxUnacked

CanSend == Pending < MaxUnacked

(* The most recent id no later than last that ends in wire. *)
\* Mutant: an id of the cycle before last_sent's is not brought back.
Expanded_NoBorrow(last, wire) == (last - (last % WireCycle)) + wire

Expanded(last, wire) ==
    LET id == (last - (last % WireCycle)) + wire
    IN  IF id > last THEN id - WireCycle ELSE id

\* Mutant: the reference time is not looked at.
Outdated_Never(time) == FALSE

Outdated(time) ==
    time # NoTime /\ window.newest # NoTime /\ time < window.newest

(* acknowledge, given the checkpoint byte already expanded. *)
Accepted(id, time) == ~Outdated(time) /\ id >= window.checkpoint

Acknowledged(id, time) ==
    [window EXCEPT !.checkpoint = id,
                   !.stalled = @ /\ id = window.checkpoint,
                   !.newest = IF time = NoTime THEN @ ELSE time]

(* sent: a fresh deadline for the first frame after an idle period. *)
SentWindow ==
    [window EXCEPT !.last_sent = worker.frame_id,
                   !.stalled = @ /\ Pending # 0]

-----------------------------------------------------------------------------
(* The worker's turn: repairs, then a key frame if one is due. *)

History == worker.oldest..(worker.frame_id - 1)

(* The history entry a NACK's wire id finds, searching from the oldest. *)
Matches(f) == {h \in History : h % WireCycle = f % WireCycle}
Named(f) == CHOOSE h \in Matches(f) : \A g \in Matches(f) : h <= g

(* retransmit's queue after the NACKs of this turn. *)
Requeued(nacks) ==
    repairs \cup {h \in {Named(f) : f \in {g \in nacks : Matches(g) # {}}} :
                    h > window.checkpoint}

Expired(nacks, burst) ==
    \/ \E f \in nacks : Matches(f) = {}
    \/ \E h \in burst : h > window.checkpoint /\ h \notin History

\* Mutant: a resync request is dropped inside the rate limit.
KeyForced_RateLimited(due, asked) == due /\ (worker.key_frame_request \/ asked)

(* request_key_frame: at once for this track's own resync, else rate       *)
(* limited (due says enough time passed since the last one).               *)
KeyForced(due, asked) == worker.key_frame_request \/ (due /\ asked)

(* Each turn takes at least one batch of those waiting; burst is what it   *)
(* resends of the queue, or found no room for in it.                       *)
Turn ==
    /\ worker.pc = "turn" /\ ~stop
    /\ \E n \in {k \in 0..Len(inbox) : k > 0 \/ inbox = <<>>}, due \in BOOLEAN :
         LET nacks == UNION {inbox[i] : i \in 1..n}
             queue == Requeued(nacks)
         IN  \E burst \in SUBSET queue :
               LET asked == wanted \/ (Video /\ Expired(nacks, burst))
                   forces == Video /\ KeyForced(due, asked)
               IN  /\ repairs' = queue \ burst
                   /\ inbox' = SubSeq(inbox, n + 1, Len(inbox))
                   /\ wanted' = (asked /\ ~(forces /\ ~worker.key_frame_request))
                   /\ encoder' = [encoder EXCEPT !.forced = @ \/ forces]
    /\ worker' = [worker EXCEPT !.pc = "pull", !.key_frame_request = FALSE]
    /\ UNCHANGED <<window, stop, receiver, network>>

(* The loop's own exits: stop was set; no first frame, or no feedback from *)
(* the receiver, for too long.                                             *)
TurnEnds ==
    /\ worker.pc = "turn"
    /\ \/ stop /\ worker' = [worker EXCEPT !.pc = "ended"]
       \/ ~stop /\ worker' = [worker EXCEPT !.pc = "failed"]
    /\ UNCHANGED <<window, repairs, inbox, wanted, stop, encoder, receiver,
                   network>>

-----------------------------------------------------------------------------
(* pump. *)

NoSample ==
    /\ worker.pc = "pull"
    /\ \/ worker' = [worker EXCEPT !.pc = "turn"]
       \/ worker' = [worker EXCEPT !.pc = "ended"]
    /\ UNCHANGED <<window, repairs, inbox, wanted, stop, encoder, receiver,
                   network>>

\* Mutant: video goes on with delta frames after a refused one.
Refused_NoResync == [worker EXCEPT !.pc = "turn"]

(* skip_while_receiver_catches_up, with no room in the window. *)
Refused ==
    [worker EXCEPT !.pc = "turn",
                   !.resyncing = @ \/ Video,
                   !.resync_requested = @ /\ ~Video]

(* ... with room, but no key frame to restart the dependency chain from. *)
AwaitingKey ==
    [worker EXCEPT !.pc = "turn",
                   !.key_frame_request = @ \/ ~worker.resync_requested,
                   !.resync_requested = TRUE]

(* A sample came out of the encoder.  Video is a chain of delta frames     *)
(* broken by key frames, forced or its own; every audio frame is a key.    *)
Pull(key) ==
    /\ worker.pc = "pull"
    /\ ~(Pending # 0 /\ window.stalled)
    /\ Video \/ key
    /\ LET skipped == ~CanSend \/ (worker.resyncing /\ ~key)
       IN  /\ worker' =
                 IF ~CanSend THEN Refused
                 ELSE IF skipped THEN AwaitingKey
                 ELSE [worker EXCEPT !.pc = "send", !.key = key,
                                     !.resyncing = FALSE,
                                     !.resync_requested = @ /\ ~worker.resyncing]
           /\ encoder' = [forced |-> encoder.forced /\ ~key,
                          linked |-> IF skipped THEN FALSE ELSE encoder.linked]
    /\ UNCHANGED <<window, repairs, inbox, wanted, stop, receiver, network>>

(* Nothing was acknowledged for RECEIVER_SILENCE_TIMEOUT; or the frame     *)
(* cannot be read or is too large.                                         *)
PullFails ==
    /\ \/ worker.pc = "pull" /\ Pending # 0 /\ window.stalled
       \/ worker.pc = "send"
    /\ worker' = [worker EXCEPT !.pc = "failed"]
    /\ UNCHANGED <<window, repairs, inbox, wanted, stop, encoder, receiver,
                   network>>

(* send_frame: recorded as sent before the first packet leaves. *)
Send ==
    /\ worker.pc = "send"
    /\ window' = SentWindow
    /\ worker' = [worker EXCEPT !.pc = "push", !.acked = window.checkpoint]
    /\ encoder' = [encoder EXCEPT !.linked = TRUE]
    /\ UNCHANGED <<repairs, inbox, wanted, stop, receiver, network>>

\* Mutant: the history holds one frame less than the window.
Pruned_OneLess(oldest) ==
    LET capped == worker.frame_id + 2 - MaxUnacked
    IN  IF oldest > capped THEN oldest ELSE capped

(* prune_history after the frame was appended, when those before oldest    *)
(* are acknowledged and have aged.                                         *)
Pruned(oldest) ==
    LET capped == worker.frame_id + 1 - MaxUnacked
    IN  IF oldest > capped THEN oldest ELSE capped

Aged == (worker.oldest..(worker.acked + 1)) \cup {worker.oldest}

(* Its packets left; the frame is kept for repairs. *)
Push ==
    /\ worker.pc = "push"
    /\ IF worker.frame_id = MaxFrameId
       THEN worker' = [worker EXCEPT !.pc = "failed"]
       ELSE \E oldest \in Aged :
              worker' = [worker EXCEPT !.pc = "turn", !.frame_id = @ + 1,
                                       !.oldest = Pruned(oldest)]
    /\ UNCHANGED <<window, repairs, inbox, wanted, stop, encoder, receiver,
                   network>>

(* The pacer met stop between two packets, or the socket failed. *)
PushFails ==
    /\ worker.pc = "push"
    /\ \/ stop /\ worker' = [worker EXCEPT !.pc = "ended"]
       \/ worker' = [worker EXCEPT !.pc = "failed"]
    /\ UNCHANGED <<window, repairs, inbox, wanted, stop, encoder, receiver,
                   network>>

-----------------------------------------------------------------------------
(* The reader thread. *)

\* Mutant: the inbox has no limit.
Delivered_Unlimited(d) ==
    LET id == Expanded(window.last_sent, d.cp % WireCycle)
    IN  IF ~Accepted(id, d.time) THEN UNCHANGED <<window, inbox>>
        ELSE /\ window' = Acknowledged(id, d.time)
             /\ inbox' = IF d.nacks # {} THEN Append(inbox, d.nacks) ELSE inbox

\* Mutant: repairs of refused feedback are served all the same.
Delivered_ServesStale(d) ==
    LET id == Expanded(window.last_sent, d.cp % WireCycle)
    IN  /\ window' = IF Accepted(id, d.time)
                     THEN Acknowledged(id, d.time) ELSE window
        /\ inbox' = IF d.nacks # {} /\ Len(inbox) < NackInbox
                    THEN Append(inbox, d.nacks) ELSE inbox

(* route: the window first, then the repairs asked for, unless the inbox   *)
(* is full.                                                                *)
Delivered(d) ==
    LET id == Expanded(window.last_sent, d.cp % WireCycle)
    IN  IF ~Accepted(id, d.time) THEN UNCHANGED <<window, inbox>>
        ELSE /\ window' = Acknowledged(id, d.time)
             /\ inbox' = IF d.nacks # {} /\ Len(inbox) < NackInbox
                         THEN Append(inbox, d.nacks) ELSE inbox

OnTime(d) == d.time # NoTime \/ window.last_sent - d.at < Lifetime

(* kept: the network will deliver it again. *)
Deliver(d, kept) ==
    /\ OnTime(d)
    /\ Delivered(d)
    /\ network' = IF kept THEN network ELSE network \ {d}
    /\ UNCHANGED <<worker, repairs, wanted, stop, encoder, receiver>>

PictureLoss ==
    /\ Video
    /\ wanted' = TRUE
    /\ UNCHANGED <<window, worker, repairs, inbox, stop, encoder, receiver,
                   network>>

-----------------------------------------------------------------------------
(* Around the track. *)

(* The receiver reports the frames it holds and those it misses. *)
Report ==
    /\ receiver.clock < MaxReports
    /\ \E cp \in receiver.cp..window.last_sent :
       \E nacks \in SUBSET ((cp + 1)..window.last_sent) :
         /\ receiver' = [cp |-> cp, clock |-> receiver.clock + 1]
         /\ network' = network \cup
              {[cp |-> cp, nacks |-> nacks, at |-> window.last_sent,
                time |-> IF Timed THEN receiver.clock + 1 ELSE NoTime]}
         /\ Cardinality(network') <= MaxNetwork
    /\ UNCHANGED <<window, worker, repairs, inbox, wanted, stop, encoder>>

Lose(d) ==
    /\ network' = network \ {d}
    /\ UNCHANGED <<window, worker, repairs, inbox, wanted, stop, encoder,
                   receiver>>

(* RECEIVER_SILENCE_TIMEOUT passes without an acknowledgement. *)
Silence ==
    /\ Pending # 0 /\ ~window.stalled
    /\ window' = [window EXCEPT !.stalled = TRUE]
    /\ UNCHANGED <<worker, repairs, inbox, wanted, stop, encoder, receiver,
                   network>>

SessionStops ==
    /\ stop' = TRUE
    /\ UNCHANGED <<window, worker, repairs, inbox, wanted, encoder, receiver,
                   network>>

Work ==
    \/ Turn \/ TurnEnds
    \/ NoSample \/ (\E key \in BOOLEAN : Pull(key)) \/ PullFails
    \/ Send \/ Push \/ PushFails

Next ==
    \/ Work
    \/ \E d \in network, kept \in BOOLEAN : Deliver(d, kept)
    \/ PictureLoss
    \/ Report
    \/ \E d \in network : Lose(d)
    \/ Silence
    \/ SessionStops

Spec == Init /\ [][Next]_vars

(***************************************************************************)
(* The worker is a thread of its own, time passes, samples keep coming,    *)
(* and an encoder that was asked for a key frame makes one: not all of     *)
(* them are the delta frames that were already on their way.               *)
(***************************************************************************)
Over == worker.pc \in {"ended", "failed"}
SamplePulled ==
    \/ \E key \in BOOLEAN : Pull(key)
    \/ worker.pc = "pull" /\ PullFails
ForcedKeyComes == encoder.forced /\ Pull(TRUE)

TrackFairness ==
    /\ WF_vars(Turn) /\ WF_vars(TurnEnds /\ stop)
    /\ SF_vars(SamplePulled) /\ SF_vars(ForcedKeyComes)
    /\ WF_vars(Send) /\ WF_vars(Push)
    /\ WF_vars(Silence)

FairSpec == Spec /\ TrackFairness

-----------------------------------------------------------------------------
(* Safety. *)

(* The window never runs further than the receiver: no datagram, however   *)
(* late, reordered or repeated, acknowledges a frame the receiver does not *)
(* hold (AckWindow::acknowledge), though ids on the wire come round.       *)
CheckpointIsReal == window.checkpoint <= receiver.cp

(* At most MaxUnacked frames are out, also between the worker's look at    *)
(* the window and its recording of the frame (the debug assertions of      *)
(* AckWindow::sent).                                                       *)
WindowBounded ==
    /\ Pending \in 0..MaxUnacked
    /\ worker.pc = "send" =>
          Pending < MaxUnacked /\ worker.frame_id = window.last_sent + 1

(* Every frame the receiver may still ask for can be resent: the history's *)
(* cap never reaches an unacknowledged one (prune_history).                *)
UnackedKept == (window.checkpoint + 1)..(worker.frame_id - 1) \subseteq History

(* A NACK names the frame the receiver meant, however long it waited in    *)
(* the network and the inbox while frames were sent (retransmit: resending *)
(* the wrong one makes the receiver assemble a corrupted frame).           *)
NackNamesFrame ==
    \A i \in 1..Len(inbox) : \A f \in inbox[i] : Matches(f) \subseteq {f}

(* A delta frame is sent only right after the frame it depends on: what    *)
(* the encoder made before it was sent, under the id before it.            *)
ReferencesWereSent ==
    worker.pc = "send" /\ ~worker.key => encoder.linked

-----------------------------------------------------------------------------
(* Liveness, under FairSpec. *)

(* Video that dropped a frame starts again from a key frame, or the track  *)
(* ends: the request for one is never lost to the rate limit, to a full    *)
(* window or to a key frame that had to be dropped.                        *)
VideoResumes == worker.resyncing ~> ~worker.resyncing \/ Over

(* What is sent can be decoded, and whatever the receiver asks for again   *)
(* is there, is meant and is not more than the window allows (sender.rs,   *)
(* prune_history, retransmit, AckWindow).                                  *)
WindowServes == ReferencesWereSent /\ UnackedKept /\ NackNamesFrame /\ WindowBounded

=============================================================================
