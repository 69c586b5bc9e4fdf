----------------------------- MODULE CastControl -----------------------------
(***************************************************************************)
(* A screen cast over the Cast control channel of nd-chromecast: the       *)
(* session task (mirroring first, HTTP if the receiver has no mirroring),  *)
(* the channel's reader and heartbeat tasks, and the writer the three      *)
(* share.  Writing is taking the writer's lock and then completing the     *)
(* frame or leaving half of it; anything else may happen in between.       *)
(*                                                                         *)
(* Whoever waits for the lock asked later than its holder, so its deadline *)
(* is later too: by then the holder has finished or failed.                *)
(***************************************************************************)
EXTENDS Integers, Sequences

CONSTANTS
    EventQueue,  \* capacity of the events channel (128)
    MaxExtras    \* bound: PINGs of either side and messages nobody asked for

ASSUME LimitsAssumption ==
    EventQueue \in Nat /\ MaxExtras \in Nat

VARIABLES
    task,      \* start_stream and the session it runs
    cancel,    \* the cancel channel: stop_stream was called
    writer,    \* ControlWriter, and what went out on its stream
    reader,    \* reader_loop
    ping,      \* heartbeat
    pending,   \* requests registered for a reply
    events,    \* messages for next_event
    wire,      \* requests the receiver has not read
    inbound,   \* messages the reader has not read
    receiver   \* its apps, by the attempt that launched them, and its manners

channel == <<writer, reader, ping, pending, events, wire, inbound>>
vars == <<task, cancel, channel, receiver>>

Attempts == 1..2  \* mirroring, HTTP
Requests == {"LAUNCH", "STOP", "GET_STATUS"}
Frames == Requests \cup 
    {"CONNECT", "APP_CONNECT", "OFFER", "APP_CLOSE", "CLOSE", "PING", "PONG"}
Landmarks == {"STOP", "APP_CLOSE", "CLOSE", "HALF"}
Terminal == {"CLOSE", "HALF"}
Writers == {"task", "reader", "ping"}

(* A LAUNCH reply that lists the app or not, a status that lists it or     *)
(* not; foreign ones come from another app under the same requestId.       *)
Replies == {"launched", "refused", "present", "absent"}
Messages ==
    [type : Replies, to : Requests, foreign : BOOLEAN]
    \cup [type : {"ping", "close", "other"}]
Results == {"ok", "unsupported", "error"}

Tasks ==
    [pc : {"start", "opening", "sending", "sent", "unsent", "running", "stop", "close",
           "over", "done"},
     attempt : Attempts, frame : Frames, reply : Replies \cup {"none"},
     app : BOOLEAN, stopped : BOOLEAN, result : Results]
ControlWriters ==
    [lock : Writers \cup {"free"}, closed : BOOLEAN, closing : BOOLEAN,
     said : SUBSET Landmarks]
Receivers ==
    [apps : SUBSET Attempts, asked : BOOLEAN, owed : Int, extras : Nat]

TypeOK ==
    /\ task \in Tasks
    /\ cancel \in BOOLEAN
    /\ writer \in ControlWriters
    /\ reader \in {"up", "pong", "ends", "clears", "gone"}
    /\ ping \in {"idle", "ping", "gone"}
    /\ pending \in SUBSET Requests
    /\ events \in Seq({"close", "other"}) /\ Len(events) <= EventQueue
    /\ wire \in Seq(Requests)
    /\ inbound \in Seq(Messages)
    /\ receiver \in Receivers

Quiet == [lock |-> "free", closed |-> FALSE, closing |-> FALSE, said |-> {}]

Init ==
    /\ task = [pc |-> "start", attempt |-> 1, frame |-> "CONNECT", reply |-> "none",
               app |-> FALSE, stopped |-> FALSE, result |-> "ok"]
    /\ cancel = FALSE
    /\ writer = Quiet /\ reader = "gone" /\ ping = "gone"
    /\ pending = {} /\ events = <<>> /\ wire = <<>> /\ inbound = <<>>
    /\ receiver = [apps |-> {}, asked |-> FALSE, owed |-> 0, extras |-> 0]

-----------------------------------------------------------------------------
(* Writing a frame (ControlWriter::write). *)

(* The frame w waits to write, or is writing. *)
Wants(w, f) ==
    \/ w = "task" /\ task.pc = "sending" /\ f = task.frame
    \/ w = "reader" /\ reader = "pong" /\ f = "PONG"
    \/ w = "ping" /\ ping = "ping" /\ f = "PING"

(* w goes on: a request that was not sent is taken back (PendingRequest),  *)
(* the reader and the heartbeat end with the writer.                       *)
Goes(w, sent) ==
    /\ task' = IF w = "task" THEN [task EXCEPT !.pc = IF sent THEN "sent" ELSE "unsent"]
               ELSE task
    /\ pending' = IF w = "task" /\ ~sent THEN pending \ {task.frame} ELSE pending
    /\ reader' = IF w = "reader" THEN IF sent THEN "up" ELSE "ends" ELSE reader
    /\ inbound' = IF w = "reader" /\ ~sent THEN <<>> ELSE inbound
    /\ ping' = IF w = "ping" THEN IF sent THEN "idle" ELSE "gone" ELSE ping

\* Mutant: closed is not looked at again under the lock.
WriteBegins_Unchecked(w) ==
    /\ \E f \in Frames : Wants(w, f)
    /\ writer.lock = "free"
    /\ writer' = [writer EXCEPT !.lock = w]
    /\ UNCHANGED <<task, cancel, reader, ping, pending, events, wire, inbound, receiver>>

(* w gets the lock.  A closed writer refuses, heartbeats are dropped once  *)
(* the platform CLOSE is on its way.                                       *)
WriteBegins(w) ==
    \E f \in Frames :
      /\ Wants(w, f)
      /\ writer.lock = "free"
      /\ IF writer.closed THEN Goes(w, FALSE) /\ UNCHANGED writer
         ELSE IF f \in {"PING", "PONG"} /\ writer.closing
         THEN Goes(w, TRUE) /\ UNCHANGED writer
         ELSE /\ writer' = [writer EXCEPT !.lock = w]
              /\ UNCHANGED <<task, reader, ping, pending, inbound>>
      /\ UNCHANGED <<cancel, events, wire, receiver>>

(* The frame went out whole; the platform CLOSE closes the writer.         *)
WriteEnds(w) ==
    \E f \in Frames :
      /\ Wants(w, f)
      /\ writer.lock = w
      /\ wire' = IF f \in Requests THEN Append(wire, f) ELSE wire
      /\ receiver' = IF f = "PONG" THEN [receiver EXCEPT !.owed = @ - 1] ELSE receiver
      /\ writer' = [writer EXCEPT !.lock = "free", !.said = @ \cup ({f} \cap Landmarks),
                                  !.closed = @ \/ f = "CLOSE"]
      /\ Goes(w, TRUE)
      /\ UNCHANGED <<cancel, events>>

(* Half of it is on the stream when w gives up (FrameWrite::drop).         *)
Halved == [writer EXCEPT !.lock = "free", !.said = @ \cup {"HALF"}, !.closed = TRUE]

(* WRITE_TIMEOUT, or the connection fails.                                 *)
WriteFails(w) ==
    /\ writer.lock = w
    /\ writer' = Halved
    /\ Goes(w, FALSE)
    /\ UNCHANGED <<cancel, events, wire, receiver>>

-----------------------------------------------------------------------------
(* The session task (mirror_session::run, session::run_with_video).        *)

(* A frame without a reply, and a request (request_with_timeout).          *)
Says(t, f) ==
    /\ task' = [t EXCEPT !.pc = "sending", !.frame = f, !.reply = "none"]
    /\ UNCHANGED pending

Asks(t, f) ==
    /\ task' = [t EXCEPT !.pc = "sending", !.frame = f, !.reply = "none"]
    /\ pending' = pending \cup {f}

Opens ==
    /\ task.pc = "start"
    /\ task' = [task EXCEPT !.pc = IF cancel THEN "over" ELSE "opening"]
    /\ UNCHANGED <<cancel, channel, receiver>>

(* connect_to: a channel of its own, then the platform CONNECT.            *)
Opened ==
    /\ task.pc = "opening"
    /\ task' = [task EXCEPT !.pc = "sending", !.frame = "CONNECT"]
    /\ writer' = Quiet /\ reader' = "up" /\ ping' = "idle"
    /\ pending' = {} /\ events' = <<>> /\ wire' = <<>> /\ inbound' = <<>>
    /\ receiver' = [receiver EXCEPT !.asked = FALSE, !.owed = 0]
    /\ UNCHANGED cancel

OpenFails ==
    /\ task.pc = "opening"
    /\ task' = [task EXCEPT !.pc = "over", !.result = "error"]
    /\ UNCHANGED <<cancel, channel, receiver>>

(* The channel's tasks are aborted, which cuts what they are writing in    *)
(* half, and what was not read is lost.                                    *)
Aborted ==
    /\ reader' = "gone" /\ ping' = "gone" /\ inbound' = <<>> /\ events' = <<>>
    /\ writer' = IF writer.lock \in {"reader", "ping"} THEN Halved
                 ELSE [writer EXCEPT !.closed = TRUE]

Connected ==
    /\ task.pc = "sent" /\ task.frame = "CONNECT"
    /\ IF cancel THEN task' = [task EXCEPT !.pc = "close"] /\ UNCHANGED pending
       ELSE Asks(task, "LAUNCH")
    /\ UNCHANGED <<cancel, writer, reader, ping, events, wire, inbound, receiver>>

(* The channel is dropped. *)
ConnectFails ==
    /\ task.pc = "unsent" /\ task.frame = "CONNECT"
    /\ task' = [task EXCEPT !.pc = "over", !.result = "error"]
    /\ Aborted
    /\ UNCHANGED <<cancel, pending, wire, receiver>>

(* The reply to f came, or none will: it was not sent, its entry is gone.  *)
Heard(f, reply) ==
    /\ task.frame = f /\ task.reply = reply
    /\ \/ task.pc = "sent" /\ (reply # "none" \/ f \notin pending)
       \/ task.pc = "unsent"

Waits == task.pc = "sent" /\ task.frame \in pending

(* REQUEST_TIMEOUT, LAUNCH_TIMEOUT, STOP_TIMEOUT. *)
TimesOut ==
    /\ Waits
    /\ pending' = pending \ {task.frame}
    /\ UNCHANGED <<task, cancel, writer, reader, ping, events, wire, inbound, receiver>>

Launched ==
    /\ Heard("LAUNCH", "launched")
    /\ Says([task EXCEPT !.app = TRUE], "APP_CONNECT")
    /\ UNCHANGED <<cancel, writer, reader, ping, events, wire, inbound, receiver>>

(* LAUNCH_ERROR, or the app is missing from the status (from_launch_reply). *)
LaunchFails ==
    /\ \E reply \in {"refused", "present", "absent", "none"} :
         /\ Heard("LAUNCH", reply)
         /\ task' = [task EXCEPT !.pc = "close",
                        !.result = IF reply = "none" THEN "error" ELSE "unsupported"]
    /\ UNCHANGED <<cancel, channel, receiver>>

(* mirror and serve_receiver; mirroring begins with an OFFER.              *)
Runs == IF task.attempt = 1 THEN [task EXCEPT !.pc = "sending", !.frame = "OFFER"]
        ELSE [task EXCEPT !.pc = "running"]

\* Mutant: a session cancelled by now is closed like one not launched.
AppConnected_CancelledCloses ==
    /\ task.frame = "APP_CONNECT" /\ task.pc \in {"sent", "unsent"}
    /\ task' = IF task.pc = "unsent" THEN [task EXCEPT !.pc = "stop", !.result = "error"]
               ELSE IF cancel THEN [task EXCEPT !.pc = "close"] ELSE Runs
    /\ UNCHANGED <<cancel, channel, receiver>>

AppConnected ==
    /\ task.frame = "APP_CONNECT" /\ task.pc \in {"sent", "unsent"}
    /\ task' = IF task.pc = "unsent" THEN [task EXCEPT !.pc = "stop", !.result = "error"]
               ELSE IF cancel THEN [task EXCEPT !.pc = "stop"] ELSE Runs
    /\ UNCHANGED <<cancel, channel, receiver>>

(* The OFFER is out and the ANSWER awaited. *)
Negotiates == task.frame = "OFFER" /\ task.pc = "sent"

(* Negotiating or streaming, until something ends it.                      *)
Ends(result) ==
    /\ task.pc = "running" \/ Negotiates
    /\ task' = [task EXCEPT !.pc = "stop", !.result = result]

Answered ==
    /\ Negotiates
    /\ task' = [task EXCEPT !.pc = "running"]
    /\ UNCHANGED <<cancel, channel, receiver>>

OfferFails ==
    /\ task.frame = "OFFER" /\ task.pc = "unsent"
    /\ task' = [task EXCEPT !.pc = "stop", !.result = "error"]
    /\ UNCHANGED <<cancel, channel, receiver>>

(* negotiate_mode drops the negotiation when cancelled, the OFFER it may   *)
(* be writing included.                                                    *)
OfferDropped ==
    /\ cancel /\ task.frame = "OFFER" /\ task.pc = "sending"
    /\ task' = [task EXCEPT !.pc = "stop"]
    /\ writer' = IF writer.lock = "task" THEN Halved ELSE writer
    /\ UNCHANGED <<cancel, reader, ping, pending, events, wire, inbound, receiver>>

\* Mutant: only the negotiation listens for it.
Cancelled_NegotiationOnly ==
    /\ cancel /\ Negotiates /\ Ends("ok")
    /\ UNCHANGED <<cancel, channel, receiver>>

Cancelled ==
    /\ cancel /\ Ends("ok")
    /\ UNCHANGED <<cancel, channel, receiver>>

(* A CLOSE ends a stream well and a negotiation badly.                     *)
EventTaken ==
    /\ task.pc = "running" \/ Negotiates
    /\ events # <<>>
    /\ events' = Tail(events)
    /\ IF Head(events) = "close" THEN Ends(IF Negotiates THEN "error" ELSE "ok")
       ELSE UNCHANGED task
    /\ UNCHANGED <<cancel, writer, reader, ping, pending, wire, inbound, receiver>>

EventsOver ==
    /\ events = <<>> /\ reader = "gone" /\ Ends("error")
    /\ UNCHANGED <<cancel, channel, receiver>>

(* The stream ends or fails by itself; a receiver that does not agree to   *)
(* mirroring, or does not answer in time, is Unsupported.                  *)
StreamEnds ==
    /\ \E result \in IF Negotiates THEN {"unsupported", "error"} ELSE {"ok", "error"} :
         Ends(result)
    /\ UNCHANGED <<cancel, channel, receiver>>

(* stop_app: STOP, and GET_STATUS if it was not confirmed; the app's CLOSE *)
(* follows either way.                                                     *)

\* Mutant: heartbeats stop with the app.
Stops_Silently ==
    /\ task.pc = "stop"
    /\ Asks(task, "STOP")
    /\ writer' = [writer EXCEPT !.closing = TRUE]
    /\ UNCHANGED <<cancel, reader, ping, events, wire, inbound, receiver>>

Stops ==
    /\ task.pc = "stop"
    /\ Asks(task, "STOP")
    /\ UNCHANGED <<cancel, writer, reader, ping, events, wire, inbound, receiver>>

StopHeard ==
    /\ \E reply \in Replies \cup {"none"} :
         /\ Heard("STOP", reply)
         /\ IF reply = "absent" \/ writer.closed
            THEN Says([task EXCEPT !.stopped = reply = "absent"], "APP_CLOSE")
            ELSE Asks(task, "GET_STATUS")
    /\ UNCHANGED <<cancel, writer, reader, ping, events, wire, inbound, receiver>>

StatusHeard ==
    /\ \E reply \in Replies \cup {"none"} :
         /\ Heard("GET_STATUS", reply)
         /\ Says([task EXCEPT !.stopped = reply = "absent"], "APP_CLOSE")
    /\ UNCHANGED <<cancel, writer, reader, ping, events, wire, inbound, receiver>>

(* send_platform_close. *)
Closes ==
    /\ \/ task.pc = "close"
       \/ task.frame = "APP_CLOSE" /\ task.pc \in {"sent", "unsent"}
    /\ writer' = [writer EXCEPT !.closing = TRUE]
    /\ task' = [task EXCEPT !.pc = IF writer.closed THEN "unsent" ELSE "sending",
                            !.frame = "CLOSE"]
    /\ UNCHANGED <<cancel, reader, ping, pending, events, wire, inbound, receiver>>

\* Mutant: the session's own failure always wins.
Outcome_OriginalWins ==
    IF task.app /\ task.result = "ok" /\ ~task.stopped THEN "error" ELSE task.result

(* finish_app: an unconfirmed STOP is no success and no reason to fall     *)
(* back on HTTP.                                                           *)
Outcome ==
    IF task.app /\ task.result \in {"ok", "unsupported"} /\ ~task.stopped
    THEN "error" ELSE task.result

(* The rest of close. *)
Closed ==
    /\ task.frame = "CLOSE" /\ task.pc \in {"sent", "unsent"}
    /\ task' = [task EXCEPT !.pc = "over", !.result = Outcome]
    /\ Aborted
    /\ pending' = {}
    /\ UNCHANGED <<cancel, wire, receiver>>

(* start_stream: HTTP if the receiver has no mirroring, and nobody         *)
(* cancelled.                                                              *)
Over ==
    /\ task.pc = "over"
    /\ task' = IF task.attempt = 1 /\ task.result = "unsupported" /\ ~cancel
               THEN [task EXCEPT !.pc = "start", !.attempt = 2, !.app = FALSE,
                                 !.stopped = FALSE, !.reply = "none", !.result = "ok"]
               ELSE [task EXCEPT !.pc = "done",
                        !.result = IF task.attempt = 1 /\ @ = "unsupported" THEN "ok"
                                   ELSE @]
    /\ UNCHANGED <<cancel, channel, receiver>>

(* stop_stream. *)
Cancel ==
    /\ ~cancel /\ task.pc # "done"
    /\ cancel' = TRUE
    /\ UNCHANGED <<task, channel, receiver>>

-----------------------------------------------------------------------------
(* The reader (reader_loop) and the heartbeat. *)

\* Mutant: the requestId alone makes a reply.
Answers_ById(m) == m.type \in Replies /\ m.to \in pending

(* deliver_reply: requestId, namespace and source must match.              *)
Answers(m) == m.type \in Replies /\ m.to \in pending /\ ~m.foreign

Delivered(m) ==
    /\ Answers(m)
    /\ pending' = pending \ {m.to}
    /\ task' = [task EXCEPT !.reply = m.type]
    /\ inbound' = Tail(inbound)
    /\ UNCHANGED <<reader, events>>

\* Mutant: the channel has no limit.
Forwarded_Unlimited(m) ==
    /\ m.type # "ping" /\ ~Answers(m)
    /\ events' = Append(events, IF m.type = "close" THEN "close" ELSE "other")
    /\ inbound' = Tail(inbound)
    /\ UNCHANGED <<task, reader, pending>>

\* Mutant: an event that does not fit is dropped.
Forwarded_OrDropped(m) ==
    /\ m.type # "ping" /\ ~Answers(m)
    /\ events' = IF Len(events) < EventQueue
                 THEN Append(events, IF m.type = "close" THEN "close" ELSE "other")
                 ELSE events
    /\ inbound' = Tail(inbound)
    /\ UNCHANGED <<task, reader, pending>>

(* An event that does not fit ends the channel instead of being lost.      *)
Forwarded(m) ==
    /\ m.type # "ping" /\ ~Answers(m)
    /\ IF Len(events) < EventQueue
       THEN /\ events' = Append(events, IF m.type = "close" THEN "close" ELSE "other")
            /\ UNCHANGED reader
            /\ inbound' = Tail(inbound)
       ELSE reader' = "ends" /\ inbound' = <<>> /\ UNCHANGED events
    /\ UNCHANGED <<task, pending>>

Pinged(m) ==
    /\ m.type = "ping"
    /\ reader' = "pong" /\ inbound' = Tail(inbound)
    /\ UNCHANGED <<task, pending, events>>

MessageRead ==
    /\ reader = "up" /\ inbound # <<>>
    /\ LET m == Head(inbound) IN Delivered(m) \/ Forwarded(m) \/ Pinged(m)
    /\ UNCHANGED <<cancel, writer, ping, wire, receiver>>

(* A read error or RECEIVE_TIMEOUT: what has not been read is lost.        *)
ReadFails ==
    /\ reader = "up"
    /\ reader' = "ends" /\ inbound' = <<>>
    /\ UNCHANGED <<task, cancel, writer, ping, pending, events, wire, receiver>>

\* Mutant: the waiters are released before the writer is closed.
ReaderEnds_ClearsFirst ==
    /\ reader \in {"ends", "clears"}
    /\ IF reader = "ends" THEN reader' = "clears" /\ pending' = {} /\ UNCHANGED writer
       ELSE /\ reader' = "gone" /\ writer' = [writer EXCEPT !.closed = TRUE]
            /\ UNCHANGED pending
    /\ UNCHANGED <<task, cancel, ping, events, wire, inbound, receiver>>

(* The writer is closed, then whoever waits for a reply is released.       *)
ReaderEnds ==
    /\ reader \in {"ends", "clears"}
    /\ IF reader = "ends"
       THEN /\ reader' = "clears" /\ writer' = [writer EXCEPT !.closed = TRUE]
            /\ UNCHANGED pending
       ELSE reader' = "gone" /\ pending' = {} /\ UNCHANGED writer
    /\ UNCHANGED <<task, cancel, ping, events, wire, inbound, receiver>>

(* PING_INTERVAL. *)
Beats ==
    /\ ping = "idle" /\ receiver.extras < MaxExtras
    /\ ping' = "ping"
    /\ receiver' = [receiver EXCEPT !.extras = @ + 1]
    /\ UNCHANGED <<task, cancel, writer, reader, pending, events, wire, inbound>>

-----------------------------------------------------------------------------
(* The receiver and the network, which are not in this code. *)

Listens == reader \in {"up", "pong"}
Sends(m) == inbound' = IF Listens THEN Append(inbound, m) ELSE inbound
Reply(type, f) == [type |-> type, to |-> f, foreign |-> FALSE]
Listed == IF task.attempt \in receiver.apps THEN "present" ELSE "absent"

(* The receiver reads a request: it starts the app or has none such, takes *)
(* note of a STOP, answers a GET_STATUS.                                   *)
RequestRead ==
    /\ wire # <<>>
    /\ wire' = Tail(wire)
    /\ \/ /\ Head(wire) = "LAUNCH"
          /\ receiver' = [receiver EXCEPT !.apps = @ \cup {task.attempt}]
          /\ Sends(Reply("launched", "LAUNCH"))
       \/ /\ Head(wire) = "LAUNCH"
          /\ Sends(Reply("refused", "LAUNCH"))
          /\ UNCHANGED receiver
       \/ /\ Head(wire) = "STOP"
          /\ receiver' = [receiver EXCEPT !.asked = TRUE]
          /\ UNCHANGED inbound
       \/ /\ Head(wire) = "GET_STATUS"
          /\ Sends(Reply(Listed, "GET_STATUS"))
          /\ UNCHANGED receiver
    /\ UNCHANGED <<task, cancel, writer, reader, ping, pending, events>>

(* It stops our app once its PINGs are answered; an app already gone is no *)
(* session it knows.                                                       *)
AppStops ==
    /\ receiver.asked /\ receiver.owed = 0
    /\ Sends(Reply(IF task.attempt \in receiver.apps THEN "absent" ELSE "refused", "STOP"))
    /\ receiver' = [receiver EXCEPT !.asked = FALSE, !.apps = @ \ {task.attempt}]
    /\ UNCHANGED <<task, cancel, writer, reader, ping, pending, events, wire>>

(* ... or it does not. *)
StopRefused ==
    /\ receiver.asked
    /\ Sends(Reply("refused", "STOP"))
    /\ receiver' = [receiver EXCEPT !.asked = FALSE]
    /\ UNCHANGED <<task, cancel, writer, reader, ping, pending, events, wire>>

(* Someone closes the app on the television. *)
AppExits ==
    /\ Listens /\ task.attempt \in receiver.apps
    /\ receiver' = [receiver EXCEPT !.apps = @ \ {task.attempt}]
    /\ Sends([type |-> "close"])
    /\ UNCHANGED <<task, cancel, writer, reader, ping, pending, events, wire>>

Asked ==
    /\ Listens /\ receiver.extras < MaxExtras
    /\ receiver' = [receiver EXCEPT !.extras = @ + 1, !.owed = @ + 1]
    /\ Sends([type |-> "ping"])
    /\ UNCHANGED <<task, cancel, writer, reader, ping, pending, events, wire>>

(* Statuses, and other apps' messages, some under a requestId of ours.     *)
Chatters ==
    /\ Listens /\ receiver.extras < MaxExtras
    /\ receiver' = [receiver EXCEPT !.extras = @ + 1]
    /\ \E m \in {[type |-> "other"]}
                \cup {[type |-> "absent", to |-> f, foreign |-> TRUE] : f \in pending} :
         Sends(m)
    /\ UNCHANGED <<task, cancel, writer, reader, ping, pending, events, wire>>

-----------------------------------------------------------------------------
Session ==
    \/ Opens \/ Opened \/ OpenFails \/ Connected \/ ConnectFails
    \/ Launched \/ LaunchFails \/ AppConnected \/ OfferFails \/ OfferDropped
    \/ Cancelled \/ EventTaken \/ EventsOver
    \/ Stops \/ StopHeard \/ StatusHeard \/ Closes \/ Closed \/ Over

Writes(w) == WriteBegins(w) \/ WriteEnds(w) \/ WriteFails(w)

Receiver == RequestRead \/ AppStops

Next ==
    \/ Session \/ TimesOut \/ Answered \/ StreamEnds \/ Cancel
    \/ \E w \in Writers : Writes(w)
    \/ MessageRead \/ ReadFails \/ ReaderEnds \/ Beats
    \/ Receiver \/ StopRefused \/ AppExits \/ Asked \/ Chatters

Spec == Init /\ [][Next]_vars

(* Tasks are scheduled, a write ends by its timeout, the receiver reads    *)
(* and answers in the end.                                                 *)
Fairness ==
    /\ WF_vars(Session)
    /\ \A w \in Writers : WF_vars(Writes(w))
    /\ WF_vars(MessageRead) /\ WF_vars(ReaderEnds)
    /\ WF_vars(RequestRead) /\ WF_vars(AppStops)

FairSpec == Spec /\ Fairness

-----------------------------------------------------------------------------
(* Safety. *)

(* Nothing follows the platform CLOSE, or half a frame, on the stream: the *)
(* receiver would read it as the rest of that message (writer.rs).         *)
NothingAfterTheEnd ==
    writer.said \cap Terminal # {} => writer.lock = "free"

(* The platform CLOSE of a session whose app was launched comes after its  *)
(* STOP and the app's own CLOSE, however the session ended (finish_app).   *)
TornDownInOrder ==
    /\ "CLOSE" \in writer.said /\ task.app => "APP_CLOSE" \in writer.said
    /\ "APP_CLOSE" \in writer.said => "STOP" \in writer.said

(* A session that ends well leaves nothing of ours running on the          *)
(* receiver ("an unconfirmed STOP is not a success").                      *)
OkMeansGone == task.pc = "done" /\ task.result = "ok" => receiver.apps = {}

(* HTTP never starts over a mirroring app that still runs ("HTTP fallback  *)
(* must not replace an app whose STOP failed").                            *)
FallbackStartsClear == task.attempt = 2 => 1 \notin receiver.apps

(* Once the reader is gone nobody waits for a reply that cannot come       *)
(* ("Terminating is bounded and releases all pending requests").           *)
NobodyLeftWaiting == reader = "gone" => ~Waits

(* The receiver's PINGs are answered as long as the session waits for a    *)
(* reply ("Keep PING/PONG alive while STOP is awaiting confirmation").     *)
PingsAnswered ==
    [][reader = "pong" /\ reader' = "up" /\ pending # {} =>
          receiver'.owed < receiver.owed]_reader

(* Liveness, under FairSpec. *)

(* A cancelled session ends, if requests time out. *)
CancelEndsSession == WF_vars(TimesOut) => (cancel ~> task.pc = "done")

(* A session whose app was closed on the television notices, however many  *)
(* messages came before the news.                                          *)
ExitNoticed ==
    task.pc = "running" /\ task.attempt \notin receiver.apps ~> task.pc # "running"

(* A session's end is orderly and is what it says: nothing follows the     *)
(* last word, the apps are stopped in order, success leaves nothing        *)
(* running and the fallback never starts over what does (writer.rs,        *)
(* finish_app, the HTTP fallback).                                         *)
EndIsOrderly ==
    OkMeansGone /\ FallbackStartsClear /\ TornDownInOrder /\ NothingAfterTheEnd

(* A session that is cancelled, or whose app was closed, ends.             *)
SessionsEnd == CancelEndsSession /\ ExitNoticed

=============================================================================
