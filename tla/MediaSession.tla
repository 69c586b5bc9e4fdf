----------------------------- MODULE MediaSession -----------------------------
(***************************************************************************)
(* Files and URLs played one after the other on one receiver               *)
(* (nd-chromecast's media): the session's task, the commands that reach    *)
(* it, and the receiver.  Who plays the items is the mode:                 *)
(*   cast      a Chromecast is told to LOAD each item (cast_queue)         *)
(*   upnp      a television is handed each file (upnp_queue)               *)
(*   decoded   they are decoded here and streamed through a sink that      *)
(*             starts again at a seek (decoded_queue)                      *)
(*   mirrored  the same through Cast mirroring, which seeks in place.      *)
(***************************************************************************)
EXTENDS Integers, Sequences, FiniteSets

CONSTANTS
    None,
    Items,        \* what can be queued
    Photos,       \* those shown for PHOTO_SECONDS
    Urls,         \* those handed over as a URL: they have no path
    Modes,
    Commands,     \* what the player's controls ask
    QueueCap,     \* capacity of the commands channel (32)
    MaxCommands,  \* bound: commands asked of a session
    MaxReports    \* bound: MEDIA_STATUS messages not yet read

Streaming == {"decoded", "mirrored"}
SlotNames == {"seek", "volume"}
Seeks == {"seekTo", "seekBy"}

(* What a session may be told.                                             *)
Controls ==
    [op : Seeks \cup {"volume"}, by : Int] \cup [op : {"next", "toggle"}]
        \cup [op : {"remove"}, item : Items]

ASSUME MediaAssumption ==
    /\ None \notin Items \cup Controls \cup SlotNames
    /\ Photos \subseteq Items /\ Urls \subseteq Items \ Photos
    /\ Modes \subseteq {"cast", "upnp"} \cup Streaming
    /\ Commands \subseteq Controls
    /\ QueueCap \in Nat \ {0} /\ MaxCommands \in Nat /\ MaxReports \in Nat

VARIABLES
    left,      \* commands that may still be asked (bound)
    mode,
    queue,     \* Queue: pending items and how many were completed
    start,     \* Option<PlaybackStart>: absent, or playing or paused
    task,      \* where the session's task is
    inbox,     \* the commands channel
    latest,    \* Latest: the seek and the volume that wait
    status,    \* MediaStatus
    stopping,  \* stop() was called
    asked,     \* what the accepted seeks and volumes add up to (history)
    done,      \* what those carried out or refused add up to (history)
    tv,        \* the receiver, or the sink's session
    reports    \* MEDIA_STATUS waiting in the channel's events

session == <<left, mode, queue, start, task, inbox, latest, status, stopping, asked, done,
             tv, reports>>

Away == [on |-> FALSE, item |-> None, end |-> "no", told |-> FALSE]

Points == {"none", "connecting", "launching", "loading", "holding", "playing",
           "took", "working", "ending", "closing", "over"}
Ends == {"none", "next", "restart", "stop", "ok", "failed"}

SlotOf(c) ==
    IF c.op \in Seeks THEN "seek" ELSE IF c.op = "volume" THEN "volume" ELSE None

Slotted(s) == {c \in Commands : SlotOf(c) = s}
Waiting(s) == [op : {c.op : c \in Slotted(s)}, by : Int]

TypeOK ==
    /\ mode \in Modes
    /\ queue.pending \in Seq(Items) /\ queue.completed \in Nat
    /\ start \in {"none", "plays", "paused"}
    /\ task.at \in Points /\ task.end \in Ends
    /\ task.idle \in 0..2
    /\ Len(inbox) <= QueueCap
    /\ \A s \in SlotNames : latest[s] # None => latest[s] \in Waiting(s)
    /\ status.item \in Items \cup {None} /\ status.queue \in Seq(Items)
    /\ stopping \in BOOLEAN
    /\ tv.on \in BOOLEAN /\ tv.end \in {"no", "finished", "failed"}
    /\ Len(reports) <= MaxReports /\ left \in 0..MaxCommands

-----------------------------------------------------------------------------
(* Commands (MediaSession::command, Latest, merge, next_command). *)

\* Mutant: the later step takes the earlier one's place.
Merge_Replaces(earlier, later) == later

(* later asked while earlier waited: relative steps add up.                *)
Merge(earlier, later) ==
    IF earlier # None /\ later.op = "seekBy" THEN [earlier EXCEPT !.by = @ + later.by]
    ELSE later

(* Where a level or a position is after a command, limits aside.           *)
Applied(at, c) == IF c.op = "seekBy" THEN at + c.by ELSE c.by

Noted(ledger, c) ==
    IF SlotOf(c) = None THEN ledger ELSE [ledger EXCEPT ![SlotOf(c)] = Applied(@, c)]

(* The channel is open as long as the task holds its receiver.             *)
Open == task.at \notin {"none", "closing", "over"}

(* The command joins one that waits, gets a place in the channel, or is    *)
(* refused as busy: a full channel, or playback has ended.                 *)
Coalesced(c) ==
    LET s == SlotOf(c) IN
    /\ s # None /\ latest[s] # None
    /\ latest' = [latest EXCEPT ![s] = Merge(@, c)]
    /\ asked' = Noted(asked, c)
    /\ UNCHANGED inbox

Queued(c) ==
    LET s == SlotOf(c) IN
    /\ s # None => latest[s] = None
    /\ Open /\ Len(inbox) < QueueCap
    /\ inbox' = Append(inbox, c)
    /\ latest' = IF s = None THEN latest ELSE [latest EXCEPT ![s] = c]
    /\ asked' = Noted(asked, c)

Busy(c) ==
    LET s == SlotOf(c) IN
    /\ s # None => latest[s] = None
    /\ ~Open \/ Len(inbox) = QueueCap
    /\ latest' = IF s = None THEN latest ELSE [latest EXCEPT ![s] = None]
    /\ UNCHANGED <<inbox, asked>>

Command(c) ==
    /\ task.at # "none" /\ left > 0
    /\ left' = left - 1
    /\ Coalesced(c) \/ Queued(c) \/ Busy(c)
    /\ UNCHANGED <<mode, queue, start, task, status, stopping, done, tv, reports>>

Stop ==
    /\ task.at # "none" /\ ~stopping
    /\ stopping' = TRUE
    /\ UNCHANGED <<left, mode, queue, start, task, inbox, latest, status, asked, done, tv,
                   reports>>

(* next_command: the place in the channel first, then what waits for it.   *)
Receives ==
    /\ task.at \in {"holding", "playing"} /\ inbox # <<>>
    /\ task.at = "playing" /\ mode \in Streaming => tv.end = "no" /\ ~stopping
    /\ task' = [task EXCEPT !.at = "took", !.from = task.at, !.hand = Head(inbox)]
    /\ inbox' = Tail(inbox)
    /\ UNCHANGED <<left, mode, queue, start, latest, status, stopping, asked, done, tv, reports>>

-----------------------------------------------------------------------------
(* The queue and the status. *)

(* What stands at these places of a sequence, in its order.                *)
Subsequence(s, places) ==
    LET nth(n) == CHOOSE i \in places : Cardinality({j \in places : j <= i}) = n
    IN [n \in 1..Cardinality(places) |-> s[nth(n)]]

(* Vec::retain.                                                            *)
Retained(s, kept) == Subsequence(s, {i \in DOMAIN s : s[i] \in kept})

Files(items) == Retained(items, Items \ Urls)

(* Queue::publish.                                                         *)
Published(st, q, newItem) ==
    LET shown == [st EXCEPT !.queue = Files(q.pending)]
    IN IF newItem THEN [shown EXCEPT !.item = Head(q.pending), !.paused = FALSE] ELSE shown

Advanced(q) ==
    IF q.pending = <<>> THEN q
    ELSE [pending |-> Tail(q.pending), completed |-> q.completed + 1]

(* Queue::edit: what Next and Remove leave, and whether the item must end. *)
Edited(q, c) ==
    IF c.op = "next" THEN Advanced(q)
    ELSE IF c.op = "remove" /\ c.item \notin Urls
    THEN [q EXCEPT !.pending = Retained(@, Items \ {c.item})]
    ELSE q
EndsItem(q, c) ==
    \/ c.op = "next"
    \/ c.op = "remove" /\ q.pending # <<>> /\ Head(q.pending) = c.item /\ c.item \notin Urls

(* Shared::next_start: the next item starts as the last one was left.      *)
NextStart(st) ==
    IF start = "none" THEN "none" ELSE IF st.paused THEN "paused" ELSE "plays"

(* Shared::finish: the channel's receiver is dropped with the task.        *)
Finished(st, end) == [st EXCEPT !.failed = end = "failed"]
Over(end, st) ==
    /\ task' = [task EXCEPT !.at = "over", !.end = end, !.from = "none", !.hand = None,
                             !.idle = 0]
    /\ status' = Finished(st, end)
    /\ inbox' = <<>>

(* The queue's own function returns: the app or the television still has   *)
(* to be told, a stream has already ended.                                 *)
Returns(end, st) ==
    IF mode \in Streaming THEN Over(end, st)
    ELSE /\ task' = [task EXCEPT !.at = "closing", !.end = end, !.from = "none",
                                !.hand = None, !.idle = 0]
         /\ status' = st /\ inbox' = <<>>

(* The head of each queue's loop.  A stream is the item's: the one before  *)
(* has ended.                                                              *)
Turn(q, begin, st) ==
    LET held == mode \in Streaming /\ begin = "paused"
        stream == mode \in Streaming /\ ~held /\ ~stopping /\ q.pending # <<>>
    IN /\ tv' = IF stream THEN [Away EXCEPT !.on = TRUE, !.item = Head(q.pending)]
                ELSE IF mode \in Streaming THEN Away ELSE tv
       /\ IF q.pending = <<>> \/ stopping THEN Returns("ok", st)
          ELSE /\ status' = [Published(st, q, TRUE) EXCEPT !.paused = held]
               /\ task' = [task EXCEPT !.at = IF held THEN "holding"
                                              ELSE IF stream THEN "playing" ELSE "loading",
                                       !.from = "none", !.hand = None, !.end = "none",
                                       !.idle = 0]
               /\ UNCHANGED inbox

(* An item is over and the queue moves on.                                 *)
MovesOn(q, st) ==
    /\ queue' = q /\ start' = NextStart(st)
    /\ Turn(q, NextStart(st), st)

-----------------------------------------------------------------------------
(* A session (MediaSession::start, start_upnp, start_mirroring). *)

NoStatus ==
    [item |-> None, queue |-> <<>>, paused |-> FALSE, failed |-> FALSE]
Nothing == [s \in SlotNames |-> 0]

Init ==
    /\ left = MaxCommands /\ mode \in Modes
    /\ queue = [pending |-> <<>>, completed |-> 0]
    /\ start = "none"
    /\ task = [at |-> "none", from |-> "none", hand |-> None, end |-> "none", idle |-> 0]
    /\ inbox = <<>> /\ latest = [s \in SlotNames |-> None]
    /\ status = NoStatus /\ stopping = FALSE
    /\ asked = Nothing /\ done = Nothing
    /\ tv = Away /\ reports = <<>>

(* spawn: the task begins by reaching the receiver; a stream begins with   *)
(* its first item.                                                         *)
Begin(files, begin) ==
    /\ task.at = "none" /\ files # <<>>
    /\ start' = begin
    /\ LET q == [pending |-> files, completed |-> 0]
           st == [status EXCEPT !.queue = Files(files)]
       IN /\ queue' = q
          /\ IF mode \in Streaming THEN Turn(q, begin, st)
             ELSE /\ task' = [task EXCEPT !.at = "connecting"]
                  /\ status' = st /\ UNCHANGED <<inbox, tv>>
    /\ UNCHANGED <<left, mode, latest, stopping, asked, done, reports>>

(* The file server and the channel, or the television's description.       *)
Connects ==
    /\ task.at = "connecting"
    /\ IF mode = "cast"
       THEN task' = [task EXCEPT !.at = "launching"] /\ UNCHANGED <<inbox, status, tv>>
       ELSE Turn(queue, start, status)
    /\ UNCHANGED <<left, mode, queue, start, latest, stopping, asked, done, reports>>

ConnectFails ==
    /\ task.at = "connecting"
    /\ Over("failed", status)
    /\ UNCHANGED <<left, mode, queue, start, latest, stopping, asked, done, tv, reports>>

ConnectCancelled ==
    /\ task.at = "connecting" /\ mode = "cast" /\ stopping
    /\ Over("ok", status)
    /\ UNCHANGED <<left, mode, queue, start, latest, stopping, asked, done, tv, reports>>

\* Mutant: the launch is raced like the rest.
Launches_Raced ==
    /\ task.at = "launching"
    /\ \/ /\ tv' = [tv EXCEPT !.on = TRUE]
          /\ IF stopping THEN Over("ok", status)
             ELSE task' = [task EXCEPT !.at = "loading"]
                  /\ status' = Published(status, queue, TRUE) /\ UNCHANGED inbox
       \/ Over("failed", status) /\ UNCHANGED tv
    /\ UNCHANGED <<left, mode, queue, start, latest, stopping, asked, done, reports>>

(* LAUNCH is not raced with cancellation: the app that started is stopped. *)
Launches ==
    /\ task.at = "launching"
    /\ \/ /\ tv' = [tv EXCEPT !.on = TRUE]
          /\ IF stopping THEN Returns("ok", status)
             ELSE task' = [task EXCEPT !.at = "loading"]
                  /\ status' = Published(status, queue, TRUE) /\ UNCHANGED inbox
       \/ Over("failed", status) /\ UNCHANGED tv
    /\ UNCHANGED <<left, mode, queue, start, latest, stopping, asked, done, reports>>

(* LOAD and its start, or Stop, SetAVTransportURI and Play.                *)
Loads ==
    /\ task.at = "loading"
    /\ tv.on \/ mode = "upnp"
    /\ task' = [task EXCEPT !.at = "playing"]
    /\ status' = [status EXCEPT !.paused = mode = "cast" /\ start = "paused"]
    /\ tv' = [Away EXCEPT !.on = TRUE, !.item = Head(queue.pending)]
    /\ UNCHANGED <<left, mode, queue, start, inbox, latest, stopping, asked, done, reports>>

(* The receiver refuses the item.  A television may have taken it and only *)
(* refused to play it.                                                     *)
Refused ==
    /\ task.at = "loading"
    /\ Returns("failed", status)
    /\ tv' \in IF mode = "upnp" THEN {tv, [tv EXCEPT !.on = TRUE, !.told = FALSE]} ELSE {tv}
    /\ UNCHANGED <<left, mode, queue, start, latest, stopping, asked, done, reports>>

\* Mutant: an item that is held does not look at the cancellation.
Cancelled_NotHeld ==
    /\ stopping /\ mode \in {"cast", "upnp"}
    /\ task.at \in {"loading", "playing", "working"}
    /\ Returns("ok", status)
    /\ UNCHANGED <<left, mode, queue, start, latest, stopping, asked, done, tv, reports>>

(* The select! beside the queue drops it wherever it waits.                *)
Cancelled ==
    /\ stopping
    /\ \/ mode \in {"cast", "upnp"} /\ task.at \in {"loading", "playing", "working"}
       \/ mode \in Streaming /\ task.at = "holding"
    /\ Returns("ok", status)
    /\ UNCHANGED <<left, mode, queue, start, latest, stopping, asked, done, tv, reports>>

(* finish_app: STOP and its confirmation; the television is told Stop      *)
(* whatever it answers.                                                    *)
Closes ==
    /\ task.at = "closing"
    /\ \/ tv' = [tv EXCEPT !.on = FALSE, !.told = TRUE] /\ Over(task.end, status)
       \/ /\ mode = "cast" /\ tv' = [tv EXCEPT !.told = TRUE]
          /\ Over("failed", status)
       \/ /\ mode = "upnp" /\ tv' = [tv EXCEPT !.told = TRUE]
          /\ Over(task.end, status)
    /\ UNCHANGED <<left, mode, queue, start, latest, stopping, asked, done, reports>>

-----------------------------------------------------------------------------
(* Carrying out a command. *)

(* next_command's second half: what waits in the slot stands for it.       *)
Takes ==
    LET s == SlotOf(task.hand)
        c == IF s # None /\ latest[s] # None THEN latest[s] ELSE task.hand
        q == Edited(queue, c)
    IN /\ task.at = "took"
       /\ latest' = IF s = None THEN latest ELSE [latest EXCEPT ![s] = None]
       /\ IF EndsItem(queue, c)
          THEN IF mode \in Streaming /\ task.from = "playing"
               THEN /\ queue' = q
                    /\ status' = Published(status, q, FALSE)
                    /\ task' = [task EXCEPT !.at = "ending", !.end = "next", !.from = "none"]
                    /\ UNCHANGED <<start, inbox, tv>>
               ELSE MovesOn(q, Published(status, q, FALSE))
          ELSE /\ queue' = q
               /\ status' = Published(status, q, FALSE)
               /\ task' = [task EXCEPT !.at = "working", !.hand = c]
               /\ UNCHANGED <<start, inbox, tv>>
       /\ UNCHANGED <<left, mode, stopping, asked, done, reports>>

(* The item is held (hold_while_paused): a change of pause is kept for     *)
(* its start, a seek is refused.                                           *)
HeldWorks ==
    LET c == task.hand
        plays == c.op = "toggle"
    IN /\ task.at = "working" /\ task.from = "holding"
       /\ tv' = IF plays THEN [Away EXCEPT !.on = TRUE, !.item = Head(queue.pending)] ELSE tv
       /\ done' = Noted(done, c)
       /\ start' = IF plays THEN "plays" ELSE start
       /\ status' = [status EXCEPT !.paused = ~plays]
       /\ task' = [task EXCEPT !.at = IF plays THEN "playing" ELSE "holding",
                                !.from = "none", !.hand = None]
       /\ UNCHANGED <<left, mode, queue, inbox, latest, stopping, asked, reports>>

(* The command is done, or refused and the reason published; the pause is  *)
(* what the other side confirmed.                                          *)
Answered(paused) ==
    /\ task.at = "working" /\ task.from = "playing"
    /\ done' = Noted(done, task.hand)
    /\ task' = [task EXCEPT !.at = "playing", !.from = "none", !.hand = None]
    /\ status' = [status EXCEPT !.paused = paused]
    /\ UNCHANGED <<left, mode, queue, start, inbox, latest, stopping, asked, tv, reports>>

Toggled == IF task.hand.op = "toggle" THEN {status.paused, ~status.paused} ELSE {status.paused}

(* A media request to the app, answered with this item's status or not.    *)
CastControls == mode = "cast" /\ task.hand # None /\ \E p \in Toggled : Answered(p)

(* An AVTransport or RenderingControl action.                              *)
UpnpControls == mode = "upnp" /\ task.hand # None /\ \E p \in Toggled : Answered(p)

(* The pipeline's own pause, volume and, mirroring, its seek.              *)
StreamControls ==
    mode \in Streaming /\ task.hand # None /\ \E p \in Toggled : Answered(p)

(* A seek in a decoded item starts it again from there (seek_restart).     *)
Restarts ==
    /\ task.at = "working" /\ task.from = "playing" /\ mode = "decoded"
    /\ task.hand.op \in Seeks
    /\ done' = Noted(done, task.hand)
    /\ start' = IF status.paused THEN "paused" ELSE "plays"
    /\ task' = [task EXCEPT !.at = "ending", !.end = "restart", !.hand = None]
    /\ UNCHANGED <<left, mode, queue, inbox, latest, status, stopping, asked, tv, reports>>

-----------------------------------------------------------------------------
(* How an item ends. *)

(* External: the receiver plays the item out, gives it up, or its app is   *)
(* closed by another sender.                                               *)
TvEnds(end) ==
    /\ tv.on /\ tv.item # None /\ tv.end = "no"
    /\ tv.item \in Photos => mode = "cast"
    /\ tv' = [tv EXCEPT !.end = end]
    /\ reports' = IF mode = "cast" /\ Len(reports) < MaxReports
                  THEN Append(reports, [item |-> tv.item, end |-> end]) ELSE reports
    /\ UNCHANGED <<left, mode, queue, start, task, inbox, latest, status, stopping, asked, done>>

TakenOver ==
    /\ mode = "cast" /\ tv.on /\ Len(reports) < MaxReports
    /\ task.at \in {"loading", "playing", "took", "working"}
    /\ tv' = [tv EXCEPT !.on = FALSE]
    /\ reports' = Append(reports, [item |-> None, end |-> "closed"])
    /\ UNCHANGED <<left, mode, queue, start, task, inbox, latest, status, stopping, asked, done>>

\* Mutant: whatever ended is taken for the item that plays.
Own_Any(report) == TRUE

(* active_status: a report is heard only about the item that plays.        *)
Own(report) == report.item = Head(queue.pending)

(* has_ended: FINISHED moves on, any other end is the queue's.             *)
Hears ==
    LET report == Head(reports) IN
    /\ mode = "cast" /\ task.at = "playing" /\ reports # <<>>
    /\ reports' = Tail(reports)
    /\ IF report.end = "closed"
       THEN Returns("ok", status) /\ UNCHANGED <<queue, start, tv>>
       ELSE IF Own(report) /\ Head(queue.pending) \notin Photos
       THEN IF report.end = "finished" THEN MovesOn(Advanced(queue), status)
            ELSE Returns("failed", status) /\ UNCHANGED <<queue, start, tv>>
       ELSE UNCHANGED <<queue, start, task, status, inbox, tv>>
    /\ UNCHANGED <<left, mode, latest, stopping, asked, done>>

(* GET_STATUS every second; no answer, a closed channel or a minute of     *)
(* silence end the queue.                                                  *)
Polls ==
    /\ mode = "cast" /\ task.at = "playing"
    /\ \/ tv.on /\ tv.end = "finished" /\ Head(queue.pending) \notin Photos
          /\ MovesOn(Advanced(queue), status)
       \/ Returns("failed", status) /\ UNCHANGED <<queue, start, tv>>
    /\ UNCHANGED <<left, mode, latest, stopping, asked, done, reports>>

PhotoShown ==
    /\ task.at = "playing" /\ Head(queue.pending) \in Photos
    /\ mode \in {"cast"} \cup Streaming
    /\ IF mode = "cast" THEN MovesOn(Advanced(queue), status)
       ELSE /\ task' = [task EXCEPT !.at = "ending", !.end = "next", !.from = "none"]
            /\ queue' = Advanced(queue)
            /\ UNCHANGED <<start, inbox, status, tv>>
    /\ UNCHANGED <<left, mode, latest, stopping, asked, done, reports>>

(* UpnpItem::poll: two idle answers, or none, end an item that played:     *)
(* near its end the queue moves on, elsewhere the viewer stopped it.       *)
UpnpPolls ==
    /\ mode = "upnp" /\ task.at = "playing"
    /\ \/ tv.end = "no" /\ task.idle # 0
          /\ task' = [task EXCEPT !.idle = 0] /\ UNCHANGED <<queue, start, status, inbox, tv>>
       \/ task.idle = 0
          /\ task' = [task EXCEPT !.idle = 1] /\ UNCHANGED <<queue, start, status, inbox, tv>>
       \/ task.idle = 1 /\ MovesOn(Advanced(queue), status)
       \/ task.idle = 1 /\ Returns("ok", status) /\ UNCHANGED <<queue, start, tv>>
       \/ tv.end = "no" /\ Returns("failed", status) /\ UNCHANGED <<queue, start, tv>>
    /\ UNCHANGED <<left, mode, latest, stopping, asked, done, reports>>

(* play_item: the stream's own end comes before anything else.             *)
StreamEnds ==
    /\ mode \in Streaming /\ task.at = "playing" /\ tv.end # "no"
    /\ IF tv.end = "finished" THEN MovesOn(Advanced(queue), status)
       ELSE Over("failed", status) /\ tv' = Away /\ UNCHANGED <<queue, start>>
    /\ UNCHANGED <<left, mode, latest, stopping, asked, done, reports>>

(* cancelled: the stream is asked to stop and waited for.                  *)
StreamCancelled ==
    /\ mode \in Streaming /\ task.at = "playing" /\ stopping /\ tv.end = "no"
    /\ task' = [task EXCEPT !.at = "ending", !.end = "stop"]
    /\ UNCHANGED <<left, mode, queue, start, inbox, latest, status, stopping, asked, done, tv,
                   reports>>

(* start_stream returned after stop_stream.                                *)
StreamStops ==
    /\ task.at = "ending"
    /\ \/ Over("failed", status) /\ tv' = Away /\ UNCHANGED <<queue, start>>
       \/ /\ task.end = "stop"
          /\ Over("ok", status) /\ tv' = Away /\ UNCHANGED <<queue, start>>
       \/ task.end = "next" /\ MovesOn(queue, status)
       \/ /\ task.end = "restart"
          /\ Turn(queue, start, status) /\ UNCHANGED <<queue, start>>
    /\ UNCHANGED <<left, mode, latest, stopping, asked, done, reports>>
=============================================================================
