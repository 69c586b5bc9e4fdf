----------------------------- MODULE FilePlayback -----------------------------
(***************************************************************************)
(* The share page and the session that plays the files it sent.  The page  *)
(* (nd-gui's pages/media) knows of the session only what the service       *)
(* publishes, one message after the other; files it is asked to add are    *)
(* inspected apart and come back whenever they are read.                   *)
(***************************************************************************)
EXTENDS MediaSession

CONSTANTS
    Picks,      \* the selections of the file dialog, each a sequence of items
    MaxPicks,   \* bound: inspections begun
    MaxStatus   \* bound: published statuses the page has not read

ASSUME PageAssumption ==
    /\ \A p \in Picks : p \in Seq(Items \ Urls)
    /\ MaxPicks \in Nat /\ MaxStatus \in Nat \ {0}

VARIABLES
    page,    \* MediaPage
    picks,   \* inspections under way: [generation, files]
    link     \* statuses published and not yet read

vars == <<session, page, picks, link>>

playing == page.status # None

PageInit ==
    /\ Init
    /\ page = [chosen |-> <<>>, status |-> None, generation |-> 0, picked |-> 0]
    /\ picks = {} /\ link = <<>>

(* MediaMsg::Picked: read apart, under the generation of the moment.       *)
Picked(files) ==
    /\ ~playing /\ page.picked < MaxPicks
    /\ picks' = picks \cup {[generation |-> page.generation, files |-> files,
                             id |-> page.picked]}
    /\ page' = [page EXCEPT !.picked = @ + 1]
    /\ UNCHANGED <<session, link>>

(* Each new file once.                                                     *)
With(chosen, files) ==
    chosen \o Subsequence(files, {i \in DOMAIN files :
                                     /\ \A n \in DOMAIN chosen : chosen[n] # files[i]
                                     /\ \A n \in 1..i - 1 : files[n] # files[i]})

\* Mutant: the generation alone is looked at.
Inspected_WhilePlaying(p) ==
    /\ picks' = picks \ {p}
    /\ page' = IF p.generation # page.generation THEN page
               ELSE [page EXCEPT !.chosen = With(@, p.files)]
    /\ UNCHANGED <<session, link>>

(* MediaMsg::Inspected, Selected: they join the queue unless it was sent   *)
(* or cleared meanwhile.                                                   *)
Inspected(p) ==
    /\ picks' = picks \ {p}
    /\ page' = IF p.generation # page.generation \/ playing THEN page
               ELSE [page EXCEPT !.chosen = With(@, p.files)]
    /\ UNCHANGED <<session, link>>

(* MediaMsg::SendTo; the engine starts the session.                        *)
SendTo ==
    /\ ~playing /\ page.chosen # <<>>
    /\ page' = [page EXCEPT !.generation = @ + 1]
    /\ Begin(page.chosen, "none")
    /\ UNCHANGED <<picks, link>>

(* A player hands over URLs itself, and how they start; the page never     *)
(* sees them listed.                                                       *)
PlayerSends(files, begin) ==
    /\ mode # "upnp"
    /\ Begin(files, begin)
    /\ UNCHANGED <<page, picks, link>>

(* MediaMsg::Cancel, or Clear, which also empties the queue.               *)
Cancel ==
    /\ Stop /\ UNCHANGED <<page, picks, link>>

Clear ==
    /\ page' = [page EXCEPT !.generation = @ + 1, !.chosen = <<>>]
    /\ page.generation < MaxPicks
    /\ IF playing /\ task.at # "none" /\ ~stopping THEN Stop ELSE UNCHANGED session
    /\ UNCHANGED <<picks, link>>

(* MediaMsg::Remove: the session is told when one is known to play.        *)
Remove(i) ==
    /\ i \in {page.chosen[n] : n \in DOMAIN page.chosen}
    /\ page' = [page EXCEPT !.chosen = Retained(@, Items \ {i})]
    /\ IF playing /\ left > 0 THEN Command([op |-> "remove", item |-> i])
       ELSE UNCHANGED session
    /\ UNCHANGED <<picks, link>>

(* MediaMsg::Control, and a player's controls.                             *)
Control(c) ==
    /\ c.op # "remove" /\ Command(c)
    /\ UNCHANGED <<page, picks, link>>

(* The engine publishes the session's status while it keeps it, and its    *)
(* end when it reaps it.                                                   *)
Publishes ==
    /\ task.at # "none" /\ Len(link) < MaxStatus
    /\ LET known == IF link = <<>> THEN page.status ELSE link[Len(link)].queue
           now == IF task.at = "over" THEN None ELSE status.queue
       IN /\ now # known
          /\ link' = Append(link, [queue |-> now])
    /\ UNCHANGED <<session, page, picks>>

(* MediaMsg::Status.                                                       *)
Status ==
    LET now == Head(link).queue IN
    /\ link # <<>> /\ link' = Tail(link)
    /\ page' = IF now # None
               THEN [page EXCEPT !.status = now,
                        !.chosen = Retained(@, {now[i] : i \in DOMAIN now})]
               ELSE [page EXCEPT !.status = None,
                        !.chosen = IF playing THEN <<>> ELSE @]
    /\ UNCHANGED <<session, picks>>

Viewer ==
    \/ \E p \in Picks : Picked(p)
    \/ SendTo \/ Cancel \/ Clear
    \/ \E u \in Urls, begin \in {"plays", "paused"} : PlayerSends(<<u>>, begin)
    \/ \E i \in Items : Remove(i)
    \/ \E c \in Commands : Control(c)

Delivery ==
    \/ \E p \in picks : Inspected(p)
    \/ Publishes \/ Status

Task ==
    \/ Connects \/ ConnectFails \/ ConnectCancelled \/ Launches \/ Loads \/ Refused
    \/ Cancelled \/ Closes \/ Takes \/ HeldWorks \/ Restarts
    \/ CastControls \/ UpnpControls \/ StreamControls
    \/ Hears \/ Polls \/ PhotoShown \/ UpnpPolls
    \/ StreamEnds \/ StreamCancelled \/ StreamStops
    \/ Receives

Receiver ==
    \/ \E end \in {"finished", "failed"} : TvEnds(end)
    \/ TakenOver

Next ==
    \/ Viewer
    \/ Delivery
    \/ Task /\ UNCHANGED <<page, picks, link>>
    \/ Receiver /\ UNCHANGED <<page, picks, link>>

Spec == PageInit /\ [][Next]_vars

(* The task runs: its requests are answered or time out, a cancelled wait  *)
(* is dropped, and a stream that was asked to stop returns.                *)
FairSpec ==
    /\ Spec
    /\ WF_vars((Connects \/ ConnectFails \/ ConnectCancelled) /\ UNCHANGED <<page, picks, link>>)
    /\ WF_vars((Launches \/ Takes \/ HeldWorks \/ Closes \/ CastControls \/ UpnpControls
                \/ StreamControls)
               /\ UNCHANGED <<page, picks, link>>)
    /\ WF_vars((Cancelled \/ StreamCancelled \/ StreamStops \/ StreamEnds)
               /\ UNCHANGED <<page, picks, link>>)

-----------------------------------------------------------------------------
(* Properties. *)

With1(at, c, s) == IF c # None /\ SlotOf(c) = s THEN Applied(at, c) ELSE at

(* What the seeks and the volume changes that were accepted add up to is   *)
(* what was carried out with what still waits on top: none is lost, done   *)
(* twice or taken in another order by the slot they share beside the       *)
(* channel (media/mod.rs, merge and next_command).                         *)
SeeksAddUp ==
    task.at \notin {"closing", "over"} =>
        \A s \in SlotNames :
            asked[s] = With1(With1(done[s], IF task.at = "working" THEN task.hand ELSE None, s),
                             latest[s], s)

(* A session that is over left nothing playing: the receiver's app was     *)
(* stopped, or the failure to stop it is what the session reports; the     *)
(* television was told, and a stream has ended (finish_app, the Stop after *)
(* play_upnp_queue, and the wait for start_stream in play_item).           *)
NothingLeftPlaying ==
    task.at = "over" /\ tv.on =>
        \/ mode = "cast" /\ status.failed /\ tv.told
        \/ mode = "upnp" /\ tv.told

(* The queue passes over an item only when the receiver said that this     *)
(* item ended, its photo was shown, or somebody asked: what is heard late  *)
(* about the item before it skips nothing (active_status).                 *)
NeverAnEarlierItem ==
    [][queue'.completed > queue.completed /\ mode # "upnp" =>
          \/ task.at = "took"
          \/ Head(queue.pending) \in Photos
          \/ tv.item = Head(queue.pending) /\ tv.end = "finished"]_vars

(* While the page shows a queue that plays, it lists no file that queue    *)
(* did not have: what was picked before the queue was sent, cleared or     *)
(* known to play does not slip in (MediaMsg::Inspected and Status).        *)
QueueShownPlays ==
    playing => \A n \in DOMAIN page.chosen :
                   \E i \in DOMAIN page.status : page.status[i] = page.chosen[n]

(* A session told to stop is over in the end, wherever its task was.       *)
StopEndsSession == stopping ~> task.at = "over"

(* What the viewer is shown is what happens: seeks and volume add up, the  *)
(* queue listed is the queue played, and a session that is over plays      *)
(* nothing (merge, MediaMsg::Inspected, finish_app).                       *)
PlaybackIsTrue == SeeksAddUp /\ QueueShownPlays /\ NothingLeftPlaying

=============================================================================
