----------------------------- MODULE WfdProvider -----------------------------
(***************************************************************************)
(* Finding Miracast receivers (nd-wfd's keep_discovering and nd-net's      *)
(* P2pDevice).  Every rescan is a task of its own: the one it replaces     *)
(* sees that nobody listens, stops NetworkManager's search and lets go of  *)
(* DISCOVERY_LOCK.  The search is one for the whole machine: it is renewed *)
(* for a while, and paused while a stream needs the radio.                 *)
(*                                                                         *)
(* NetworkManager announces a receiver under an object path it never uses  *)
(* again, so a receiver here arrives once and leaves once.  Announcements  *)
(* and departures are two signal streams, each in order; an announcement   *)
(* waits while the receiver's properties are read.                         *)
(***************************************************************************)
EXTENDS Integers, Sequences, FiniteSets

CONSTANTS
    MaxScans,    \* bound: rescans
    Receiver,    \* receivers, by object path
    MaxStreams,  \* bound: streams begun
    MaxFaults    \* bound: adapter changes, broken signal streams, failed stops

Scan == 1..MaxScans

VARIABLES
    at,          \* where each scan's task is
    closed,      \* its consumer went away
    failing,     \* it stops its search to retry, not to end
    finding,     \* the machine's search: on, off, or lost with the adapter
    renewing,    \* keep_finding: ticking, paused, over
    adapter,     \* ready, off, missing
    streams,     \* streams running, and begun
    place,       \* each receiver: away, nearby, gone
    arriving,    \* announcements: the receiver and what was read of it
    leaving,     \* departures
    known,       \* the running scan's known
    list,        \* what the latest scan has reported and not taken back
    faults

radioVars == <<adapter, streams, faults>>
signalVars == <<place, arriving, leaving>>
taskVars == <<at, closed, failing>>
wfdVars == <<taskVars, finding, renewing, radioVars, signalVars, known, list>>

WfdInit ==
    /\ at = [g \in Scan |-> IF g = 1 THEN "locking" ELSE "off"]
    /\ closed = [g \in Scan |-> FALSE] /\ failing = FALSE
    /\ finding = "off" /\ renewing = "over"
    /\ adapter \in {"ready", "off", "missing"}
    /\ streams = [running |-> 0, begun |-> 0] /\ faults = 0
    /\ place \in [Receiver -> {"away", "nearby"}]
    /\ arriving = <<>> /\ leaving = <<>>
    /\ known = {} /\ list = {}

Holding == {"opening", "starting", "following", "stopping", "retrying"}
Quiet == streams.running > 0
Becomes(g, where) == at' = [at EXCEPT ![g] = where]
Fault == faults < MaxFaults /\ faults' = faults + 1

\* What a task reports is heard by its own consumer only.
Heard(g, reported) == list' = IF closed[g] THEN list ELSE reported

(***************************************************************************)
(* The engine: a rescan drops the stream and asks for another.             *)
(***************************************************************************)
Rescan ==
    \E g \in Scan \ {MaxScans} :
        /\ at[g] # "off" /\ at[g + 1] = "off"
        /\ at' = [at EXCEPT ![g + 1] = "locking"]
        /\ closed' = [closed EXCEPT ![g] = TRUE] /\ list' = {}
        /\ UNCHANGED <<failing, finding, renewing, radioVars, signalVars, known>>

(***************************************************************************)
(* keep_discovering.                                                       *)
(***************************************************************************)
TakesLock_Free(g) ==
    /\ at[g] = "locking" /\ ~closed[g]
    /\ Becomes(g, "opening") /\ known' = {}
    /\ UNCHANGED <<closed, failing, finding, renewing, radioVars, signalVars, list>>

TakesLock(g) ==
    /\ at[g] = "locking" /\ ~closed[g]
    /\ \A other \in Scan : at[other] \notin Holding
    /\ Becomes(g, "opening") /\ known' = {}
    /\ UNCHANGED <<closed, failing, finding, renewing, radioVars, signalVars, list>>

\* Nobody listens any more, at a point where no search is on.
Abandons(g) ==
    /\ at[g] \in {"locking", "opening", "retrying"} /\ closed[g]
    /\ Becomes(g, "ended")
    /\ UNCHANGED <<closed, failing, finding, renewing, radioVars, signalVars, known, list>>

\* The failure is reported and every receiver taken back; then the backoff.
Drained_Kept(g) == Heard(g, list \ known) /\ UNCHANGED known

Drained(g) == Heard(g, list \ known) /\ known' = {}

Retries(g) ==
    /\ at[g] = "retrying" /\ ~closed[g]
    /\ Becomes(g, "opening")
    /\ UNCHANGED <<closed, failing, finding, renewing, radioVars, signalVars, known, list>>

(***************************************************************************)
(* discover_once and P2pDevice::open: no adapter that can do Wi-Fi Direct, *)
(* or no NetworkManager, ends the scan; one that is off is tried again.    *)
(***************************************************************************)
Opens(g) ==
    /\ at[g] = "opening"
    /\ \/ /\ adapter = "ready" /\ Becomes(g, "starting") /\ UNCHANGED <<known, list>>
       \/ adapter = "missing" /\ Becomes(g, "ended") /\ UNCHANGED <<known, list>>
       \/ adapter = "off" /\ Becomes(g, "retrying") /\ Drained(g)
    /\ UNCHANGED <<closed, failing, finding, renewing, radioVars, signalVars>>

Nearby == {r \in Receiver : place[r] = "nearby"}

\* start_find, then peer_events: subscribed to both signals first, it reports
\* the receivers NetworkManager has before any signal.
StartsFind(g) ==
    /\ at[g] = "starting" /\ adapter = "ready"
    /\ Becomes(g, "following") /\ finding' = "on" /\ renewing' = "ticking"
    /\ known' = known \cup Nearby /\ Heard(g, list \cup (Nearby \ known))
    /\ arriving' = <<>> /\ leaving' = <<>>
    /\ UNCHANGED <<closed, failing, radioVars, place>>

LetsGo(g) ==
    /\ Becomes(g, "stopping")
    /\ renewing' = "over" /\ arriving' = <<>> /\ leaving' = <<>>

\* StartFind or the subscription fails, the signals end, or nobody listens.
FailsToFollow(g) ==
    /\ \/ at[g] = "starting" /\ adapter # "ready" /\ UNCHANGED faults
       \/ at[g] = "following" /\ Fault
    /\ LetsGo(g) /\ failing' = TRUE
    /\ UNCHANGED <<closed, finding, adapter, streams, place, known, list>>

SeesClosed(g) ==
    /\ at[g] \in {"starting", "following"} /\ closed[g]
    /\ LetsGo(g) /\ failing' = FALSE
    /\ UNCHANGED <<closed, finding, radioVars, place, known, list>>

\* stop_find, whose failure is only logged.
StopsFind(g) ==
    /\ at[g] = "stopping"
    /\ \/ finding' = "off" /\ UNCHANGED faults
       \/ Fault /\ UNCHANGED finding
    /\ IF failing THEN Becomes(g, "retrying") /\ Drained(g)
       ELSE Becomes(g, "ended") /\ UNCHANGED <<known, list>>
    /\ UNCHANGED <<closed, failing, renewing, adapter, streams, signalVars>>

(***************************************************************************)
(* keep_finding.  FIND_WINDOW may be over at any look at the clock.        *)
(***************************************************************************)
Following == \E g \in Scan : at[g] = "following"

Looks ==
    \/ renewing' = "over" /\ UNCHANGED finding
    \/ renewing' = "ticking" /\ finding' = IF adapter = "ready" THEN "on" ELSE "lost"

Renews ==
    /\ Following /\ renewing = "ticking" /\ ~Quiet
    /\ Looks
    /\ UNCHANGED <<taskVars, radioVars, signalVars, known, list>>

Pauses ==
    /\ Following /\ renewing = "ticking" /\ Quiet
    /\ renewing' = "paused"
    /\ \/ finding' = "off" /\ UNCHANGED faults
       \/ Fault /\ UNCHANGED finding
    /\ UNCHANGED <<taskVars, adapter, streams, signalVars, known, list>>

Resumes ==
    /\ Following /\ renewing = "paused" /\ ~Quiet
    /\ Looks
    /\ UNCHANGED <<taskVars, radioVars, signalVars, known, list>>

(***************************************************************************)
(* run_discovery: an announcement once read, a departure at once, and      *)
(* either first when both are there.                                       *)
(***************************************************************************)
ReadsPeer ==
    /\ arriving # <<>> /\ arriving[1].read = "no"
    /\ arriving' = [arriving EXCEPT ![1].read =
           IF place[arriving[1].receiver] = "nearby" THEN "display" ELSE "nothing"]
    /\ UNCHANGED <<taskVars, finding, renewing, radioVars, place, leaving, known, list>>

Added(g) ==
    LET r == arriving[1].receiver IN
    /\ at[g] = "following" /\ arriving # <<>> /\ arriving[1].read # "no"
    /\ arriving' = Tail(arriving)
    /\ IF arriving[1].read = "display" /\ r \notin known
       THEN known' = known \cup {r} /\ Heard(g, list \cup {r})
       ELSE UNCHANGED <<known, list>>
    /\ UNCHANGED <<taskVars, finding, renewing, radioVars, place, leaving>>

Removed(g) ==
    /\ at[g] = "following" /\ leaving # <<>>
    /\ leaving' = Tail(leaving) /\ known' = known \ {leaving[1]}
    /\ IF leaving[1] \in known THEN Heard(g, list \ {leaving[1]}) ELSE UNCHANGED list
    /\ UNCHANGED <<taskVars, finding, renewing, radioVars, place, arriving>>

(***************************************************************************)
(* NetworkManager and the receivers.                                       *)
(***************************************************************************)
Arrives(r) ==
    /\ place[r] = "away" /\ place' = [place EXCEPT ![r] = "nearby"]
    /\ arriving' = IF Following THEN Append(arriving, [receiver |-> r, read |-> "no"])
                   ELSE arriving
    /\ UNCHANGED <<taskVars, finding, renewing, radioVars, leaving, known, list>>

Departs(r) ==
    /\ place[r] = "nearby" /\ place' = [place EXCEPT ![r] = "gone"]
    /\ leaving' = IF Following THEN Append(leaving, r) ELSE leaving
    /\ UNCHANGED <<taskVars, finding, renewing, radioVars, arriving, known, list>>

AdapterChanges ==
    /\ Fault /\ adapter' \in {"ready", "off", "missing"} \ {adapter}
    /\ finding' = IF finding = "on" THEN "lost" ELSE finding
    /\ UNCHANGED <<taskVars, renewing, streams, signalVars, known, list>>

\* A search that nobody renews ends after FIND_TIMEOUT.
Expires ==
    /\ finding = "on" /\ ~(Following /\ renewing = "ticking")
    /\ finding' = "off"
    /\ UNCHANGED <<taskVars, renewing, radioVars, signalVars, known, list>>

\* radio::quiet and its guard's drop.
StreamBegins ==
    /\ streams.begun < MaxStreams
    /\ streams' = [running |-> streams.running + 1, begun |-> streams.begun + 1]
    /\ UNCHANGED <<taskVars, finding, renewing, adapter, faults, signalVars, known, list>>

StreamEnds ==
    /\ Quiet /\ streams' = [streams EXCEPT !.running = @ - 1]
    /\ UNCHANGED <<taskVars, finding, renewing, adapter, faults, signalVars, known, list>>

Steps(g) ==
    \/ TakesLock(g) \/ Abandons(g) \/ Retries(g) \/ Opens(g) \/ StartsFind(g)
    \/ (at[g] = "starting" /\ FailsToFollow(g)) \/ SeesClosed(g) \/ StopsFind(g)
    \/ Added(g) \/ Removed(g)

WfdNext ==
    \/ Rescan \/ Renews \/ Pauses \/ Resumes \/ ReadsPeer
    \/ AdapterChanges \/ Expires \/ StreamBegins \/ StreamEnds
    \/ \E g \in Scan : Steps(g) \/ FailsToFollow(g)
    \/ \E r \in Receiver : Arrives(r) \/ Departs(r)

\* Tasks run; NetworkManager answers.
WfdFairness ==
    /\ WF_wfdVars(ReadsPeer) /\ WF_wfdVars(Pauses)
    /\ WF_wfdVars(\E g \in Scan : Steps(g))

WfdSpec == WfdInit /\ [][WfdNext]_wfdVars /\ WfdFairness

(***************************************************************************)
(* Properties.                                                             *)
(***************************************************************************)
\* The search a scan follows and renews is on, or was lost with the adapter:
\* the scan it replaced, which stops the machine's one search, is through
\* before it starts its own.
SearchIsOn ==
    \A g \in Scan : at[g] = "following" /\ renewing = "ticking" => finding # "off"

\* A receiver that stays nearby is in the list in the end, after whatever
\* failures and rescans, as long as there is an adapter to search with.
NearbyIsListed ==
    \A r \in Receiver :
        <>[](place[r] = "nearby" /\ adapter = "ready") =>
            <>[](r \in list \/ \E g \in Scan : at[g] = "ended" /\ ~closed[g])

\* The list comes to hold the receivers in range, and a scan that follows them has
\* the radio searching (keep_discovering, keep_finding).  A departure may overtake
\* an announcement that was read before it: then the list keeps what has left.
PeersAreListed == []SearchIsOn /\ NearbyIsListed

=============================================================================
