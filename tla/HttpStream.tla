------------------------------ MODULE HttpStream ------------------------------
(***************************************************************************)
(* A session that is fetched over HTTP: the serving task, the sink's       *)
(* thread, the session that drives them and the receiver.  "screen" and    *)
(* "file" are the two sources of a DLNA session, "cast" the Cast session.  *)
(***************************************************************************)
EXTENDS DlnaSession, CastHttpSession

CONSTANTS Kinds

ASSUME HttpAssumption ==
    /\ Kinds \subseteq {"screen", "file", "cast"}
    /\ None \notin Sockets \cup Transport
    /\ MaxSessions \in Nat \ {0} /\ Attempts \in Nat \ {0}
    /\ TightenAfter \in Nat \ {0}

all == <<server, cancel, kind, ses, status, pipe, dlna, cast>>

TypeOK ==
    /\ kind \in Kinds
    /\ ServerTypeOK /\ DlnaTypeOK /\ CastTypeOK

HttpInit ==
    /\ kind \in Kinds /\ cancel = FALSE
    /\ ServerInit /\ DlnaInit /\ CastInit

-----------------------------------------------------------------------------

(* The serving task is polled by the session's loop, which a probe holds.  *)
Polled == kind = "cast" => probe.at = "idle"

ServerTask ==
    /\ Polled
    /\ \/ \E c \in Sockets : Accepts(c)
       \/ Refuses \/ Hands \/ ServeReturns
    /\ UNCHANGED <<kind, ses, status, pipe, dlna, cast>>

(* on_first_client, called by the serving task.                            *)
ServesReader ==
    /\ Enters /\ FirstClient
    /\ UNCHANGED <<kind, ses, dlna, cast>>

ReaderLeaves ==
    /\ \E c \in Sockets, why \in {"slow", "gone"} : Leaves(c, why)
    /\ UNCHANGED <<kind, ses, status, pipe, dlna, cast>>

ReaderComes ==
    /\ \E c \in Sockets : Fetches(c)
    /\ UNCHANGED <<kind, ses, status, pipe, dlna, cast>>

DlnaTask ==
    \/ Built \/ Serve \/ Stopped \/ OldTask
    \/ HandUri \/ HandPlay \/ Settles \/ HandsOverAgain
    \/ ServingEnds \/ ServingFails \/ AsksState \/ Hears \/ PassesOn \/ Tells

Renderer == TvPlays \/ TvPauses \/ TvStops \/ TvOff

CastTask ==
    \/ CastBuilt \/ CastConnects \/ CastLaunches \/ CastLoads
    \/ CastEnds \/ CastEndedBy \/ CastFinishes
    \/ AsksDelay \/ HearsDelay \/ RateAnswered \/ ReceiverReports

Next ==
    \/ ServerTask \/ ServesReader \/ ReaderLeaves \/ ReaderComes
    \/ (StartStream \/ StopStream \/ PlayerPauses \/ DlnaTask \/ Renderer) /\ UNCHANGED cast
    \/ (CastStarts \/ CastStops \/ CastTask) /\ UNCHANGED dlna

Spec == HttpInit /\ [][Next]_all

(* Every request the sessions await is bounded, and so is every wait.      *)
FairSpec ==
    /\ Spec
    /\ WF_all((Built \/ Serve \/ HandUri \/ HandPlay \/ ServingEnds \/ Stopped \/ OldTask)
              /\ UNCHANGED cast)
    /\ WF_all((AsksState \/ Hears) /\ UNCHANGED cast)

-----------------------------------------------------------------------------
(* Properties. *)

(* The URL is handed over again only to a renderer that reads nothing and  *)
(* never kept a connection long enough to have shown the picture           *)
(* (start_watch in serve_until_over).                                      *)
RetryOnlyWhenGivenUp ==
    [][hs'.attempts > hs.attempts /\ hs.attempts > 0 =>
          /\ \A c \in Sockets : conn[c] = "fed" => c \notin attendance.open
          /\ ~attendance.lasted /\ ~hs.settled]_all

(* While the latest session runs and nobody asked it to stop, stop_stream  *)
(* finds its cancellation in the slot: a stopped session that is still     *)
(* finishing does not empty the slot of the one after it.                  *)
StopReachesTheSession ==
    kind # "cast" /\ ses.at \notin {"none", "over", "stopping"} =>
        cancel \/ slot = ses.number

(* Once its picture is on the television a session never says again that   *)
(* it waits for one, in whatever order the fetch and the answer to Play    *)
(* arrive: until it is over only an earlier session, cancelled and not yet *)
(* back, writes another status over it (on_first_client, the handshake).   *)
StreamingStays ==
    [][serve.served /\ ses'.number = ses.number /\ old' = old =>
          status' = status \/ ses'.at = "over"]_all

(* A television switched off ends its session, whether it ever played or   *)
(* not (until_renderer_stops).                                             *)
OffEnds == kind # "cast" /\ tv = "off" ~> tv # "off" \/ ses.at \in {"none", "over"}

(* The drain never goes back to a target that stalled, except where both   *)
(* meet the ceiling (DrainController).                                     *)
StalledTargetStaysAway ==
    drain.stalledAt > 0 /\ drain.target # Target.max => drain.target > drain.stalledAt

(* abandoned_for: None only while a receiver is connected or before any    *)
(* came.                                                                   *)
NoneMeansConnected ==
    ~Abandoned => \/ ~attendance.left
                  \/ serve.at = "hand"
                  \/ \E c \in Sockets : conn[c] = "fed"

(* A drain that gave up leaves the receiver with its natural buffer, so it *)
(* has asked for the natural rate by the time its last probe is over.      *)
GivenUpIsNatural ==
    drain.stalls > MaxStallProbes /\ probe.at = "idle" => drain.rate = Natural

(* A stop finds the session that runs, and a drain that was given up never *)
(* returns to the target that stalled (DlnaSink::stop_stream, on_stall).   *)
SessionIsReached == StopReachesTheSession /\ StalledTargetStaysAway

(* A hand-over is repeated only when it was given up, and a session that   *)
(* streams does not say again that it waits (serve_until_over).            *)
HandedOverOnce == RetryOnlyWhenGivenUp /\ StreamingStays

=============================================================================
