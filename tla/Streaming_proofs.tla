--------------------------- MODULE Streaming_proofs ---------------------------
(***************************************************************************)
(* Proofs about the way of a picture out of the desktop.                   *)
(*                                                                         *)
(* HttpStream: for every set of sockets and kinds, any number of sessions  *)
(* and hand-overs, and any number of samples before the drain tightens.    *)
(* PipelineBus: for any capacity of the event channel, any number of       *)
(* messages and any repetition of the pads' ends of stream.  Capture: for  *)
(* any number of casts, of monitors plugged and of arrangements, and any   *)
(* number of attempts to restore one.  WfdModes: for any answer of a sink  *)
(* and any screen, limit and rate.  EncoderChoice: for any machine and any *)
(* number of sessions.                                                     *)
(***************************************************************************)
EXTENDS HttpStream, Capture, PipelineBus, WfdModes, EncoderChoice,
        FiniteSetTheorems, WellFoundedInduction, SequenceTheorems, TLAPS

-----------------------------------------------------------------------------
(* Types, part by part. *)

Phases ==
    IF kind = "cast"
    THEN {"none", "building", "connecting", "launching", "loading", "serving", "finishing",
          "over"}
    ELSE {"none", "building", "picture", "ready", "serving", "stopping", "over"}
Outcomes == {"ok", "failed"}
Handshakes ==
    [step : {"none", "uri", "play", "done"}, attempts : Nat, settled : BOOLEAN]
Watches ==
    [played : BOOLEAN, idle : 0..1, byTv : BOOLEAN, here : BOOLEAN,
     poll : Transport \cup {None}, tell : {None, "pause", "play"}]

KindOK == kind \in Kinds /\ cancel \in BOOLEAN

ServerOK ==
    /\ serve \in [at : {"off", "accept", "admit", "hand"} \cup Returned,
                  now : Sockets \cup {None}, served : BOOLEAN, slow : BOOLEAN]
    /\ conn \in [Sockets -> {"closed", "waiting", "fed"}]
    /\ attendance \in [open : SUBSET Sockets, left : BOOLEAN, lasted : BOOLEAN]

SessionOK ==
    /\ ses \in [at : Phases, number : Nat, end : Outcomes]
    /\ status \in States /\ pipe \in {"null", "ready", "playing", "paused"}

SlotOK == slot \in Nat /\ old \subseteq OldSessions

(* The slot is the running session's, and every session set aside is an    *)
(* earlier one, which does not empty it.                                   *)
Reached ==
    kind # "cast" =>
        /\ \A o \in old : o.number < ses.number
        /\ ses.at \notin {"none", "over", "stopping"} => cancel \/ slot = ses.number
        /\ ses.at = "ready" => kind = "file"
        /\ ses.number = 0 => ses.at = "none"

(* The handshake is made while the session serves.                         *)
HandshakeOK ==
    hs \in Handshakes /\ (kind = "cast" \/ ses.at # "serving" => hs = NoHandshake)

WatchOK == tv \in Transport /\ watch \in Watches

LEMMA ClosedTyped == Closed => ServerOK'
BY DEF Closed, Unserved, Nobody, ServerOK

LEMMA IdleTyped ==
    ASSUME NEW w \in Watches, NEW n \in 0..1
    PROVE  [w EXCEPT !.idle = n] \in Watches
BY DEF Watches

LEMMA HeardTyped ==
    ASSUME NEW w \in Watches
    PROVE  Heard(w) \in Watches
BY DEF Heard, Watches

LEMMA BlankTyped == NoHandshake \in Handshakes /\ Unwatched \in Watches
BY DEF NoHandshake, Unwatched, Handshakes, Watches

(* What can end while it serves leaves the server alone or closes it.      *)
LEMMA EndsOrNot ==
    ASSUME HandUri \/ HandPlay \/ ServingEnds \/ ServingFails \/ Hears
    PROVE  /\ InServing
           /\ \/ \E end \in Outcomes : Ends(end)
              \/ server' = server /\ ses' = ses
BY DEF HandUri, HandPlay, ServingEnds, ServingFails, Hears, HearsPlaying, HearsPaused,
   HearsLoading, HearsIdle, Outcomes, InServing

(* What the sessions that were cancelled and replaced still do together.   *)
LEMMA OldTaskDoes ==
    ASSUME SlotOK, OldTask
    PROVE  /\ UNCHANGED <<server, cancel, kind, ses, hs, watch, pipe>>
           /\ status' \in {status, "waitSocket", "waitStreaming", "streaming", "disconnected",
                           "error"}
           /\ tv' \in {tv, "idle", "transitioning"}
           /\ old' \subseteq OldSessions
           /\ \A p \in old' : \E o \in old : p.number = o.number
           /\ slot' = slot \/ \E o \in old : slot' = Emptied(o.number)
<1>1. UNCHANGED <<server, cancel, kind, ses, hs, watch, pipe>>
  BY DEF OldTask
<1>2. PICK o \in old : \/ OldBuilds(o) \/ OldStarts(o) \/ OldShows(o)
                      \/ OldHandsOver(o) \/ OldEnds(o) \/ OldReturns(o)
  BY DEF OldTask
<1>3. o \in OldSessions
  BY DEF SlotOK
<1>4. ASSUME NEW p \in OldSessions, p.number = o.number, Becomes(o, p)
      PROVE  old' \subseteq OldSessions /\ \A q \in old' : \E r \in old : q.number = r.number
  BY <1>4 DEF Becomes, SlotOK
<1>5. CASE OldBuilds(o)
  <2>1. [o EXCEPT !.at = "built"] \in OldSessions /\ [o EXCEPT !.at = "built"].number = o.number
    BY <1>3 DEF OldSessions
  <2>. QED
    BY <1>1, <1>4, <1>5, <2>1 DEF OldBuilds
<1>6. CASE OldStarts(o)
  <2>1. /\ [o EXCEPT !.at = "serving", !.step = "uri"] \in OldSessions
        /\ [o EXCEPT !.at = "serving", !.step = "uri"].number = o.number
    BY <1>3 DEF OldSessions
  <2>. QED
    BY <1>1, <1>4, <1>6, <2>1 DEF OldStarts
<1>7. CASE OldShows(o)
  <2>1. /\ [o EXCEPT !.reader = "shown"] \in OldSessions
        /\ [o EXCEPT !.reader = "shown"].number = o.number
    BY <1>3 DEF OldSessions, Readers
  <2>. QED
    BY <1>1, <1>4, <1>7, <2>1 DEF OldShows
<1>8. CASE OldHandsOver(o)
  <2>1. ASSUME NEW step \in {"uri", "play", "done"}
        PROVE  /\ [o EXCEPT !.step = step] \in OldSessions
               /\ [o EXCEPT !.step = step].number = o.number
    BY <1>3 DEF OldSessions
  <2>2. \E step \in {"uri", "play", "done"} : Becomes(o, [o EXCEPT !.step = step])
    BY <1>8 DEF OldHandsOver
  <2>3. /\ status' \in {status, "waitStreaming"} /\ slot' = slot
        /\ tv' \in {tv, "idle", "transitioning"}
    BY <1>8 DEF OldHandsOver
  <2>. QED
    BY <1>1, <1>4, <2>1, <2>2, <2>3
<1>9. CASE OldEnds(o)
  <2>1. ASSUME NEW end \in {"ok", "failed"}
        PROVE  /\ [o EXCEPT !.at = "stopping", !.end = end, !.step = "none",
                            !.reader = "none"] \in OldSessions
               /\ [o EXCEPT !.at = "stopping", !.end = end, !.step = "none",
                            !.reader = "none"].number = o.number
    BY <1>3 DEF OldSessions, Readers
  <2>2. PICK end \in {"ok", "failed"} :
          Becomes(o, [o EXCEPT !.at = "stopping", !.end = end, !.step = "none",
                              !.reader = "none"])
    BY <1>9 DEF OldEnds
  <2>3. UNCHANGED <<slot, status, tv>>
    BY <1>9 DEF OldEnds
  <2>. QED
    BY <1>1, <1>4, <2>1, <2>2, <2>3
<1>10. CASE OldReturns(o)
  <2>1. old' = old \ {o} /\ slot' = Emptied(o.number)
    BY <1>10 DEF OldReturns
  <2>2. status' \in {status, "disconnected", "error"} /\ tv' \in {tv, "idle"}
    BY <1>10 DEF OldReturns, Result, SetStatus, Silenced
  <2>. QED
    BY <1>1, <2>1, <2>2 DEF SlotOK
<1>. QED
  BY <1>2, <1>5, <1>6, <1>7, <1>8, <1>9, <1>10

\* Each of their steps moves one of them.
LEMMA OldChanges ==
    ASSUME SlotOK, OldTask
    PROVE  old' # old
<1>1. PICK o \in old : \/ OldBuilds(o) \/ OldStarts(o) \/ OldShows(o)
                      \/ OldHandsOver(o) \/ OldEnds(o) \/ OldReturns(o)
  BY DEF OldTask
<1>2. o \in OldSessions
  BY DEF SlotOK
<1>3. ASSUME NEW p, p # o, Becomes(o, p)
      PROVE  o \notin old'
  BY <1>3 DEF Becomes
<1>4. CASE OldBuilds(o)
  <2>1. [o EXCEPT !.at = "built"].at # o.at
    BY <1>2, <1>4 DEF OldBuilds, OldSessions
  <2>. QED
    BY <1>3, <1>4, <2>1 DEF OldBuilds
<1>5. CASE OldStarts(o)
  <2>1. [o EXCEPT !.at = "serving", !.step = "uri"].at # o.at
    BY <1>2, <1>5 DEF OldStarts, OldSessions
  <2>. QED
    BY <1>3, <1>5, <2>1 DEF OldStarts
<1>6. CASE OldShows(o)
  <2>1. [o EXCEPT !.reader = "shown"].reader # o.reader
    BY <1>2, <1>6 DEF OldShows, OldSessions
  <2>. QED
    BY <1>3, <1>6, <2>1 DEF OldShows
<1>7. CASE OldHandsOver(o)
  <2>1. PICK step \in {"uri", "play", "done"} :
          Becomes(o, [o EXCEPT !.step = step]) /\ step # o.step
    BY <1>7 DEF OldHandsOver
  <2>2. [o EXCEPT !.step = step].step # o.step
    BY <1>2, <2>1 DEF OldSessions
  <2>. QED
    BY <1>3, <2>1, <2>2
<1>8. CASE OldEnds(o)
  <2>1. PICK end \in {"ok", "failed"} :
          Becomes(o, [o EXCEPT !.at = "stopping", !.end = end, !.step = "none",
                              !.reader = "none"])
    BY <1>8 DEF OldEnds
  <2>2. [o EXCEPT !.at = "stopping", !.end = end, !.step = "none",
                  !.reader = "none"].at # o.at
    BY <1>2, <1>8 DEF OldEnds, OldSessions
  <2>. QED
    BY <1>3, <2>1, <2>2
<1>9. CASE OldReturns(o)
  BY <1>9 DEF OldReturns
<1>. QED
  BY <1>1, <1>4, <1>5, <1>6, <1>7, <1>8, <1>9

LEMMA KindTyped ==
    ASSUME KindOK, Next
    PROVE  KindOK'
<1>1. CASE ServerTask \/ ServesReader \/ ReaderLeaves \/ ReaderComes \/ (StartStream
         /\ UNCHANGED cast) \/ (StopStream /\ UNCHANGED cast) \/ (PlayerPauses /\
         UNCHANGED cast) \/ (Built /\ UNCHANGED cast) \/ (Serve /\ UNCHANGED cast) \/
         (Stopped /\ UNCHANGED cast) \/ (OldTask /\ UNCHANGED cast) \/ (HandUri /\
         UNCHANGED cast) \/ (HandPlay /\ UNCHANGED cast) \/ (Settles /\ UNCHANGED
         cast) \/ (HandsOverAgain /\ UNCHANGED cast) \/ (ServingEnds /\ UNCHANGED
         cast) \/ (ServingFails /\ UNCHANGED cast) \/ (AsksState /\ UNCHANGED cast) \/
         (Hears /\ UNCHANGED cast) \/ (PassesOn /\ UNCHANGED cast) \/ (Tells /\
         UNCHANGED cast) \/ (Renderer /\ UNCHANGED cast) \/ (CastStarts /\ UNCHANGED
         dlna) \/ (CastStops /\ UNCHANGED dlna) \/ (CastBuilt /\ UNCHANGED dlna) \/
         (CastConnects /\ UNCHANGED dlna) \/ (CastLaunches /\ UNCHANGED dlna) \/
         (CastLoads /\ UNCHANGED dlna) \/ (CastEnds /\ UNCHANGED dlna) \/ (CastEndedBy
         /\ UNCHANGED dlna) \/ (CastFinishes /\ UNCHANGED dlna) \/ (AsksDelay /\
         UNCHANGED dlna) \/ (HearsDelay /\ UNCHANGED dlna) \/ (RateAnswered /\
         UNCHANGED dlna) \/ (ReceiverReports /\ UNCHANGED dlna)
  BY <1>1 DEF ServerTask, Accepts, Refuses, Hands, ServeReturns, ServesReader, Enters,
     FirstClient, ReaderLeaves, Leaves, ReaderComes, Fetches, StartStream, Closed,
     Unserved, Nobody, NoHandshake, Unwatched, cast, StopStream, PlayerPauses,
     InServing, Built, Over, Emptied, Result, SetStatus, Serve, Ends, Stopped,
     Silenced, OldTask, HandUri, HandPlay, Settles, HandsOverAgain, GivenUp,
     Abandoned, ServingEnds, ServingFails, AsksState, Hears, HearsPlaying,
     HearsPaused, HearsLoading, HearsIdle, Heard, IdlePolls, PassesOn, Tells,
     Renderer, TvPlays, TvPauses, TvStops, TvOff, CastStarts, dlna, CastStops,
     CastBuilt, CastOver, CastConnects, CastLaunches, Finishing, CastLoads, CastEnds,
     InCast, CastEndedBy, CastFinishes, AsksDelay, Idle, HearsDelay, RateAnswered,
     ReceiverReports, server, KindOK
<1>. QED
  BY <1>1
  DEF Next, DlnaTask, CastTask

(* Whoever is handed over or admitted is a connection.                     *)
Placed == serve.at \in {"admit", "hand"} => serve.now \in Sockets

LEMMA ServerTyped ==
    ASSUME HttpAssumption, ServerOK, Placed, Next
    PROVE  ServerOK'
<1>1. CASE ServerTask
  <2>1. ASSUME NEW c \in Sockets, Accepts(c)
        PROVE  ServerOK'
    BY <2>1 DEF Accepts, ServerOK
  <2>2. CASE Refuses
    BY <2>2 DEF Refuses, ServerOK
  <2>3. CASE Hands
    BY <2>3 DEF Hands, ServerOK
  <2>4. CASE ServeReturns
    <3>1. \E a \in Returned : \/ serve' = [serve EXCEPT !.at = a]
                             \/ serve' = [serve EXCEPT !.at = a, !.now = None]
      BY <2>4 DEF ServeReturns, Returned
    <3>2. UNCHANGED <<conn, attendance>>
      BY <2>4 DEF ServeReturns
    <3>. QED
      BY <3>1, <3>2 DEF ServerOK
  <2>. QED
    BY <1>1, <2>1, <2>2, <2>3, <2>4 DEF ServerTask
<1>2. CASE ServesReader
  <2>1. serve.at = "hand" /\ conn' = conn
    BY <1>2 DEF ServesReader, Enters
  <2>2. serve' = [serve EXCEPT !.at = "accept", !.now = None, !.served = TRUE]
    BY <1>2 DEF ServesReader, Enters
  <2>3. attendance' = [attendance EXCEPT !.open = @ \cup {serve.now}]
    BY <1>2 DEF ServesReader, Enters
  <2>. QED
    BY <2>1, <2>2, <2>3 DEF ServerOK, Placed
<1>3. CASE ReaderLeaves
  <2>1. PICK c \in Sockets, why \in {"slow", "gone"} : Leaves(c, why)
    BY <1>3 DEF ReaderLeaves
  <2>2. conn' = [conn EXCEPT ![c] = "closed"]
    BY <2>1 DEF Leaves
  <2>3. serve' = [serve EXCEPT !.slow = @ \/ why = "slow"]
    BY <2>1 DEF Leaves
  <2>4. PICK long \in BOOLEAN :
          attendance' = [open |-> attendance.open \ {c}, left |-> TRUE,
                         lasted |-> attendance.lasted \/ long]
    BY <2>1 DEF Leaves
  <2>. QED
    BY <2>2, <2>3, <2>4 DEF ServerOK
<1>4. CASE ReaderComes
  BY <1>4 DEF ReaderComes, Fetches, server, ServerOK, Returned
<1>5. CASE StartStream /\ UNCHANGED cast
  BY <1>5 DEF StartStream, Closed, Unserved, Nobody, NoHandshake, Unwatched, cast,
     server, ServerOK, Returned
<1>6. CASE Serve /\ UNCHANGED cast
  <2>1. Closed \/ (serve' = [Unserved EXCEPT !.at = "accept"] /\ UNCHANGED <<conn, attendance>>)
    BY <1>6 DEF Serve, Ends
  <2>. QED
    BY <2>1, ClosedTyped DEF ServerOK, Unserved
<1>7. CASE (HandUri /\ UNCHANGED cast) \/ (HandPlay /\ UNCHANGED cast) \/ (ServingEnds
         /\ UNCHANGED cast) \/ (ServingFails /\ UNCHANGED cast) \/ (Hears /\ UNCHANGED
         cast)
  BY <1>7, EndsOrNot, ClosedTyped DEF Ends, server, ServerOK
<1>8. CASE (CastLaunches /\ UNCHANGED dlna) \/ (CastLoads /\ UNCHANGED dlna) \/
         (CastEnds /\ UNCHANGED dlna) \/ (CastEndedBy /\ UNCHANGED dlna)
  <2>1. \/ Closed \/ server' = server
        \/ serve' = [Unserved EXCEPT !.at = "accept"] /\ UNCHANGED <<conn, attendance>>
    BY <1>8 DEF CastLaunches, CastLoads, CastEnds, CastEndedBy, Finishing
  <2>. QED
    BY <2>1, ClosedTyped DEF ServerOK, server, Unserved
<1>9. CASE (StopStream /\ UNCHANGED cast) \/ (PlayerPauses /\ UNCHANGED cast) \/
         (Built /\ UNCHANGED cast) \/ (Stopped /\ UNCHANGED cast) \/ (OldTask /\
         UNCHANGED cast) \/ (Settles /\ UNCHANGED cast) \/ (HandsOverAgain /\
         UNCHANGED cast) \/ (AsksState /\ UNCHANGED cast) \/ (PassesOn /\ UNCHANGED
         cast) \/ (Tells /\ UNCHANGED cast) \/ (Renderer /\ UNCHANGED cast) \/
         (CastStarts /\ UNCHANGED dlna) \/ (CastStops /\ UNCHANGED dlna) \/ (CastBuilt
         /\ UNCHANGED dlna) \/ (CastConnects /\ UNCHANGED dlna) \/ (CastFinishes /\
         UNCHANGED dlna) \/ (AsksDelay /\ UNCHANGED dlna) \/ (HearsDelay /\ UNCHANGED
         dlna) \/ (RateAnswered /\ UNCHANGED dlna) \/ (ReceiverReports /\ UNCHANGED
         dlna)
  BY <1>9 DEF StopStream, cast, PlayerPauses, InServing, Built, Over, Emptied, Result,
     SetStatus, Stopped, Silenced, OldTask, Settles, HandsOverAgain, GivenUp,
     Abandoned, AsksState, PassesOn, Tells, Renderer, TvPlays, TvPauses, TvStops,
     TvOff, CastStarts, dlna, CastStops, CastBuilt, CastOver, CastConnects,
     CastFinishes, AsksDelay, InCast, Idle, HearsDelay, RateAnswered, ReceiverReports,
     server, ServerOK, Returned
<1>. QED
  BY <1>1, <1>2, <1>3, <1>4, <1>5, <1>6, <1>7, <1>8, <1>9
  DEF Next, DlnaTask, CastTask

LEMMA PlacedStays ==
    ASSUME HttpAssumption, ServerOK, Placed, Next
    PROVE  Placed'
<1>1. CASE ServerTask
  <2>1. CASE \E c \in Sockets : Accepts(c)
    BY <2>1 DEF Accepts, ServerOK, Placed
  <2>2. CASE Refuses \/ Hands
    <3>1. \/ serve' = [serve EXCEPT !.at = "accept", !.now = None]
          \/ serve.at = "admit" /\ serve' = [serve EXCEPT !.at = "hand"]
      BY <2>2 DEF Refuses, Hands
    <3>. QED
      BY <3>1 DEF ServerOK, Placed
  <2>3. CASE ServeReturns
    <3>1. serve'.at \in Returned
      BY <2>3 DEF ServeReturns, ServerOK, Returned
    <3>. QED
      BY <3>1 DEF Placed, Returned
  <2>. QED
    BY <1>1, <2>1, <2>2, <2>3 DEF ServerTask
<1>2. CASE ServesReader
  BY <1>2 DEF ServesReader, Enters, FirstClient, server, ServerOK, Placed, Returned
<1>3. CASE ReaderLeaves
  BY <1>3 DEF ReaderLeaves, Leaves, server, ServerOK, Placed, Returned
<1>4. CASE ReaderComes
  BY <1>4 DEF ReaderComes, Fetches, server, ServerOK, Placed, Returned
<1>5. CASE StartStream /\ UNCHANGED cast
  BY <1>5 DEF StartStream, Closed, Unserved, Nobody, NoHandshake, Unwatched, cast,
     server, ServerOK, Placed, Returned
<1>6. CASE Serve /\ UNCHANGED cast
  BY <1>6 DEF Serve, Ends, Closed, Unserved, Nobody, NoHandshake, Unwatched, cast,
     server, ServerOK, Placed, Returned
<1>7. CASE (HandUri /\ UNCHANGED cast) \/ (HandPlay /\ UNCHANGED cast) \/ (ServingEnds
         /\ UNCHANGED cast) \/ (ServingFails /\ UNCHANGED cast) \/ (Hears /\ UNCHANGED
         cast)
  <2>1. serve' = serve \/ serve' = Unserved
    BY <1>7, EndsOrNot DEF Ends, Closed, server
  <2>. QED
    BY <2>1 DEF Unserved, Placed
<1>8. CASE (CastLaunches /\ UNCHANGED dlna) \/ (CastLoads /\ UNCHANGED dlna) \/
         (CastEnds /\ UNCHANGED dlna) \/ (CastEndedBy /\ UNCHANGED dlna)
  BY <1>8 DEF CastLaunches, CastOver, Finishing, Closed, Unserved, Nobody, dlna,
     CastLoads, CastEnds, InCast, CastEndedBy, server, ServerOK, Placed, Returned
<1>9. CASE (StopStream /\ UNCHANGED cast) \/ (PlayerPauses /\ UNCHANGED cast) \/
         (Built /\ UNCHANGED cast) \/ (Stopped /\ UNCHANGED cast) \/ (OldTask /\
         UNCHANGED cast) \/ (Settles /\ UNCHANGED cast) \/ (HandsOverAgain /\
         UNCHANGED cast) \/ (AsksState /\ UNCHANGED cast) \/ (PassesOn /\ UNCHANGED
         cast) \/ (Tells /\ UNCHANGED cast) \/ (Renderer /\ UNCHANGED cast) \/
         (CastStarts /\ UNCHANGED dlna) \/ (CastStops /\ UNCHANGED dlna) \/ (CastBuilt
         /\ UNCHANGED dlna) \/ (CastConnects /\ UNCHANGED dlna) \/ (CastFinishes /\
         UNCHANGED dlna) \/ (AsksDelay /\ UNCHANGED dlna) \/ (HearsDelay /\ UNCHANGED
         dlna) \/ (RateAnswered /\ UNCHANGED dlna) \/ (ReceiverReports /\ UNCHANGED
         dlna)
  BY <1>9 DEF StopStream, cast, PlayerPauses, InServing, Built, Over, Emptied, Result,
     SetStatus, Stopped, Silenced, OldTask, Settles, HandsOverAgain, GivenUp,
     Abandoned, AsksState, PassesOn, Tells, Renderer, TvPlays, TvPauses, TvStops,
     TvOff, CastStarts, dlna, CastStops, CastBuilt, CastOver, CastConnects,
     CastFinishes, AsksDelay, InCast, Idle, HearsDelay, RateAnswered, ReceiverReports,
     server, ServerOK, Placed, Returned
<1>. QED
  BY <1>1, <1>2, <1>3, <1>4, <1>5, <1>6, <1>7, <1>8, <1>9
  DEF Next, DlnaTask, CastTask

LEMMA SessionTyped ==
    ASSUME ServerOK, SlotOK, SessionOK, Next
    PROVE  SessionOK'
<1>1. CASE ServesReader
  BY <1>1 DEF ServesReader, Enters, FirstClient, server, ServerOK, SlotOK, SessionOK,
     Phases, Outcomes, States
<1>2. CASE StartStream /\ UNCHANGED cast
  BY <1>2 DEF StartStream, Closed, Unserved, Nobody, NoHandshake, Unwatched, cast,
     server, ServerOK, SlotOK, SessionOK, Phases, Outcomes, States
<1>3. CASE Built /\ UNCHANGED cast
  BY <1>3 DEF Built, Over, Emptied, Result, SetStatus, cast, server, ServerOK, SlotOK,
     SessionOK, Phases, Outcomes, States
<1>4. CASE Serve /\ UNCHANGED cast
  BY <1>4 DEF Serve, Ends, Closed, Unserved, Nobody, NoHandshake, Unwatched, cast,
     server, ServerOK, SlotOK, SessionOK, Phases, Outcomes, States
<1>5. CASE Stopped /\ UNCHANGED cast
  BY <1>5 DEF Stopped, Silenced, Over, Emptied, Result, SetStatus, cast, server,
     ServerOK, SlotOK, SessionOK, Phases, Outcomes, States
<1>6. CASE OldTask /\ UNCHANGED cast
  BY <1>6, OldTaskDoes DEF SessionOK, Phases, States
<1>7. CASE (HandUri /\ UNCHANGED cast) \/ (HandPlay /\ UNCHANGED cast) \/ (ServingEnds
         /\ UNCHANGED cast) \/ (ServingFails /\ UNCHANGED cast) \/ (Hears /\ UNCHANGED
         cast)
  <2>1. kind' = kind /\ kind # "cast"
    BY <1>7 DEF HandUri, HandPlay, ServingEnds, ServingFails, Hears, InServing
  <2>2. ses' = ses \/ \E end \in Outcomes : ses' = [ses EXCEPT !.at = "stopping", !.end = end]
    BY <1>7, EndsOrNot DEF Ends
  <2>3. status' \in {status, "waitStreaming"}
    BY <1>7 DEF HandUri, HandPlay, ServingEnds, ServingFails, Hears
  <2>4. pipe' \in {pipe, "playing", "paused"}
    <3>1. CASE ~Hears
      BY <1>7, <3>1 DEF HandUri, HandPlay, ServingEnds, ServingFails
    <3>2. CASE Hears
      BY <3>2 DEF Hears, HearsPlaying, HearsPaused, HearsLoading, HearsIdle
    <3>. QED
      BY <3>1, <3>2
  <2>5. ses' \in [at : Phases, number : Nat, end : Outcomes]
    BY <2>1, <2>2 DEF SessionOK, Phases
  <2>6. Phases' = Phases
    BY <2>1 DEF Phases
  <2>. QED
    BY <2>3, <2>4, <2>5, <2>6 DEF SessionOK, States
<1>8. CASE CastStarts /\ UNCHANGED dlna
  BY <1>8 DEF CastStarts, dlna, server, ServerOK, SlotOK, SessionOK, Phases, Outcomes,
     States
<1>9. CASE CastBuilt /\ UNCHANGED dlna
  BY <1>9 DEF CastBuilt, CastOver, dlna, server, ServerOK, SlotOK, SessionOK, Phases,
     Outcomes, States
<1>10. CASE CastConnects /\ UNCHANGED dlna
  BY <1>10 DEF CastConnects, CastOver, dlna, server, ServerOK, SlotOK, SessionOK,
     Phases, Outcomes, States
<1>11. CASE CastLaunches /\ UNCHANGED dlna
  BY <1>11 DEF CastLaunches, CastOver, Finishing, Closed, Unserved, Nobody, dlna,
     server, ServerOK, SlotOK, SessionOK, Phases, Outcomes, States
<1>12. CASE CastLoads /\ UNCHANGED dlna
  BY <1>12 DEF CastLoads, Finishing, Closed, Unserved, Nobody, dlna, server, ServerOK,
     SlotOK, SessionOK, Phases, Outcomes, States
<1>13. CASE (CastEnds /\ UNCHANGED dlna) \/ (CastEndedBy /\ UNCHANGED dlna)
  BY <1>13 DEF CastEnds, InCast, Finishing, Closed, Unserved, Nobody, dlna,
     CastEndedBy, server, ServerOK, SlotOK, SessionOK, Phases, Outcomes, States
<1>14. CASE CastFinishes /\ UNCHANGED dlna
  BY <1>14 DEF CastFinishes, CastOver, dlna, server, ServerOK, SlotOK, SessionOK,
     Phases, Outcomes, States
<1>15. CASE ServerTask \/ ReaderLeaves \/ ReaderComes \/ (StopStream /\ UNCHANGED
         cast) \/ (PlayerPauses /\ UNCHANGED cast) \/ (Settles /\ UNCHANGED cast) \/
         (HandsOverAgain /\ UNCHANGED cast) \/ (AsksState /\ UNCHANGED cast) \/
         (PassesOn /\ UNCHANGED cast) \/ (Tells /\ UNCHANGED cast) \/ (Renderer /\
         UNCHANGED cast) \/ (CastStops /\ UNCHANGED dlna) \/ (AsksDelay /\ UNCHANGED
         dlna) \/ (HearsDelay /\ UNCHANGED dlna) \/ (RateAnswered /\ UNCHANGED dlna)
         \/ (ReceiverReports /\ UNCHANGED dlna)
  <2>1. ses' = ses /\ status' = status /\ kind' = kind
    BY <1>15 DEF ServerTask, ReaderLeaves, ReaderComes, StopStream, PlayerPauses, Settles,
       HandsOverAgain, AsksState, PassesOn, Tells, Renderer, TvPlays, TvPauses, TvStops,
       TvOff, CastStops, AsksDelay, HearsDelay, RateAnswered, ReceiverReports
  <2>2. pipe' \in {pipe, "playing", "paused"}
    BY <1>15 DEF ServerTask, ReaderLeaves, ReaderComes, StopStream, PlayerPauses, Settles,
       HandsOverAgain, AsksState, PassesOn, Tells, Renderer, TvPlays, TvPauses, TvStops,
       TvOff, CastStops, AsksDelay, HearsDelay, RateAnswered, ReceiverReports
  <2>. QED
    BY <2>1, <2>2 DEF SessionOK, Phases
<1>. QED
  BY <1>1, <1>2, <1>3, <1>4, <1>5, <1>6, <1>7, <1>8, <1>9, <1>10, <1>11, <1>12,
     <1>13, <1>14, <1>15
  DEF Next, DlnaTask, CastTask

(* A session is set aside from a step of a screen's.                       *)
LEMMA AsideTyped ==
    ASSUME HttpAssumption, KindOK, SessionOK, HandshakeOK, Reached,
           StartStream, ses.at \notin {"none", "over"}
    PROVE  SetAside \in OldSessions
<1>1. kind = "screen"
  <2>1. kind \in {"screen", "file"}
    BY DEF KindOK, HttpAssumption, StartStream
  <2>2. ses.number = 0 => ses.at = "none"
    BY <2>1 DEF Reached
  <2>3. kind = "file" => ses.number < 1
    BY <2>1 DEF StartStream
  <2>4. ses.number \in Nat
    BY DEF SessionOK
  <2>. QED
    BY <2>1, <2>2, <2>3, <2>4
<1>2. ses.at \in {"building", "picture", "serving", "stopping"}
  BY <1>1 DEF SessionOK, Phases, Reached
<1>3. ses.number \in Nat /\ ses.end \in {"ok", "failed"}
  BY DEF SessionOK, Outcomes
<1>4. hs.step \in {"none", "uri", "play", "done"}
  BY DEF HandshakeOK, Handshakes
<1>5. (IF serve.served THEN "shown" ELSE IF serve.at = "hand" THEN "admitted" ELSE "none")
          \in Readers
  BY DEF Readers
<1>. QED
  BY <1>2, <1>3, <1>4, <1>5 DEF SetAside, OldSessions

LEMMA SlotTyped ==
    ASSUME HttpAssumption, KindOK, SessionOK, HandshakeOK, Reached, SlotOK, Next
    PROVE  SlotOK'
<1>1. CASE StartStream /\ UNCHANGED cast
  <2>1. slot' = ses.number + 1 /\ ses.number \in Nat
    BY <1>1 DEF StartStream, SessionOK
  <2>2. old' = old \/ (ses.at \notin {"none", "over"} /\ old' = old \cup {SetAside})
    BY <1>1 DEF StartStream
  <2>. QED
    BY <1>1, <2>1, <2>2, AsideTyped DEF SlotOK
<1>2. CASE (Built /\ UNCHANGED cast) \/ (Stopped /\ UNCHANGED cast)
  BY <1>2 DEF Built, Over, Emptied, Result, SetStatus, cast, Stopped, Silenced,
     server, SessionOK, SlotOK, Outcomes
<1>3. CASE OldTask /\ UNCHANGED cast
  BY <1>3, OldTaskDoes DEF SlotOK, Emptied
<1>4. CASE ServerTask \/ ServesReader \/ ReaderLeaves \/ ReaderComes \/ (StopStream /\
         UNCHANGED cast) \/ (PlayerPauses /\ UNCHANGED cast) \/ (Serve /\ UNCHANGED
         cast) \/ (HandUri /\ UNCHANGED cast) \/ (HandPlay /\ UNCHANGED cast) \/
         (Settles /\ UNCHANGED cast) \/ (HandsOverAgain /\ UNCHANGED cast) \/
         (ServingEnds /\ UNCHANGED cast) \/ (ServingFails /\ UNCHANGED cast) \/
         (AsksState /\ UNCHANGED cast) \/ (Hears /\ UNCHANGED cast) \/ (PassesOn /\
         UNCHANGED cast) \/ (Tells /\ UNCHANGED cast) \/ (Renderer /\ UNCHANGED cast)
         \/ (CastStarts /\ UNCHANGED dlna) \/ (CastStops /\ UNCHANGED dlna) \/
         (CastBuilt /\ UNCHANGED dlna) \/ (CastConnects /\ UNCHANGED dlna) \/
         (CastLaunches /\ UNCHANGED dlna) \/ (CastLoads /\ UNCHANGED dlna) \/
         (CastEnds /\ UNCHANGED dlna) \/ (CastEndedBy /\ UNCHANGED dlna) \/
         (CastFinishes /\ UNCHANGED dlna) \/ (AsksDelay /\ UNCHANGED dlna) \/
         (HearsDelay /\ UNCHANGED dlna) \/ (RateAnswered /\ UNCHANGED dlna) \/
         (ReceiverReports /\ UNCHANGED dlna)
  BY <1>4 DEF ServerTask, Accepts, Refuses, Hands, ServeReturns, ServesReader, Enters,
     FirstClient, ReaderLeaves, Leaves, ReaderComes, Fetches, StopStream, cast,
     PlayerPauses, InServing, Serve, Ends, Closed, Unserved, Nobody, NoHandshake,
     Unwatched, HandUri, HandPlay, Settles, HandsOverAgain, GivenUp, Abandoned,
     ServingEnds, ServingFails, AsksState, Hears, HearsPlaying, HearsPaused,
     HearsLoading, HearsIdle, Heard, IdlePolls, PassesOn, Tells, Renderer, TvPlays,
     TvPauses, TvStops, TvOff, CastStarts, dlna, CastStops, CastBuilt, CastOver,
     CastConnects, CastLaunches, Finishing, CastLoads, CastEnds, InCast, CastEndedBy,
     CastFinishes, AsksDelay, Idle, HearsDelay, RateAnswered, ReceiverReports, server,
     SessionOK, SlotOK, Outcomes
<1>. QED
  BY <1>1, <1>2, <1>3, <1>4
  DEF Next, DlnaTask, CastTask

LEMMA HandshakeTyped ==
    ASSUME KindOK, SessionOK, HandshakeOK, Next
    PROVE  HandshakeOK'
<1>1. CASE StartStream /\ UNCHANGED cast
  <2>1. hs' = NoHandshake /\ NoHandshake' = NoHandshake
    BY <1>1 DEF StartStream, NoHandshake
  <2>. QED
    BY <2>1, BlankTyped DEF HandshakeOK
<1>2. CASE Built /\ UNCHANGED cast
  BY <1>2 DEF Built, Over, Emptied, Result, SetStatus, cast, server, SessionOK,
     Phases, HandshakeOK
<1>3. CASE Stopped /\ UNCHANGED cast
  BY <1>3 DEF Stopped, Silenced, Over, Emptied, Result, SetStatus, cast, server,
     SessionOK, Phases, HandshakeOK
<1>4. CASE Serve /\ UNCHANGED cast
  <2>1. kind' = kind /\ kind # "cast"
    BY <1>4 DEF Serve
  <2>2. \/ hs' = NoHandshake
        \/ /\ ses' = [ses EXCEPT !.at = "serving"]
           /\ hs' = [step |-> "uri", attempts |-> 1, settled |-> FALSE]
    BY <1>4 DEF Serve, Ends, NoHandshake
  <2>3. [step |-> "uri", attempts |-> 1, settled |-> FALSE] \in Handshakes
    BY DEF Handshakes
  <2>4. ses' = [ses EXCEPT !.at = "serving"] => ses'.at = "serving"
    BY DEF SessionOK
  <2>. QED
    BY <2>1, <2>2, <2>3, <2>4, BlankTyped DEF HandshakeOK
<1>5. CASE (HandUri /\ UNCHANGED cast) \/ (HandPlay /\ UNCHANGED cast) \/ (ServingEnds
         /\ UNCHANGED cast) \/ (ServingFails /\ UNCHANGED cast) \/ (Hears /\ UNCHANGED
         cast)
  <2>1. \/ hs' = NoHandshake
        \/ \E step \in {"play", "done"} : hs' = [hs EXCEPT !.step = step] /\ ses' = ses
        \/ hs' = hs /\ ses' = ses
    BY <1>5 DEF HandUri, HandPlay, ServingEnds, ServingFails, Hears, HearsPlaying, HearsPaused,
       HearsLoading, HearsIdle, Ends
  <2>2. InServing /\ kind' = kind
    BY <1>5, EndsOrNot DEF HandUri, HandPlay, ServingEnds, ServingFails, Hears
  <2>. QED
    BY <2>1, <2>2, BlankTyped DEF HandshakeOK, Handshakes, InServing
<1>6. CASE (Settles /\ UNCHANGED cast) \/ (HandsOverAgain /\ UNCHANGED cast)
  <2>1. InServing /\ ses' = ses /\ kind' = kind
    BY <1>6 DEF Settles, HandsOverAgain
  <2>2. \/ hs' = [hs EXCEPT !.settled = TRUE]
        \/ hs' = [hs EXCEPT !.step = "uri", !.attempts = @ + 1]
    BY <1>6 DEF Settles, HandsOverAgain
  <2>3. hs \in Handshakes /\ hs.attempts + 1 \in Nat
    BY DEF HandshakeOK, Handshakes
  <2>4. ASSUME NEW n \in Nat
        PROVE  [hs EXCEPT !.step = "uri", !.attempts = n] \in Handshakes
    BY <2>3 DEF Handshakes
  <2>5. [hs EXCEPT !.settled = TRUE] \in Handshakes
    BY <2>3 DEF Handshakes
  <2>. QED
    BY <2>1, <2>2, <2>3, <2>4, <2>5 DEF InServing, HandshakeOK
<1>7. CASE (CastStarts /\ UNCHANGED dlna) \/ (CastBuilt /\ UNCHANGED dlna)
  BY <1>7 DEF CastStarts, dlna, CastBuilt, CastOver, server, SessionOK, Phases,
     HandshakeOK
<1>8. CASE (CastConnects /\ UNCHANGED dlna) \/ (CastLaunches /\ UNCHANGED dlna)
  BY <1>8 DEF CastConnects, CastOver, dlna, CastLaunches, Finishing, Closed, Unserved,
     Nobody, server, SessionOK, Phases, HandshakeOK
<1>9. CASE CastLoads /\ UNCHANGED dlna
  BY <1>9 DEF CastLoads, Finishing, Closed, Unserved, Nobody, dlna, server, SessionOK,
     Phases, HandshakeOK
<1>10. CASE (CastEnds /\ UNCHANGED dlna) \/ (CastEndedBy /\ UNCHANGED dlna) \/
         (CastFinishes /\ UNCHANGED dlna)
  BY <1>10 DEF CastEnds, InCast, Finishing, Closed, Unserved, Nobody, dlna,
     CastEndedBy, CastFinishes, CastOver, server, SessionOK, Phases, HandshakeOK
<1>11. CASE ServerTask \/ ServesReader \/ ReaderLeaves \/ ReaderComes \/ (StopStream
         /\ UNCHANGED cast) \/ (PlayerPauses /\ UNCHANGED cast) \/ (OldTask /\
         UNCHANGED cast) \/ (AsksState /\ UNCHANGED cast) \/ (PassesOn /\ UNCHANGED
         cast) \/ (Tells /\ UNCHANGED cast) \/ (Renderer /\ UNCHANGED cast) \/
         (CastStops /\ UNCHANGED dlna) \/ (AsksDelay /\ UNCHANGED dlna) \/ (HearsDelay
         /\ UNCHANGED dlna) \/ (RateAnswered /\ UNCHANGED dlna) \/ (ReceiverReports /\
         UNCHANGED dlna)
  BY <1>11 DEF ServerTask, Accepts, Refuses, Hands, ServeReturns, ServesReader,
     Enters, FirstClient, ReaderLeaves, Leaves, ReaderComes, Fetches, StopStream,
     cast, PlayerPauses, InServing, OldTask, Silenced, Emptied, Result, SetStatus,
     AsksState, PassesOn, Tells, Renderer, TvPlays, TvPauses, TvStops, TvOff,
     CastStops, dlna, AsksDelay, InCast, Idle, HearsDelay, RateAnswered,
     ReceiverReports, server, SessionOK, Phases, HandshakeOK
<1>. QED
  BY <1>1, <1>2, <1>3, <1>4, <1>5, <1>6, <1>7, <1>8, <1>9, <1>10, <1>11
  DEF Next, DlnaTask, CastTask

LEMMA WatchTyped ==
    ASSUME HttpAssumption, SlotOK, WatchOK, Next
    PROVE  WatchOK'
<1>1. CASE StartStream /\ UNCHANGED cast
  BY <1>1, BlankTyped DEF StartStream, WatchOK
<1>2. CASE Serve /\ UNCHANGED cast
  BY <1>2, BlankTyped DEF Serve, Ends, WatchOK
<1>3. CASE (Stopped /\ UNCHANGED cast) \/ (OldTask /\ UNCHANGED cast)
  <2>1. watch' = watch /\ tv' \in {tv, "idle", "transitioning"}
    BY <1>3, OldTaskDoes DEF Stopped, Silenced
  <2>. QED
    BY <2>1 DEF WatchOK, Transport
<1>4. CASE HandUri /\ UNCHANGED cast
  BY <1>4, BlankTyped DEF HandUri, Ends, WatchOK, Transport
<1>5. CASE HandPlay /\ UNCHANGED cast
  BY <1>5, BlankTyped DEF HandPlay, Ends, WatchOK, Transport
<1>6. CASE (ServingEnds /\ UNCHANGED cast) \/ (ServingFails /\ UNCHANGED cast)
  BY <1>6, BlankTyped DEF ServingEnds, ServingFails, Ends, WatchOK
<1>7. CASE AsksState /\ UNCHANGED cast
  BY <1>7 DEF AsksState, InServing, cast, server, WatchOK, Watches, Transport
<1>8. CASE Hears /\ UNCHANGED cast
  <2>1. tv' = tv
    BY <1>8 DEF Hears
  <2>2. CASE HearsPlaying
    <3>1. watch' = [played |-> TRUE, idle |-> 0, byTv |-> FALSE,
                    here |-> watch.here /\ ~watch.byTv, poll |-> None, tell |-> watch.tell]
      BY <2>2 DEF HearsPlaying, Heard, WatchOK, Watches
    <3>. QED
      BY <2>1, <3>1 DEF WatchOK, Watches
  <2>3. CASE HearsPaused
    <3>1. \/ watch' = Heard(watch)
          \/ watch' = Heard([watch EXCEPT !.idle = 0])
          \/ watch' = Heard([watch EXCEPT !.byTv = TRUE, !.here = TRUE, !.idle = 0])
      BY <2>3 DEF HearsPaused
    <3>2. watch \in Watches /\ 0 \in 0..1
      BY DEF WatchOK
    <3>3. [watch EXCEPT !.byTv = TRUE, !.here = TRUE] \in Watches
      BY <3>2 DEF Watches
    <3>4. [[watch EXCEPT !.byTv = TRUE, !.here = TRUE] EXCEPT !.idle = 0] \in Watches
      BY <3>2, <3>3, IdleTyped
    <3>5. watch' \in Watches
      BY <3>1, <3>2, <3>4, IdleTyped, HeardTyped
    <3>. QED
      BY <2>1, <3>5 DEF WatchOK
  <2>4. CASE HearsLoading
    BY <2>1, <2>4 DEF HearsLoading, Heard, WatchOK, Watches
  <2>5. CASE HearsIdle
    <3>1. CASE watch.idle + 1 = IdlePolls
      BY <2>1, <2>5, <3>1, BlankTyped DEF HearsIdle, Ends, WatchOK
    <3>2. CASE watch.idle + 1 # IdlePolls
      <4>1. watch \in Watches
        BY DEF WatchOK
      <4>2. watch.idle + 1 = 1
        BY <3>2, <4>1 DEF IdlePolls, Watches
      <4>3. watch' = Heard([watch EXCEPT !.idle = 1])
        BY <2>5, <3>2, <4>2 DEF HearsIdle
      <4>4. 1 \in 0..1
        OBVIOUS
      <4>. QED
        BY <2>1, <4>1, <4>3, <4>4, IdleTyped, HeardTyped DEF WatchOK
    <3>. QED
      BY <3>1, <3>2
  <2>. QED
    BY <1>8, <2>2, <2>3, <2>4, <2>5 DEF Hears
<1>9. CASE PassesOn /\ UNCHANGED cast
  BY <1>9 DEF PassesOn, InServing, cast, server, WatchOK, Watches, Transport
<1>10. CASE Tells /\ UNCHANGED cast
  BY <1>10 DEF Tells, InServing, cast, server, WatchOK, Watches, Transport
<1>11. CASE Renderer /\ UNCHANGED cast
  BY <1>11 DEF Renderer, TvPlays, TvPauses, TvStops, TvOff, cast, server, WatchOK,
     Watches, Transport
<1>12. CASE ServerTask \/ ServesReader \/ ReaderLeaves \/ ReaderComes \/ (StopStream
         /\ UNCHANGED cast) \/ (PlayerPauses /\ UNCHANGED cast) \/ (Built /\ UNCHANGED
         cast) \/ (Settles /\ UNCHANGED cast) \/ (HandsOverAgain /\ UNCHANGED cast) \/
         (CastStarts /\ UNCHANGED dlna) \/ (CastStops /\ UNCHANGED dlna) \/ (CastBuilt
         /\ UNCHANGED dlna) \/ (CastConnects /\ UNCHANGED dlna) \/ (CastLaunches /\
         UNCHANGED dlna) \/ (CastLoads /\ UNCHANGED dlna) \/ (CastEnds /\ UNCHANGED
         dlna) \/ (CastEndedBy /\ UNCHANGED dlna) \/ (CastFinishes /\ UNCHANGED dlna)
         \/ (AsksDelay /\ UNCHANGED dlna) \/ (HearsDelay /\ UNCHANGED dlna) \/
         (RateAnswered /\ UNCHANGED dlna) \/ (ReceiverReports /\ UNCHANGED dlna)
  BY <1>12 DEF ServerTask, Accepts, Refuses, Hands, ServeReturns, ServesReader,
     Enters, FirstClient, ReaderLeaves, Leaves, ReaderComes, Fetches, StopStream,
     cast, PlayerPauses, InServing, Built, Over, Emptied, Result, SetStatus, Settles,
     HandsOverAgain, GivenUp, Abandoned, CastStarts, dlna, CastStops, CastBuilt,
     CastOver, CastConnects, CastLaunches, Finishing, Closed, Unserved, Nobody,
     CastLoads, CastEnds, InCast, CastEndedBy, CastFinishes, AsksDelay, Idle,
     HearsDelay, RateAnswered, ReceiverReports, server, WatchOK, Watches, Transport
<1>. QED
  BY <1>1, <1>2, <1>3, <1>4, <1>5, <1>6, <1>7, <1>8, <1>9, <1>10, <1>11, <1>12
  DEF Next, DlnaTask, CastTask

-----------------------------------------------------------------------------
(* The drain of a Cast receiver's buffer. *)

DrainTypes ==
    [target : Target.min..Target.max, floor : Target.min..Target.max,
     stable : 0..TightenAfter, stalls : 0..(MaxStallProbes + 1), frozen : BOOLEAN,
     enabled : BOOLEAN, rate : {Natural, DrainRate}, samples : 0..2, stalled : BOOLEAN,
     stalledAt : 0..Target.max]
Probes == [at : {"idle", "asking", "changing"}, rate : {Natural, DrainRate}]

(* The controller is given up after its last stall probe.                  *)
Probing(d) ==
    /\ d.enabled => d.stalls <= MaxStallProbes
    /\ ~d.frozen => d.stalls < MaxStallProbes

(* Neither the target nor the floor it may sink to is one that stalled.    *)
Away(d) ==
    d.stalledAt > 0 =>
        /\ d.target = Target.max \/ d.target > d.stalledAt
        /\ d.floor = Target.max \/ d.floor > d.stalledAt

DrainOK == drain \in DrainTypes /\ Probing(drain) /\ Away(drain)
ProbeOK == probe \in Probes

LEMMA NotBelow ==
    ASSUME NEW m \in Nat, NEW n \in Nat, ~(m <= n)
    PROVE  m > n
OBVIOUS

LEMMA NeverAbove ==
    ASSUME NEW s \in 0..250, NEW t \in 35..250, t = 250 \/ s < t
    PROVE  ~(s > t)
OBVIOUS

LEMMA FurtherAway ==
    ASSUME NEW s \in Nat, NEW f \in Nat, NEW t \in Nat, f > s, t > f
    PROVE  t > s
OBVIOUS

LEMMA StallMovesUp ==
    ASSUME HttpAssumption, NEW d \in DrainTypes, Probing(d), Away(d)
    PROVE  OnStall(d) \in DrainTypes /\ Probing(OnStall(d)) /\ Away(OnStall(d))
<1>1. CASE ~d.enabled
  BY <1>1 DEF OnStall
<1>2. CASE d.enabled
  <2> DEFINE e == [target |-> Smaller(d.target + Target.step, Target.max),
                   floor |-> Smaller(d.target + Target.margin, Target.max),
                   stable |-> 0, stalls |-> d.stalls + 1,
                   frozen |-> d.frozen \/ d.stalls + 1 >= MaxStallProbes,
                   enabled |-> ~d.frozen, rate |-> d.rate, samples |-> d.samples,
                   stalled |-> d.stalled, stalledAt |-> Greater(d.stalledAt, d.target)]
  <2>1. OnStall(d) = e
    BY <1>2 DEF OnStall, DrainTypes
  <2>2. /\ d.target \in 35..250 /\ d.floor \in 35..250 /\ d.stalls \in 0..3
        /\ d.stalledAt \in 0..250 /\ d.frozen \in BOOLEAN /\ d.rate \in {Natural, DrainRate}
        /\ d.samples \in 0..2 /\ d.stalled \in BOOLEAN
    BY DEF DrainTypes, Target, MaxStallProbes
  <2>3. /\ d.stalls <= 2 /\ (~d.frozen => d.stalls < 2)
    BY <1>2 DEF Probing, MaxStallProbes
  <2>4. /\ e.target \in 35..250 /\ e.floor \in 35..250 /\ e.stalls \in 0..3
        /\ e.stalledAt \in 0..250 /\ e.stable \in 0..TightenAfter
    BY <2>2, <2>3 DEF HttpAssumption, Smaller, Greater, Target
  <2>5. e \in DrainTypes
    BY <2>2, <2>4 DEF DrainTypes, Target, MaxStallProbes
  <2>6. Probing(e)
    <3>1. e.stalls = d.stalls + 1 /\ (e.enabled <=> ~d.frozen)
          /\ (e.frozen <=> d.frozen \/ d.stalls + 1 >= 2)
      BY DEF MaxStallProbes
    <3> HIDE DEF e
    <3>. QED
      BY <2>2, <2>3, <3>1 DEF Probing, MaxStallProbes
  <2>7. Away(e)
    <3>1. d.target = 250 \/ d.stalledAt < d.target
      BY <2>2 DEF Away, Target
    <3>2. e.stalledAt = IF d.stalledAt > d.target THEN d.stalledAt ELSE d.target
      BY DEF Greater
    <3>3. /\ e.target = IF d.target + 25 < 250 THEN d.target + 25 ELSE 250
          /\ e.floor = IF d.target + 40 < 250 THEN d.target + 40 ELSE 250
      BY DEF Smaller, Target
    <3> HIDE DEF e
    <3>4. e.stalledAt = d.target
      <4>1. ~(d.stalledAt > d.target)
        BY <2>2, <3>1, NeverAbove
      <4>. QED
        BY <3>2, <4>1
    <3>5. /\ e.target = 250 \/ e.target > d.target
          /\ e.floor = 250 \/ e.floor > d.target
      BY <2>2, <3>3
    <3>6. Target.max = 250
      BY DEF Target
    <3>. QED
      BY <3>4, <3>5, <3>6 DEF Away
  <2>. QED
    BY <2>1, <2>5, <2>6, <2>7
<1>. QED
  BY <1>1, <1>2 DEF DrainTypes

LEMMA StableMovesDown ==
    ASSUME HttpAssumption, NEW d \in DrainTypes, Probing(d), Away(d)
    PROVE  OnStable(d) \in DrainTypes /\ Probing(OnStable(d)) /\ Away(OnStable(d))
<1>1. /\ d.target \in 35..250 /\ d.floor \in 35..250 /\ d.stable \in 0..TightenAfter
      /\ d.stalledAt \in 0..250
  BY DEF DrainTypes, Target
<1>2. d.target \in Nat /\ d.floor \in Nat /\ d.stalledAt \in Nat
  BY DEF DrainTypes, Target
<1>3. ASSUME NEW n \in 0..TightenAfter
      PROVE  /\ [d EXCEPT !.stable = n] \in DrainTypes
             /\ Probing([d EXCEPT !.stable = n]) /\ Away([d EXCEPT !.stable = n])
  BY DEF DrainTypes, Probing, Away
<1>4. CASE OnStable(d) = [d EXCEPT !.stable = Smaller(d.stable + 1, TightenAfter)]
  <2>1. Smaller(d.stable + 1, TightenAfter) \in 0..TightenAfter
    BY <1>1 DEF HttpAssumption, Smaller
  <2>. QED
    BY <1>3, <1>4, <2>1
<1>5. CASE d.enabled /\ d.target > d.floor /\
           OnStable(d) = [d EXCEPT !.stable = 0, !.target = Greater(@ - Target.tighten, d.floor)]
  <2> DEFINE t == Greater(d.target - Target.tighten, d.floor)
  <2>1. t \in Target.min..Target.max
    BY <1>1, <1>5 DEF Greater, Target
  <2>2. d.stalledAt > 0 => t = Target.max \/ t > d.stalledAt
    <3>1. d.stalledAt > 0 => d.floor = 250 \/ d.floor > d.stalledAt
      BY DEF Away, Target
    <3>2. t \in 35..250
      BY <2>1 DEF Target
    <3>3. t = IF d.target - 10 > d.floor THEN d.target - 10 ELSE d.floor
      BY DEF Greater, Target
    <3>4. Target.max = 250
      BY DEF Target
    <3> HIDE DEF t
    <3>5. CASE t = d.floor
      BY <3>1, <3>4, <3>5
    <3>6. CASE t = d.target - 10 /\ t > d.floor
      <4>1. t # 250 /\ d.floor # 250
        BY <1>1, <3>6
      <4>2. d.stalledAt > 0 => d.floor > d.stalledAt
        BY <3>1, <4>1
      <4>3. d.stalledAt > 0 => t > d.stalledAt
        BY <1>2, <3>6, <4>2, FurtherAway
      <4>. QED
        BY <4>3
    <3>. QED
      BY <1>1, <3>3, <3>5, <3>6
  <2> HIDE DEF t
  <2>3. 0 \in 0..TightenAfter
    BY DEF HttpAssumption
  <2>4. OnStable(d) = [[d EXCEPT !.stable = 0] EXCEPT !.target = t]
    BY <1>5 DEF t
  <2>5. ASSUME NEW c \in DrainTypes, c.stalledAt = d.stalledAt, Probing(c), Away(c)
        PROVE  /\ [c EXCEPT !.target = t] \in DrainTypes
               /\ Probing([c EXCEPT !.target = t]) /\ Away([c EXCEPT !.target = t])
    BY <2>1, <2>2, <2>5 DEF DrainTypes, Probing, Away
  <2>6. [d EXCEPT !.stable = 0].stalledAt = d.stalledAt
    BY DEF DrainTypes
  <2>. QED
    BY <1>3, <2>3, <2>4, <2>5, <2>6
<1>6. \/ OnStable(d) = d
      \/ OnStable(d) = [d EXCEPT !.stable = Smaller(d.stable + 1, TightenAfter)]
      \/ d.enabled /\ d.target > d.floor /\
         OnStable(d) = [d EXCEPT !.stable = 0, !.target = Greater(@ - Target.tighten, d.floor)]
  <2> DEFINE counted == [d EXCEPT !.stable = Smaller(@ + 1, TightenAfter)]
  <2>1. CASE ~d.enabled
    BY <2>1 DEF OnStable
  <2>2. CASE d.enabled /\ (d.frozen \/ d.stable + 1 < TightenAfter \/ d.target <= d.floor)
    BY <2>2 DEF OnStable
  <2>3. CASE d.enabled /\ ~(d.frozen \/ d.stable + 1 < TightenAfter \/ d.target <= d.floor)
    <3>1. d.target > d.floor
      <4>1. ~(d.target <= d.floor)
        BY <2>3
      <4>. QED
        BY <1>2, <4>1, NotBelow
    <3>2. OnStable(d) = [d EXCEPT !.stable = 0, !.target = Greater(@ - Target.tighten, d.floor)]
      BY <2>3 DEF OnStable
    <3>. QED
      BY <2>3, <3>1, <3>2
  <2>. QED
    BY <2>1, <2>2, <2>3
<1>7. CASE OnStable(d) = d
  BY <1>7
<1>. QED
  BY <1>4, <1>5, <1>6, <1>7

LEMMA Observing ==
    ASSUME NEW d \in DrainTypes, Probing(d), Away(d), NEW o \in Observed(d)
    PROVE  o \in DrainTypes /\ Probing(o) /\ Away(o)
<1>1. CASE o = d
  BY <1>1
<1>2. CASE o # d
  <2>1. PICK s \in BOOLEAN : o = [d EXCEPT !.samples = Smaller(@ + 1, 2), !.stalled = s]
    BY <1>2 DEF Observed
  <2>2. Smaller(d.samples + 1, 2) \in 0..2
    BY DEF DrainTypes, Smaller
  <2>3. ASSUME NEW n \in 0..2
        PROVE  /\ [d EXCEPT !.samples = n, !.stalled = s] \in DrainTypes
               /\ Probing([d EXCEPT !.samples = n, !.stalled = s])
               /\ Away([d EXCEPT !.samples = n, !.stalled = s])
    BY DEF DrainTypes, Probing, Away
  <2>. QED
    BY <2>1, <2>2, <2>3
<1>. QED
  BY <1>1, <1>2

LEMMA DrainMoves ==
    ASSUME HttpAssumption, ProbeOK, DrainOK, Next
    PROVE  DrainOK'
<1>1. CASE HearsDelay /\ UNCHANGED dlna
  <2>1. drain' = drain \/ \E o \in Observed(drain) : drain' = Moved(o)
    BY <1>1 DEF HearsDelay
  <2>. QED
    BY <2>1, Observing, StallMovesUp, StableMovesDown DEF DrainOK, Moved
<1>2. CASE RateAnswered /\ UNCHANGED dlna
  <2>1. \/ drain' = [drain EXCEPT !.rate = probe.rate]
        \/ drain' = [drain EXCEPT !.enabled = FALSE]
    BY <1>2 DEF RateAnswered
  <2>2. probe.rate \in {Natural, DrainRate}
    BY DEF ProbeOK, Probes
  <2>3. [drain EXCEPT !.rate = probe.rate] \in DrainTypes /\ [drain EXCEPT !.enabled = FALSE] \in DrainTypes
    BY <2>2 DEF DrainOK, DrainTypes
  <2>. QED
    BY <2>1, <2>3 DEF DrainOK, DrainTypes, Probing, Away
<1>3. CASE ReceiverReports /\ UNCHANGED dlna
  BY <1>3, Observing DEF ReceiverReports, DrainOK
<1>4. CASE ServerTask \/ ServesReader \/ ReaderLeaves \/ ReaderComes \/ (StartStream
         /\ UNCHANGED cast) \/ (StopStream /\ UNCHANGED cast) \/ (PlayerPauses /\
         UNCHANGED cast) \/ (Built /\ UNCHANGED cast) \/ (Serve /\ UNCHANGED cast) \/
         (Stopped /\ UNCHANGED cast) \/ (OldTask /\ UNCHANGED cast) \/ (HandUri /\
         UNCHANGED cast) \/ (HandPlay /\ UNCHANGED cast) \/ (Settles /\ UNCHANGED
         cast) \/ (HandsOverAgain /\ UNCHANGED cast) \/ (ServingEnds /\ UNCHANGED
         cast) \/ (ServingFails /\ UNCHANGED cast) \/ (AsksState /\ UNCHANGED cast) \/
         (Hears /\ UNCHANGED cast) \/ (PassesOn /\ UNCHANGED cast) \/ (Tells /\
         UNCHANGED cast) \/ (Renderer /\ UNCHANGED cast) \/ (CastStarts /\ UNCHANGED
         dlna) \/ (CastStops /\ UNCHANGED dlna) \/ (CastBuilt /\ UNCHANGED dlna) \/
         (CastConnects /\ UNCHANGED dlna) \/ (CastLaunches /\ UNCHANGED dlna) \/
         (CastLoads /\ UNCHANGED dlna) \/ (CastEnds /\ UNCHANGED dlna) \/ (CastEndedBy
         /\ UNCHANGED dlna) \/ (CastFinishes /\ UNCHANGED dlna) \/ (AsksDelay /\
         UNCHANGED dlna)
  BY <1>4 DEF ServerTask, Accepts, Refuses, Hands, ServeReturns, ServesReader, Enters,
     FirstClient, ReaderLeaves, Leaves, ReaderComes, Fetches, StartStream, Closed,
     Unserved, Nobody, NoHandshake, Unwatched, cast, StopStream, PlayerPauses,
     InServing, Built, Over, Emptied, Result, SetStatus, Serve, Ends, Stopped,
     Silenced, OldTask, HandUri, HandPlay, Settles, HandsOverAgain, GivenUp,
     Abandoned, ServingEnds, ServingFails, AsksState, Hears, HearsPlaying,
     HearsPaused, HearsLoading, HearsIdle, Heard, IdlePolls, PassesOn, Tells,
     Renderer, TvPlays, TvPauses, TvStops, TvOff, CastStarts, dlna, CastStops,
     CastBuilt, CastOver, CastConnects, CastLaunches, Finishing, CastLoads, CastEnds,
     InCast, CastEndedBy, CastFinishes, AsksDelay, Idle, server, DrainOK
<1>. QED
  BY <1>1, <1>2, <1>3, <1>4
  DEF Next, DlnaTask, CastTask

LEMMA ProbeTyped ==
    ASSUME DrainOK, ProbeOK, Next
    PROVE  ProbeOK'
<1>1. CASE HearsDelay /\ UNCHANGED dlna
  <2>1. probe' = Idle \/ \E r \in {Natural, DrainRate} : probe' = [at |-> "changing", rate |-> r]
    BY <1>1 DEF HearsDelay, Wanted
  <2>. QED
    BY <2>1 DEF Idle, ProbeOK, Probes
<1>2. CASE (RateAnswered /\ UNCHANGED dlna) \/ (AsksDelay /\ UNCHANGED dlna)
  BY <1>2 DEF RateAnswered, Idle, dlna, AsksDelay, InCast, server, ProbeOK, Probes,
     Natural, DrainRate
<1>3. CASE ServerTask \/ ServesReader \/ ReaderLeaves \/ ReaderComes \/ (StartStream
         /\ UNCHANGED cast) \/ (StopStream /\ UNCHANGED cast) \/ (PlayerPauses /\
         UNCHANGED cast) \/ (Built /\ UNCHANGED cast) \/ (Serve /\ UNCHANGED cast) \/
         (Stopped /\ UNCHANGED cast) \/ (OldTask /\ UNCHANGED cast) \/ (HandUri /\
         UNCHANGED cast) \/ (HandPlay /\ UNCHANGED cast) \/ (Settles /\ UNCHANGED
         cast) \/ (HandsOverAgain /\ UNCHANGED cast) \/ (ServingEnds /\ UNCHANGED
         cast) \/ (ServingFails /\ UNCHANGED cast) \/ (AsksState /\ UNCHANGED cast) \/
         (Hears /\ UNCHANGED cast) \/ (PassesOn /\ UNCHANGED cast) \/ (Tells /\
         UNCHANGED cast) \/ (Renderer /\ UNCHANGED cast) \/ (CastStarts /\ UNCHANGED
         dlna) \/ (CastStops /\ UNCHANGED dlna) \/ (CastBuilt /\ UNCHANGED dlna) \/
         (CastConnects /\ UNCHANGED dlna) \/ (CastLaunches /\ UNCHANGED dlna) \/
         (CastLoads /\ UNCHANGED dlna) \/ (CastEnds /\ UNCHANGED dlna) \/ (CastEndedBy
         /\ UNCHANGED dlna) \/ (CastFinishes /\ UNCHANGED dlna) \/ (ReceiverReports /\
         UNCHANGED dlna)
  BY <1>3 DEF ServerTask, Accepts, Refuses, Hands, ServeReturns, ServesReader, Enters,
     FirstClient, ReaderLeaves, Leaves, ReaderComes, Fetches, StartStream, Closed,
     Unserved, Nobody, NoHandshake, Unwatched, cast, StopStream, PlayerPauses,
     InServing, Built, Over, Emptied, Result, SetStatus, Serve, Ends, Stopped,
     Silenced, OldTask, HandUri, HandPlay, Settles, HandsOverAgain, GivenUp,
     Abandoned, ServingEnds, ServingFails, AsksState, Hears, HearsPlaying,
     HearsPaused, HearsLoading, HearsIdle, Heard, IdlePolls, PassesOn, Tells,
     Renderer, TvPlays, TvPauses, TvStops, TvOff, CastStarts, dlna, CastStops,
     CastBuilt, CastOver, CastConnects, CastLaunches, Finishing, CastLoads, CastEnds,
     InCast, CastEndedBy, CastFinishes, ReceiverReports, server, ProbeOK, Probes,
     Natural, DrainRate
<1>. QED
  BY <1>1, <1>2, <1>3
  DEF Next, DlnaTask, CastTask

-----------------------------------------------------------------------------
(* The slot of the session that runs, and what it serves. *)

(* Something is served, and shown, by a session that serves.               *)
Served == serve.at # "off" \/ serve.served => ses.at = "serving"

LEMMA ReachedStays ==
    ASSUME HttpAssumption, KindOK, SessionOK, SlotOK, Reached, Next
    PROVE  Reached'
<1>1. CASE StartStream /\ UNCHANGED cast
  <2>1. ses' = [at |-> "building", number |-> ses.number + 1, end |-> "ok"]
        /\ slot' = ses.number + 1 /\ kind' = kind /\ kind # "cast"
    BY <1>1 DEF StartStream
  <2>2. old' = old \/ old' = old \cup {SetAside}
    BY <1>1 DEF StartStream
  <2>3. SetAside.number = ses.number /\ ses.number \in Nat
    BY DEF SetAside, SessionOK
  <2>4. \A o \in old : o.number < ses.number /\ o.number \in Nat
    BY <2>1 DEF Reached, SlotOK, OldSessions
  <2>5. \A o \in old' : o.number < ses'.number
    BY <2>1, <2>2, <2>3, <2>4
  <2>. QED
    BY <2>1, <2>3, <2>5 DEF Reached
<1>2. CASE StopStream /\ UNCHANGED cast
  BY <1>2 DEF StopStream, cast, server, SessionOK, Phases, SlotOK, Reached
<1>3. CASE Built /\ UNCHANGED cast
  <2>1. /\ kind' = kind /\ kind # "cast" /\ cancel' = cancel /\ old' = old
        /\ ses.at = "building"
    BY <1>3 DEF Built
  <2>2. \/ \E end \in Outcomes : ses' = [ses EXCEPT !.at = "over", !.end = end]
        \/ /\ ses' = [ses EXCEPT !.at = IF kind = "screen" THEN "picture" ELSE "ready"]
           /\ slot' = slot
    BY <1>3 DEF Built, Over, Outcomes
  <2>3. /\ ses'.number = ses.number
        /\ \/ ses'.at = "over"
           \/ ses'.at = "picture" /\ slot' = slot
           \/ ses'.at = "ready" /\ kind # "screen" /\ slot' = slot
    BY <2>2 DEF SessionOK
  <2>4. kind # "screen" => kind = "file"
    BY <2>1, HttpAssumption DEF KindOK
  <2>. QED
    BY <2>1, <2>3, <2>4 DEF Reached
<1>4. CASE Serve /\ UNCHANGED cast
  BY <1>4 DEF Serve, Ends, Closed, Unserved, Nobody, NoHandshake, Unwatched, cast,
     server, SessionOK, Phases, SlotOK, Reached
<1>5. CASE Stopped /\ UNCHANGED cast
  BY <1>5 DEF Stopped, Silenced, Over, Emptied, Result, SetStatus, cast, server,
     SessionOK, Phases, SlotOK, Reached
<1>6. CASE OldTask /\ UNCHANGED cast
  <2>1. /\ UNCHANGED <<cancel, kind, ses>>
        /\ \A p \in old' : \E o \in old : p.number = o.number
        /\ slot' = slot \/ \E o \in old : slot' = Emptied(o.number)
    BY <1>6, OldTaskDoes
  <2>2. ASSUME kind # "cast", slot = ses.number
        PROVE  slot' = slot
    <3>1. ASSUME NEW o \in old PROVE slot # o.number
      <4>1. o.number < ses.number /\ o.number \in Nat /\ ses.number \in Nat
        BY <2>2 DEF Reached, SlotOK, OldSessions, SessionOK
      <4>. QED
        BY <2>2, <4>1
    <3>. QED
      BY <2>1, <3>1 DEF Emptied
  <2>. QED
    BY <2>1, <2>2 DEF Reached
<1>7. CASE (HandUri /\ UNCHANGED cast) \/ (HandPlay /\ UNCHANGED cast) \/ (ServingEnds
         /\ UNCHANGED cast) \/ (ServingFails /\ UNCHANGED cast) \/ (Hears /\ UNCHANGED
         cast)
  <2>1. /\ kind' = kind /\ cancel' = cancel /\ slot' = slot /\ old' = old
    BY <1>7 DEF HandUri, HandPlay, ServingEnds, ServingFails, Hears
  <2>2. ses' = ses \/ \E end \in Outcomes : ses' = [ses EXCEPT !.at = "stopping", !.end = end]
    BY <1>7, EndsOrNot DEF Ends
  <2>3. ses' = ses \/ (ses'.at = "stopping" /\ ses'.number = ses.number)
    BY <2>2 DEF SessionOK
  <2>4. kind # "cast" /\ ses.at = "serving"
    BY <1>7, EndsOrNot DEF InServing
  <2>. QED
    BY <2>1, <2>3, <2>4 DEF Reached
<1>8. CASE (CastStarts /\ UNCHANGED dlna) \/ (CastStops /\ UNCHANGED dlna) \/
         (CastBuilt /\ UNCHANGED dlna)
  BY <1>8 DEF CastStarts, dlna, CastStops, CastBuilt, CastOver, server, SessionOK,
     Phases, SlotOK, Reached
<1>9. CASE CastConnects /\ UNCHANGED dlna
  BY <1>9 DEF CastConnects, CastOver, dlna, server, SessionOK, Phases, SlotOK, Reached
<1>10. CASE CastLaunches /\ UNCHANGED dlna
  BY <1>10 DEF CastLaunches, CastOver, Finishing, Closed, Unserved, Nobody, dlna,
     server, SessionOK, Phases, SlotOK, Reached
<1>11. CASE CastLoads /\ UNCHANGED dlna
  BY <1>11 DEF CastLoads, Finishing, Closed, Unserved, Nobody, dlna, server,
     SessionOK, Phases, SlotOK, Reached
<1>12. CASE (CastEnds /\ UNCHANGED dlna) \/ (CastEndedBy /\ UNCHANGED dlna) \/
         (CastFinishes /\ UNCHANGED dlna)
  BY <1>12 DEF CastEnds, InCast, Finishing, Closed, Unserved, Nobody, dlna,
     CastEndedBy, CastFinishes, CastOver, server, SessionOK, Phases, SlotOK, Reached
<1>13. CASE ServerTask \/ ServesReader \/ ReaderLeaves \/ ReaderComes \/ (PlayerPauses
         /\ UNCHANGED cast) \/ (Settles /\ UNCHANGED cast) \/ (HandsOverAgain /\
         UNCHANGED cast) \/ (AsksState /\ UNCHANGED cast) \/ (PassesOn /\ UNCHANGED
         cast) \/ (Tells /\ UNCHANGED cast) \/ (Renderer /\ UNCHANGED cast) \/
         (AsksDelay /\ UNCHANGED dlna) \/ (HearsDelay /\ UNCHANGED dlna) \/
         (RateAnswered /\ UNCHANGED dlna) \/ (ReceiverReports /\ UNCHANGED dlna)
  BY <1>13 DEF ServerTask, Accepts, Refuses, Hands, ServeReturns, ServesReader,
     Enters, FirstClient, ReaderLeaves, Leaves, ReaderComes, Fetches, PlayerPauses,
     InServing, cast, Settles, HandsOverAgain, GivenUp, Abandoned, AsksState,
     PassesOn, Tells, Renderer, TvPlays, TvPauses, TvStops, TvOff, AsksDelay, InCast,
     Idle, dlna, HearsDelay, RateAnswered, ReceiverReports, server, SessionOK, Phases,
     SlotOK, Reached
<1>. QED
  BY <1>1, <1>2, <1>3, <1>4, <1>5, <1>6, <1>7, <1>8, <1>9, <1>10, <1>11, <1>12, <1>13
  DEF Next, DlnaTask, CastTask

LEMMA EndsServed ==
    ASSUME SessionOK, HandUri \/ HandPlay \/ ServingEnds \/ ServingFails \/ Hears
    PROVE  \/ serve' = serve /\ ses' = ses
           \/ serve'.at = "off" /\ ~serve'.served /\ ses'.at = "stopping"
<1>1. CASE server' = server /\ ses' = ses
  BY <1>1 DEF server
<1>2. ASSUME NEW end \in Outcomes, Ends(end)
      PROVE  serve'.at = "off" /\ ~serve'.served /\ ses'.at = "stopping"
  BY <1>2 DEF Ends, Closed, Unserved, SessionOK
<1>. QED
  BY <1>1, <1>2, EndsOrNot

LEMMA ServedStays ==
    ASSUME SessionOK, ServerOK, Served, Next
    PROVE  Served'
<1>1. CASE ServerTask
  BY <1>1 DEF ServerTask, Accepts, Refuses, Hands, ServeReturns, server, SessionOK,
     ServerOK, Phases, Served
<1>2. CASE ServesReader
  BY <1>2 DEF ServesReader, Enters, FirstClient, server, SessionOK, ServerOK, Phases,
     Served
<1>3. CASE ReaderLeaves
  BY <1>3 DEF ReaderLeaves, Leaves, server, SessionOK, ServerOK, Phases, Served
<1>4. CASE ReaderComes
  BY <1>4 DEF ReaderComes, Fetches, server, SessionOK, ServerOK, Phases, Served
<1>5. CASE StartStream /\ UNCHANGED cast
  BY <1>5 DEF StartStream, Closed, Unserved, Nobody, NoHandshake, Unwatched, cast,
     server, SessionOK, ServerOK, Phases, Served
<1>6. CASE Built /\ UNCHANGED cast
  BY <1>6 DEF Built, Over, Emptied, Result, SetStatus, cast, server, SessionOK,
     ServerOK, Phases, Served
<1>7. CASE Serve /\ UNCHANGED cast
  BY <1>7 DEF Serve, Ends, Closed, Unserved, Nobody, NoHandshake, Unwatched, cast,
     server, SessionOK, ServerOK, Phases, Served
<1>8. CASE Stopped /\ UNCHANGED cast
  BY <1>8 DEF Stopped, Silenced, Over, Emptied, Result, SetStatus, cast, server,
     SessionOK, ServerOK, Phases, Served
<1>9. CASE OldTask /\ UNCHANGED cast
  BY <1>9 DEF OldTask, server, Served
<1>10. CASE (HandUri /\ UNCHANGED cast) \/ (HandPlay /\ UNCHANGED cast) \/
         (ServingEnds /\ UNCHANGED cast) \/ (ServingFails /\ UNCHANGED cast) \/ (Hears
         /\ UNCHANGED cast)
  BY <1>10, EndsServed DEF Served
<1>11. CASE CastStarts /\ UNCHANGED dlna
  BY <1>11 DEF CastStarts, dlna, server, SessionOK, ServerOK, Phases, Served
<1>12. CASE CastBuilt /\ UNCHANGED dlna
  BY <1>12 DEF CastBuilt, CastOver, dlna, server, SessionOK, ServerOK, Phases, Served
<1>13. CASE CastConnects /\ UNCHANGED dlna
  BY <1>13 DEF CastConnects, CastOver, dlna, server, SessionOK, ServerOK, Phases,
     Served
<1>14. CASE CastLaunches /\ UNCHANGED dlna
  BY <1>14 DEF CastLaunches, CastOver, Finishing, Closed, Unserved, Nobody, dlna,
     server, SessionOK, ServerOK, Phases, Served
<1>15. CASE CastLoads /\ UNCHANGED dlna
  BY <1>15 DEF CastLoads, Finishing, Closed, Unserved, Nobody, dlna, server,
     SessionOK, ServerOK, Phases, Served
<1>16. CASE (CastEnds /\ UNCHANGED dlna) \/ (CastEndedBy /\ UNCHANGED dlna)
  <2>1. serve' = Unserved /\ ses.at = "serving"
    BY <1>16 DEF CastEnds, CastEndedBy, InCast, Finishing, Closed
  <2>2. PICK end \in Outcomes : ses' = [ses EXCEPT !.at = "finishing", !.end = end]
    BY <1>16 DEF CastEnds, CastEndedBy, Finishing, Outcomes
  <2>3. ses'.at = "finishing"
    BY <2>2 DEF SessionOK
  <2>. QED
    BY <2>1, <2>3 DEF Served, Unserved
<1>17. CASE CastFinishes /\ UNCHANGED dlna
  BY <1>17 DEF CastFinishes, CastOver, dlna, server, SessionOK, ServerOK, Phases,
     Served
<1>18. CASE (StopStream /\ UNCHANGED cast) \/ (PlayerPauses /\ UNCHANGED cast) \/
         (Settles /\ UNCHANGED cast) \/ (HandsOverAgain /\ UNCHANGED cast) \/
         (AsksState /\ UNCHANGED cast) \/ (PassesOn /\ UNCHANGED cast) \/ (Tells /\
         UNCHANGED cast) \/ (Renderer /\ UNCHANGED cast) \/ (CastStops /\ UNCHANGED
         dlna) \/ (AsksDelay /\ UNCHANGED dlna) \/ (HearsDelay /\ UNCHANGED dlna) \/
         (RateAnswered /\ UNCHANGED dlna) \/ (ReceiverReports /\ UNCHANGED dlna)
  BY <1>18 DEF StopStream, cast, PlayerPauses, InServing, Settles, HandsOverAgain,
     GivenUp, Abandoned, AsksState, PassesOn, Tells, Renderer, TvPlays, TvPauses,
     TvStops, TvOff, CastStops, dlna, AsksDelay, InCast, Idle, HearsDelay,
     RateAnswered, ReceiverReports, server, SessionOK, ServerOK, Phases, Served
<1>. QED
  BY <1>1, <1>2, <1>3, <1>4, <1>5, <1>6, <1>7, <1>8, <1>9, <1>10, <1>11, <1>12,
     <1>13, <1>14, <1>15, <1>16, <1>17, <1>18
  DEF Next, DlnaTask, CastTask

-----------------------------------------------------------------------------
(* What a step may do to a hand-over and to a status that says "streaming". *)

(* The only step that counts a hand-over after the first is the watch's.   *)
LEMMA AgainOnlyWhenGivenUp ==
    ASSUME SessionOK, HandshakeOK, Next
    PROVE  hs'.attempts > hs.attempts /\ hs.attempts > 0 =>
              /\ \A c \in Sockets : conn[c] = "fed" => c \notin attendance.open
              /\ ~attendance.lasted /\ ~hs.settled
<1>1. CASE StartStream /\ UNCHANGED cast
  BY <1>1 DEF StartStream, Closed, Unserved, Nobody, NoHandshake, Unwatched, cast,
     server, SessionOK, HandshakeOK, Handshakes
<1>2. CASE Serve /\ UNCHANGED cast
  BY <1>2 DEF Serve, Ends, Closed, Unserved, Nobody, NoHandshake, Unwatched, cast,
     server, SessionOK, HandshakeOK, Handshakes
<1>3. CASE HandUri /\ UNCHANGED cast
  BY <1>3 DEF HandUri, InServing, Ends, Closed, Unserved, Nobody, NoHandshake,
     Unwatched, cast, server, SessionOK, HandshakeOK, Handshakes
<1>4. CASE HandPlay /\ UNCHANGED cast
  BY <1>4 DEF HandPlay, InServing, Ends, Closed, Unserved, Nobody, NoHandshake,
     Unwatched, cast, server, SessionOK, HandshakeOK, Handshakes
<1>5. CASE Settles /\ UNCHANGED cast
  BY <1>5 DEF Settles, InServing, cast, server, SessionOK, HandshakeOK, Handshakes
<1>6. CASE HandsOverAgain /\ UNCHANGED cast
  BY <1>6 DEF HandsOverAgain, InServing, GivenUp, Abandoned, cast, server, SessionOK,
     HandshakeOK, Handshakes
<1>7. CASE (ServingEnds /\ UNCHANGED cast) \/ (ServingFails /\ UNCHANGED cast)
  BY <1>7 DEF ServingEnds, InServing, Ends, Closed, Unserved, Nobody, NoHandshake,
     Unwatched, cast, ServingFails, server, SessionOK, HandshakeOK, Handshakes
<1>8. CASE Hears /\ UNCHANGED cast
  BY <1>8 DEF Hears, InServing, HearsPlaying, HearsPaused, HearsLoading, HearsIdle,
     Heard, IdlePolls, Ends, Closed, Unserved, Nobody, NoHandshake, Unwatched, cast,
     server, SessionOK, HandshakeOK, Handshakes
<1>9. CASE ServerTask \/ ServesReader \/ ReaderLeaves \/ ReaderComes \/ (StopStream /\
         UNCHANGED cast) \/ (PlayerPauses /\ UNCHANGED cast) \/ (Built /\ UNCHANGED
         cast) \/ (Stopped /\ UNCHANGED cast) \/ (OldTask /\ UNCHANGED cast) \/
         (AsksState /\ UNCHANGED cast) \/ (PassesOn /\ UNCHANGED cast) \/ (Tells /\
         UNCHANGED cast) \/ (Renderer /\ UNCHANGED cast) \/ (CastStarts /\ UNCHANGED
         dlna) \/ (CastStops /\ UNCHANGED dlna) \/ (CastBuilt /\ UNCHANGED dlna) \/
         (CastConnects /\ UNCHANGED dlna) \/ (CastLaunches /\ UNCHANGED dlna) \/
         (CastLoads /\ UNCHANGED dlna) \/ (CastEnds /\ UNCHANGED dlna) \/ (CastEndedBy
         /\ UNCHANGED dlna) \/ (CastFinishes /\ UNCHANGED dlna) \/ (AsksDelay /\
         UNCHANGED dlna) \/ (HearsDelay /\ UNCHANGED dlna) \/ (RateAnswered /\
         UNCHANGED dlna) \/ (ReceiverReports /\ UNCHANGED dlna)
  <2>1. hs' = hs
    BY <1>9 DEF ServerTask, Accepts, Refuses, Hands, ServeReturns, ServesReader, Enters,
       FirstClient, ReaderLeaves, Leaves, ReaderComes, Fetches, StopStream, cast,
       PlayerPauses, InServing, Built, Over, Emptied, Result, SetStatus, Stopped,
       Silenced, OldTask, AsksState, PassesOn, Tells, Renderer, TvPlays, TvPauses,
       TvStops, TvOff, CastStarts, dlna, CastStops, CastBuilt, CastOver, CastConnects,
       CastLaunches, Finishing, Closed, Unserved, Nobody, CastLoads, CastEnds, InCast,
       CastEndedBy, CastFinishes, AsksDelay, Idle, HearsDelay, RateAnswered,
       ReceiverReports, server
  <2>2. hs.attempts \in Nat
    BY DEF HandshakeOK, Handshakes
  <2>. QED
    BY <2>1, <2>2
<1>. QED
  BY <1>1, <1>2, <1>3, <1>4, <1>5, <1>6, <1>7, <1>8, <1>9
  DEF Next, DlnaTask, CastTask

(* What shows the stream says so until it is over.                         *)
LEMMA StreamsOn ==
    ASSUME SessionOK, ServerOK, SlotOK, Reached, Served, Next
    PROVE  serve.served /\ ses'.number = ses.number /\ old' = old =>
              status' = status \/ ses'.at = "over"
<1>1. CASE ServesReader
  BY <1>1 DEF ServesReader, Enters, FirstClient, server, SessionOK, ServerOK, Served,
     Phases
<1>2. CASE StartStream /\ UNCHANGED cast
  BY <1>2 DEF StartStream, Closed, Unserved, Nobody, NoHandshake, Unwatched, cast,
     server, SessionOK, ServerOK, Served, Phases
<1>3. CASE Built /\ UNCHANGED cast
  BY <1>3 DEF Built, Over, Emptied, Result, SetStatus, cast, server, SessionOK,
     ServerOK, Served, Phases
<1>4. CASE Serve /\ UNCHANGED cast
  BY <1>4 DEF Serve, Ends, Closed, Unserved, Nobody, NoHandshake, Unwatched, cast,
     server, SessionOK, ServerOK, Served, Phases
<1>5. CASE Stopped /\ UNCHANGED cast
  BY <1>5 DEF Stopped, Silenced, Over, Emptied, Result, SetStatus, cast, server,
     SessionOK, ServerOK, Served, Phases
<1>6. CASE OldTask /\ UNCHANGED cast
  BY <1>6, OldChanges
<1>7. CASE HandPlay /\ UNCHANGED cast
  BY <1>7 DEF HandPlay, InServing, Ends, Closed, Unserved, Nobody, NoHandshake,
     Unwatched, cast, server, SessionOK, ServerOK, Served, Phases
<1>8. CASE CastStarts /\ UNCHANGED dlna
  BY <1>8 DEF CastStarts, dlna, server, SessionOK, ServerOK, Served, Phases
<1>9. CASE CastBuilt /\ UNCHANGED dlna
  BY <1>9 DEF CastBuilt, CastOver, dlna, server, SessionOK, ServerOK, Served, Phases
<1>10. CASE CastConnects /\ UNCHANGED dlna
  BY <1>10 DEF CastConnects, CastOver, dlna, server, SessionOK, ServerOK, Served,
     Phases
<1>11. CASE CastLaunches /\ UNCHANGED dlna
  BY <1>11 DEF CastLaunches, CastOver, Finishing, Closed, Unserved, Nobody, dlna,
     server, SessionOK, ServerOK, Served, Phases
<1>12. CASE CastLoads /\ UNCHANGED dlna
  BY <1>12 DEF CastLoads, Finishing, Closed, Unserved, Nobody, dlna, server,
     SessionOK, ServerOK, Served, Phases
<1>13. CASE CastFinishes /\ UNCHANGED dlna
  BY <1>13 DEF CastFinishes, CastOver, dlna, server, SessionOK, ServerOK, Served,
     Phases
<1>14. CASE ServerTask \/ ReaderLeaves \/ ReaderComes \/ (StopStream /\ UNCHANGED
         cast) \/ (PlayerPauses /\ UNCHANGED cast) \/ (HandUri /\ UNCHANGED cast) \/
         (Settles /\ UNCHANGED cast) \/ (HandsOverAgain /\ UNCHANGED cast) \/
         (ServingEnds /\ UNCHANGED cast) \/ (ServingFails /\ UNCHANGED cast) \/
         (AsksState /\ UNCHANGED cast) \/ (Hears /\ UNCHANGED cast) \/ (PassesOn /\
         UNCHANGED cast) \/ (Tells /\ UNCHANGED cast) \/ (Renderer /\ UNCHANGED cast)
         \/ (CastStops /\ UNCHANGED dlna) \/ (CastEnds /\ UNCHANGED dlna) \/
         (CastEndedBy /\ UNCHANGED dlna) \/ (AsksDelay /\ UNCHANGED dlna) \/
         (HearsDelay /\ UNCHANGED dlna) \/ (RateAnswered /\ UNCHANGED dlna) \/
         (ReceiverReports /\ UNCHANGED dlna)
  BY <1>14 DEF ServerTask, Accepts, Refuses, Hands, ServeReturns, ReaderLeaves,
     Leaves, ReaderComes, Fetches, StopStream, cast, PlayerPauses, InServing, HandUri,
     Ends, Closed, Unserved, Nobody, NoHandshake, Unwatched, Settles, HandsOverAgain,
     GivenUp, Abandoned, ServingEnds, ServingFails, AsksState, Hears, HearsPlaying,
     HearsPaused, HearsLoading, HearsIdle, Heard, IdlePolls, PassesOn, Tells,
     Renderer, TvPlays, TvPauses, TvStops, TvOff, CastStops, dlna, CastEnds, InCast,
     Finishing, CastEndedBy, AsksDelay, Idle, HearsDelay, RateAnswered,
     ReceiverReports, server, SessionOK, ServerOK, Served, Phases
<1>. QED
  BY <1>1, <1>2, <1>3, <1>4, <1>5, <1>6, <1>7, <1>8, <1>9, <1>10, <1>11, <1>12, <1>13,
     <1>14
  DEF Next, DlnaTask, CastTask

-----------------------------------------------------------------------------
(* The inductive invariant. *)

HttpInv ==
    /\ KindOK /\ ServerOK /\ Placed /\ SessionOK /\ SlotOK
    /\ HandshakeOK /\ WatchOK /\ ProbeOK /\ DrainOK
    /\ Reached /\ Served

LEMMA AtFirst ==
    ASSUME HttpAssumption, HttpInit
    PROVE  HttpInv
<1>1. KindOK /\ cancel = FALSE
  BY DEF HttpInit, KindOK
<1>2. ServerOK /\ Placed
  BY DEF HttpInit, ServerInit, Unserved, Nobody, ServerOK, Placed
<1>3. SessionOK /\ SlotOK /\ HandshakeOK /\ WatchOK
  BY <1>1, BlankTyped
  DEF HttpInit, DlnaInit, SessionOK, Phases, Outcomes, States, SlotOK, HandshakeOK,
      WatchOK, Transport
<1>4. ProbeOK
  BY DEF HttpInit, CastInit, Idle, ProbeOK, Probes
<1>5. DrainOK
  <2>1. PICK on \in BOOLEAN : drain = NewDrain(on)
    BY DEF HttpInit, CastInit
  <2>2. 0 \in 0..TightenAfter
    BY DEF HttpAssumption
  <2>3. drain \in DrainTypes
    BY <2>1, <2>2 DEF NewDrain, DrainTypes, Target, MaxStallProbes
  <2>4. drain.stalls = 0 /\ drain.stalledAt = 0
    BY <2>1 DEF NewDrain
  <2>. QED
    BY <2>3, <2>4 DEF DrainOK, Probing, Away, MaxStallProbes
<1>6. Reached /\ Served
  BY DEF HttpInit, ServerInit, Unserved, DlnaInit, Reached, Served
<1>. QED
  BY <1>1, <1>2, <1>3, <1>4, <1>5, <1>6 DEF HttpInv

LEMMA InvStays ==
    ASSUME HttpAssumption, HttpInv, [Next]_all
    PROVE  HttpInv'
<1>1. CASE Next
  BY <1>1, KindTyped, ServerTyped, PlacedStays, SessionTyped, SlotTyped, HandshakeTyped,
     WatchTyped, ProbeTyped, DrainMoves, ReachedStays, ServedStays
  DEF HttpInv
<1>2. CASE UNCHANGED all
  <2>1. UNCHANGED <<serve, conn, attendance, cancel, kind, ses, status, pipe, slot, old,
                    hs, watch, tv, drain, probe>>
    BY <1>2 DEF all, server, dlna, cast
  <2>. QED
    BY <2>1
    DEF HttpInv, KindOK, ServerOK, Placed, SessionOK, Phases, SlotOK, HandshakeOK, WatchOK,
        ProbeOK, DrainOK, Probing, Away, Reached, Served
<1>. QED
  BY <1>1, <1>2

LEMMA InvHolds == ASSUME HttpAssumption PROVE Spec => []HttpInv
BY AtFirst, InvStays, PTL DEF Spec

-----------------------------------------------------------------------------

(* The variables keep their types.                                         *)
THEOREM HttpTyped == Spec => []TypeOK
<1>1. HttpInv => TypeOK
  <2> SUFFICES ASSUME HttpInv PROVE TypeOK
    OBVIOUS
  <2>1. ServerTypeOK
    BY DEF HttpInv, ServerOK, KindOK, ServerTypeOK
  <2>2. DlnaTypeOK
    <3>1. slot \in Nat /\ ses.number \in Nat /\ status \in States
          /\ pipe \in {"null", "ready", "playing", "paused"} /\ old \subseteq OldSessions
      BY DEF HttpInv, SlotOK, SessionOK
    <3>2. hs.step \in {"none", "uri", "play", "done"} /\ hs.attempts \in Nat
      BY DEF HttpInv, HandshakeOK, Handshakes
    <3>3. /\ watch.idle \in 0..IdlePolls /\ watch.poll \in Transport \cup {None}
          /\ watch.tell \in {None, "pause", "play"} /\ tv \in Transport
      BY DEF HttpInv, WatchOK, Watches, IdlePolls
    <3>. QED
      BY <3>1, <3>2, <3>3 DEF DlnaTypeOK
  <2>3. CastTypeOK
    BY DEF HttpInv, DrainOK, DrainTypes, ProbeOK, Probes, CastTypeOK
  <2>. QED
    BY <2>1, <2>2, <2>3 DEF HttpInv, KindOK, TypeOK
<1>. QED
  BY <1>1, InvHolds, HttpAssumption, PTL

(* stop_stream finds the session it is to stop, whatever a session that    *)
(* was stopped before is still finishing, and the drain stays above what   *)
(* stalled.                                                                *)
THEOREM SessionReached == Spec => []SessionIsReached
<1>1. HttpInv => SessionIsReached
  BY DEF HttpInv, Reached, DrainOK, Away, SessionIsReached, StopReachesTheSession,
     StalledTargetStaysAway
<1>. QED
  BY <1>1, InvHolds, HttpAssumption, PTL

(* The URL is handed over again only to a renderer that gave the stream    *)
(* up, and a session whose picture is shown never says again that it waits *)
(* for one (serve_until_over).                                             *)
THEOREM HandedOver == Spec => HandedOverOnce
<1>1. ASSUME HttpInv, [Next]_all
      PROVE  [hs'.attempts > hs.attempts /\ hs.attempts > 0 =>
                 /\ \A c \in Sockets : conn[c] = "fed" => c \notin attendance.open
                 /\ ~attendance.lasted /\ ~hs.settled]_all
  BY <1>1, AgainOnlyWhenGivenUp DEF HttpInv
<1>2. ASSUME HttpInv, [Next]_all
      PROVE  [serve.served /\ ses'.number = ses.number /\ old' = old =>
                 status' = status \/ ses'.at = "over"]_all
  BY <1>2, StreamsOn DEF HttpInv
<1>3. Spec => RetryOnlyWhenGivenUp
  BY <1>1, InvHolds, HttpAssumption, PTL DEF Spec, RetryOnlyWhenGivenUp
<1>4. Spec => StreamingStays
  BY <1>2, InvHolds, HttpAssumption, PTL DEF Spec, StreamingStays
<1>. QED
  BY <1>3, <1>4 DEF HandedOverOnce

-----------------------------------------------------------------------------
(* The bus: what the state is made of. *)

PadStates == {"hidden", "exposed", "flowing", "ended"}

TypesOK ==
    /\ media \in Playable
    /\ state \in {"building", "failed", "ready", "playing", "null"}
    /\ pads \in [Tracks -> PadStates]
    /\ exposed \in BOOLEAN /\ eos \in BOOLEAN /\ ended \in BOOLEAN /\ heard \in BOOLEAN
    /\ queueEnded \in BOOLEAN
    /\ remaining \in Int
    /\ events \in Seq({"end"}) /\ Len(events) <= Capacity
    /\ latency \in [asked : Nat, done : Nat] /\ walking \in SUBSET Nat
    /\ spawned \in BOOLEAN /\ busy \in BOOLEAN

(* A pad moves with the decoder: none flows before all are exposed.        *)
PadsInStep ==
    \A t \in Tracks :
        /\ t \notin media.tracks => pads[t] = "hidden"
        /\ ~exposed => pads[t] \in {"hidden", "exposed"}
        /\ exposed /\ t \in media.tracks => pads[t] \in {"flowing", "ended"}

Undone(t) == IF pads[t] \in {"exposed", "flowing"} THEN 1 ELSE 0

(* `remaining` counts the tracks of a file that have not ended.            *)
CountIsTrue == ~media.photo => remaining = Undone("audio") + Undone("video")

AllEnded == \A t \in media.tracks : pads[t] = "ended"

(* The synthetic tracks and the pipeline end after the decoded ones.       *)
EndsAfterTracks ==
    /\ state \in {"building", "ready"} => ~eos
    /\ state = "playing" /\ (eos \/ synthetic # media.synthetic) => AllEnded
    /\ queueEnded => "audio" \notin media.tracks

(* The flag is only up while a thread has yet to begin.                    *)
FlagMeansThread == busy => spawned

BusInv ==
    /\ TypesOK /\ PadsInStep /\ CountIsTrue /\ EndsAfterTracks
    /\ EndIsHeard /\ FlagMeansThread /\ LatencyNeverStale

-----------------------------------------------------------------------------
(* The channel. *)

LEMMA Told ==
    ASSUME TypesOK, SendsEvent("end")
    PROVE  /\ events' \in Seq({"end"}) /\ Len(events') <= Capacity
           /\ \E i \in DOMAIN events' : events'[i] = "end"
<1>. USE PipelineAssumption DEF TypesOK, SendsEvent
<1>1. CASE Len(events) < Capacity
  <2>1. events' = Append(events, "end")
    BY <1>1
  <2>2. /\ events' \in Seq({"end"}) /\ Len(events') = Len(events) + 1
        /\ events'[Len(events) + 1] = "end"
    BY <2>1
  <2>. QED
    BY <2>2, <1>1
<1>2. CASE ~(Len(events) < Capacity)
  <2>1. events' = events /\ Len(events) \in Nat /\ Len(events) >= 1
    BY <1>2
  <2>2. 1 \in DOMAIN events /\ events[1] = "end"
    BY <2>1
  <2>. QED
    BY <2>1, <2>2
<1>. QED
  BY <1>1, <1>2

-----------------------------------------------------------------------------
(* The initial states, and one lemma for each group of actions. *)

LEMMA InitInv == BusInit => BusInv
<1>. SUFFICES ASSUME BusInit PROVE BusInv
  OBVIOUS
<1>. USE PipelineAssumption DEF BusInit
<1>1. TypesOK
  <2>1. events \in Seq({"end"}) /\ Len(events) = 0 /\ 0 <= Capacity
    OBVIOUS
  <2>2. pads \in [Tracks -> PadStates] /\ remaining \in Int
    BY DEF PadStates
  <2>3. latency \in [asked : Nat, done : Nat] /\ walking \in SUBSET Nat
    OBVIOUS
  <2>. QED
    BY <2>1, <2>2, <2>3 DEF TypesOK
<1>2. PadsInStep /\ CountIsTrue /\ EndsAfterTracks
  BY DEF PadsInStep, CountIsTrue, Undone, EndsAfterTracks
<1>3. EndIsHeard /\ FlagMeansThread /\ LatencyNeverStale
  BY DEF EndIsHeard, FlagMeansThread, LatencyNeverStale
<1>. QED
  BY <1>1, <1>2, <1>3 DEF BusInv

(* Nothing of the file moves.                                              *)
LEMMA FileStays ==
    ASSUME PadsInStep, CountIsTrue, EndsAfterTracks, UNCHANGED <<media, fileVars, eos, state>>
    PROVE  PadsInStep' /\ CountIsTrue' /\ EndsAfterTracks'
BY DEF PadsInStep, CountIsTrue, Undone, EndsAfterTracks, AllEnded, fileVars

LEMMA BuildInv ==
    ASSUME BusInv, BuildConfigured \/ Plays \/ GuardDropped
    PROVE  BusInv'
<1>. USE DEF BusInv
<1>1. CASE BuildConfigured
  <2>1. TypesOK'
    BY <1>1 DEF BuildConfigured, TypesOK, fileVars, latencyVars
  <2>2. PadsInStep' /\ CountIsTrue' /\ EndsAfterTracks'
    BY <1>1 DEF BuildConfigured, PadsInStep, CountIsTrue, Undone, EndsAfterTracks, fileVars
  <2>3. EndIsHeard' /\ FlagMeansThread' /\ LatencyNeverStale'
    BY <1>1 DEF BuildConfigured, EndIsHeard, FlagMeansThread, LatencyNeverStale, latencyVars
  <2>. QED
    BY <2>1, <2>2, <2>3
<1>2. CASE Plays
  <2>1. TypesOK'
    BY <1>2 DEF Plays, TypesOK, fileVars, latencyVars
  <2>2. PadsInStep' /\ CountIsTrue' /\ EndsAfterTracks'
    BY <1>2 DEF Plays, PadsInStep, CountIsTrue, Undone, EndsAfterTracks
  <2>3. EndIsHeard' /\ FlagMeansThread' /\ LatencyNeverStale'
    BY <1>2 DEF Plays, EndIsHeard, FlagMeansThread, LatencyNeverStale, latencyVars
  <2>. QED
    BY <2>1, <2>2, <2>3
<1>3. CASE GuardDropped
  <2>1. TypesOK'
    BY <1>3 DEF GuardDropped, TypesOK, fileVars, latencyVars
  <2>2. PadsInStep' /\ CountIsTrue' /\ EndsAfterTracks'
    BY <1>3 DEF GuardDropped, PadsInStep, CountIsTrue, Undone, EndsAfterTracks, fileVars
  <2>3. EndIsHeard' /\ FlagMeansThread' /\ LatencyNeverStale'
    BY <1>3 DEF GuardDropped, EndIsHeard, FlagMeansThread, LatencyNeverStale, latencyVars
  <2>. QED
    BY <2>1, <2>2, <2>3
<1>. QED
  BY <1>1, <1>2, <1>3

(* A track is exposed, and counted if the file can end.                    *)
LEMMA PadAddedInv ==
    ASSUME BusInv, NEW t \in Tracks, PadAdded(t)
    PROVE  BusInv'
<1>. USE DEF BusInv, PadAdded, Decoding
<1>1. TypesOK'
  BY DEF TypesOK, PadStates, latencyVars
<1>2. PadsInStep'
  BY DEF PadsInStep, TypesOK
<1>3. CountIsTrue'
  BY PipelineAssumption DEF CountIsTrue, Undone, TypesOK
<1>4. EndsAfterTracks'
  BY DEF EndsAfterTracks, AllEnded, TypesOK
<1>5. EndIsHeard' /\ FlagMeansThread' /\ LatencyNeverStale'
  BY DEF EndIsHeard, FlagMeansThread, LatencyNeverStale, latencyVars
<1>. QED
  BY <1>1, <1>2, <1>3, <1>4, <1>5

LEMMA NoMorePadsInv ==
    ASSUME BusInv, NoMorePads
    PROVE  BusInv'
<1>. USE DEF BusInv, NoMorePads, Decoding
<1>1. TypesOK'
  BY DEF TypesOK, PadStates, latencyVars, EndsUnlinkedQueue, Playable, Media
<1>2. PadsInStep'
  BY DEF PadsInStep, TypesOK
<1>3. CountIsTrue'
  BY PipelineAssumption DEF CountIsTrue, Undone, TypesOK, PadsInStep
<1>4. EndsAfterTracks'
  <2>1. media.tracks # {} /\ media.tracks \subseteq Tracks
    BY DEF TypesOK, Playable, Media
  <2>2. ~AllEnded
    BY <2>1 DEF AllEnded
  <2>. QED
    BY <2>2 DEF EndsAfterTracks, AllEnded, TypesOK, EndsUnlinkedQueue
<1>5. EndIsHeard' /\ FlagMeansThread' /\ LatencyNeverStale'
  BY DEF EndIsHeard, FlagMeansThread, LatencyNeverStale, latencyVars
<1>. QED
  BY <1>1, <1>2, <1>3, <1>4, <1>5

(* The first end of a pad counts it out; the last pad's ends the synthetic *)
(* sources, when every track has ended.                                    *)
LEMMA PadEndsInv ==
    ASSUME BusInv, NEW t \in Tracks, PadEnds(t)
    PROVE  BusInv'
<1>. USE DEF BusInv, PadEnds, Decoding
<1>1. TypesOK'
  BY DEF TypesOK, PadStates, latencyVars, CountedOut
<1>2. PadsInStep'
  BY DEF PadsInStep, TypesOK
<1>3. CountIsTrue'
  BY PipelineAssumption DEF CountIsTrue, Undone, TypesOK, CountedOut
<1>4. EndsAfterTracks'
  <2>1. exposed /\ media.tracks \subseteq Tracks
    BY DEF PadsInStep, TypesOK, Playable, Media
  <2>2. AllEnded => AllEnded'
    BY <2>1 DEF AllEnded, TypesOK
  <2>3. synthetic' # synthetic => ~media.photo /\ remaining' = 0
    BY DEF CountedOut, TypesOK
  <2>4. synthetic' # synthetic => AllEnded'
    <3>. SUFFICES ASSUME synthetic' # synthetic, NEW u \in media.tracks
                  PROVE  pads'[u] = "ended"
      BY DEF AllEnded
    <3>1. Undone("audio")' = 0 /\ Undone("video")' = 0
      BY <1>3, <2>3 DEF CountIsTrue, Undone
    <3>2. pads'[u] \notin {"exposed", "flowing"}
      BY <3>1, <2>1, PipelineAssumption DEF Undone
    <3>3. pads'[u] \in {"flowing", "ended"}
      BY <1>2, <2>1 DEF PadsInStep
    <3>. QED
      BY <3>2, <3>3
  <2>. QED
    BY <2>2, <2>4 DEF EndsAfterTracks
<1>5. EndIsHeard' /\ FlagMeansThread' /\ LatencyNeverStale'
  BY DEF EndIsHeard, FlagMeansThread, LatencyNeverStale, latencyVars
<1>. QED
  BY <1>1, <1>2, <1>3, <1>4, <1>5

(* Both branches have ended only when every decoded track has.             *)
LEMMA BranchesEnded ==
    ASSUME BusInv, state = "playing", VideoEnded, AudioEnded
    PROVE  AllEnded
<1>. SUFFICES ASSUME NEW t \in media.tracks PROVE pads[t] = "ended"
  BY DEF AllEnded
<1>0. t \in {"audio", "video"} /\ media.tracks \subseteq Tracks
  BY PipelineAssumption DEF BusInv, TypesOK, Playable, Media
<1>1. CASE synthetic # media.synthetic
  BY <1>1 DEF BusInv, EndsAfterTracks, AllEnded
<1>2. CASE synthetic = media.synthetic /\ t = "audio"
  BY <1>2 DEF AudioEnded, BusInv, EndsAfterTracks
<1>3. CASE synthetic = media.synthetic /\ t = "video"
  BY <1>3 DEF VideoEnded
<1>. QED
  BY <1>0, <1>1, <1>2, <1>3

LEMMA EndInv ==
    ASSUME BusInv, BusEos \/ BusError
    PROVE  BusInv'
<1>. USE DEF BusInv, Decoding
<1>1. SendsEvent("end") /\ UNCHANGED <<media, state, fileVars, heard, latencyVars>> /\ ended'
  BY DEF BusEos, BusError
<1>2. /\ events' \in Seq({"end"}) /\ Len(events') <= Capacity
      /\ \E i \in DOMAIN events' : events'[i] = "end"
  BY <1>1, Told
<1>3. eos' = eos \/ (eos' = TRUE /\ BusEos)
  BY DEF BusEos, BusError
<1>4. TypesOK'
  BY <1>1, <1>2, <1>3 DEF TypesOK, fileVars, latencyVars, BusEos, BusError
<1>5. PadsInStep' /\ CountIsTrue'
  BY <1>1 DEF PadsInStep, CountIsTrue, Undone, fileVars
<1>6. EndsAfterTracks'
  <2>1. eos' # eos => AllEnded /\ state = "playing"
    BY <1>3, BranchesEnded DEF BusEos
  <2>. QED
    BY <1>1, <2>1 DEF EndsAfterTracks, AllEnded, fileVars
<1>7. EndIsHeard' /\ FlagMeansThread' /\ LatencyNeverStale'
  BY <1>1, <1>2 DEF EndIsHeard, FlagMeansThread, LatencyNeverStale, latencyVars
<1>. QED
  BY <1>4, <1>5, <1>6, <1>7

LEMMA ChannelInv ==
    ASSUME BusInv, BusWarning \/ Drains
    PROVE  BusInv'
<1>. USE DEF BusInv
<1>1. UNCHANGED <<media, state, fileVars, ended, eos, latencyVars>>
  BY DEF BusWarning, Drains
<1>2. /\ events' \in Seq({"end"}) /\ Len(events') <= Capacity /\ heard' \in BOOLEAN
      /\ EndIsHeard'
  <2>1. CASE BusWarning
    BY <2>1 DEF BusWarning, TypesOK, EndIsHeard
  <2>2. CASE Drains
    <3>1. Head(events) = "end" /\ Tail(events) \in Seq({"end"}) /\ Len(Tail(events)) <= Len(events)
      BY <2>2 DEF Drains, TypesOK
    <3>2. Len(Tail(events)) \in Nat /\ Len(events) \in Nat /\ Capacity \in Nat
      BY <3>1, PipelineAssumption DEF TypesOK
    <3>. QED
      BY <2>2, <3>1, <3>2 DEF Drains, TypesOK, EndIsHeard
  <2>. QED
    BY <2>1, <2>2
<1>3. TypesOK'
  BY <1>1, <1>2 DEF TypesOK, fileVars, latencyVars
<1>4. PadsInStep' /\ CountIsTrue' /\ EndsAfterTracks'
  BY <1>1, FileStays
<1>5. FlagMeansThread' /\ LatencyNeverStale'
  BY <1>1 DEF FlagMeansThread, LatencyNeverStale, latencyVars
<1>. QED
  BY <1>2, <1>3, <1>4, <1>5

(* A message finds a thread that has yet to begin, or starts one; a thread *)
(* that is done has seen what was asked before it began.                   *)
LEMMA LatencyInv ==
    ASSUME BusInv, BusLatency \/ ThreadBegins \/ ThreadWalked
    PROVE  BusInv'
<1>. USE DEF BusInv
<1>1. UNCHANGED <<media, state, fileVars, events, heard, ended, eos>>
  BY DEF BusLatency, ThreadBegins, ThreadWalked
<1>2. /\ latency' \in [asked : Nat, done : Nat] /\ walking' \in SUBSET Nat
      /\ spawned' \in BOOLEAN /\ busy' \in BOOLEAN
      /\ FlagMeansThread' /\ LatencyNeverStale'
  <2>1. CASE BusLatency
    <3>1. latency' \in [asked : Nat, done : Nat] /\ walking' \in SUBSET Nat
      BY <2>1 DEF BusLatency, TypesOK
    <3>2. spawned' = TRUE /\ busy' = TRUE
      BY <2>1 DEF BusLatency, TypesOK, FlagMeansThread
    <3>. QED
      BY <3>1, <3>2 DEF FlagMeansThread, LatencyNeverStale
  <2>2. CASE ThreadBegins
    <3>1. busy' = FALSE
      BY <2>2 DEF ThreadBegins, ClearsFlag
    <3>. QED
      BY <2>2, <3>1 DEF ThreadBegins, TypesOK, FlagMeansThread, LatencyNeverStale
  <2>3. CASE ThreadWalked
    <3>1. busy' = busy
      BY <2>3 DEF ThreadWalked, ClearsFlag, TypesOK
    <3>2. PICK seen \in walking :
              /\ walking' = walking \ {seen}
              /\ latency' = [latency EXCEPT !.done = IF seen > @ THEN seen ELSE @]
      BY <2>3 DEF ThreadWalked
    <3>3. seen \in Nat /\ latency.asked \in Nat /\ latency.done \in Nat
      BY DEF TypesOK
    <3>4. /\ latency'.asked = latency.asked /\ latency'.done \in Nat
          /\ latency'.done >= seen /\ latency'.done >= latency.done
      BY <3>2, <3>3 DEF TypesOK
    <3>5. LatencyNeverStale'
      BY <2>3, <3>2, <3>3, <3>4 DEF LatencyNeverStale, ThreadWalked
    <3>. QED
      BY <2>3, <3>1, <3>2, <3>3, <3>5 DEF ThreadWalked, TypesOK, FlagMeansThread
  <2>. QED
    BY <2>1, <2>2, <2>3
<1>3. TypesOK'
  BY <1>1, <1>2 DEF TypesOK, fileVars
<1>4. PadsInStep' /\ CountIsTrue' /\ EndsAfterTracks'
  BY <1>1, FileStays
<1>5. EndIsHeard'
  BY <1>1 DEF EndIsHeard
<1>. QED
  BY <1>2, <1>3, <1>4, <1>5

-----------------------------------------------------------------------------
(* The theorems. *)

LEMMA StepInv == BusInv /\ [BusNext]_busVars => BusInv'
<1>. SUFFICES ASSUME BusInv, [BusNext]_busVars PROVE BusInv'
  OBVIOUS
<1>1. CASE BuildConfigured \/ Plays \/ GuardDropped
  BY <1>1, BuildInv
<1>2. CASE FileNext
  BY <1>2, PadAddedInv, PadEndsInv, NoMorePadsInv, EndInv DEF FileNext
<1>3. CASE BusError
  BY <1>3, EndInv
<1>4. CASE BusWarning \/ Drains
  BY <1>4, ChannelInv
<1>5. CASE BusLatency \/ ThreadBegins \/ ThreadWalked
  BY <1>5, LatencyInv
<1>6. CASE UNCHANGED busVars
  BY <1>6 DEF busVars, latencyVars, fileVars, BusInv, TypesOK, PadsInStep, CountIsTrue,
     Undone, EndsAfterTracks, AllEnded, EndIsHeard, FlagMeansThread, LatencyNeverStale
<1>. QED
  BY <1>1, <1>2, <1>3, <1>4, <1>5, <1>6 DEF BusNext

LEMMA InvMeans == BusInv => BusIsHeeded
<1>1. BusInv => NothingCutShort
  BY DEF BusInv, EndsAfterTracks, AllEnded, NothingCutShort
<1>. QED
  BY <1>1 DEF BusInv, BusIsHeeded

(* The inductive invariant: types, pads that move with the decoder, a true *)
(* count of the tracks still to end, and what the bus owes the session.    *)
THEOREM BusInvariant == BusSpec => []BusInv
<1>. QED
  BY InitInv, StepInv, PTL DEF BusSpec

(* The session hears the end whatever came before it, no decoded track is  *)
(* cut short, and no latency message is lost (pipeline/mod.rs).            *)
THEOREM BusHeeded == BusSpec => []BusIsHeeded
<1>. QED
  BY BusInvariant, InvMeans, PTL

-----------------------------------------------------------------------------
(* Capturing a screen: what the state is made of. *)

Connectors == {Panel, Beamer, Extra}
OneSession(name) == [Absent EXCEPT !.session = name]
Both(connector) == [session |-> "monitor", second |-> TRUE, connector |-> connector]

\* What `active` can record: nothing, one session, or the screen's two.
Pairs == {Both(c) : c \in Connectors}
Recordable == {Absent, OneSession("virtual"), OneSession("monitor")} \cup Pairs

\* An arrangement is one of those the user has made, or Mutter's default.
Arrangements ==
    /\ desk \in Nat /\ chosen \in Nat /\ asked \in Nat
    /\ desk <= chosen /\ asked <= chosen

Kept(snapshot) == snapshot = Missing \/ (snapshot \in Snapshot /\ snapshot.desk <= chosen)

DisplayOK ==
    /\ Panel \in outputs /\ outputs \subseteq Connectors
    /\ Arrangements
    /\ Kept(before) /\ Kept(layout)

Flags ==
    /\ fresh \in BOOLEAN /\ undoing \in BOOLEAN /\ keepAlive \in BOOLEAN
    /\ recorded \in BOOLEAN /\ orphan \in BOOLEAN /\ unanswered \in BOOLEAN
    /\ stray \in BOOLEAN
    /\ replugged \in BOOLEAN /\ unkept \in BOOLEAN /\ cutShort \in BOOLEAN

TriesBounded == tries \in Nat /\ tries <= RestoreAttempts

(* Where the cast is, and what it has recorded there.                      *)
VirtualSteps == {"snapshot", "connectors", "create", "record virtual",
                 "keep alive", "wait", "arrange", "apply"}
RecordedSteps == {"record virtual", "keep alive", "wait", "arrange", "apply"}
MonitorSteps == {"create monitor", "record monitor"}
PortalSteps == {"kwin", "kwin opened", "create portal", "select", "start", "remote"}
TakenSteps == {"recapture", "stop session", "stop keep alive", "stop virtual",
               "restore", "reapply"}

StepsInOrder ==
    /\ at \in {"idle", "refuse", "streaming"} \cup OpenSteps \cup CloseSteps
    /\ at \in VirtualSteps => backend = "mutter" /\ source = "virtual"
    /\ at \in MonitorSteps \cup {"primary"} => backend = "mutter"
    /\ at = "primary" => source = "monitor"
    /\ at \in PortalSteps => backend # "mutter"
    /\ at \in {"arrange", "apply"} => before # Missing
    /\ at \in {"restore", "reapply"} => layout # Missing

(* Nobody lays out the screen the portal made on GNOME.                    *)
PortalUnlaid ==
    /\ at \in {"kwin", "kwin opened"} => backend = "kwin"
    /\ at \in {"remote", "streaming"} /\ PortalScreen => unkept

RecordInStep ==
    /\ active \in Recordable /\ taken \in Recordable
    /\ at \in RecordedSteps => active = OneSession("virtual")
    /\ at \in MonitorSteps =>
          active = IF source = "virtual" THEN OneSession("virtual") ELSE Absent
    /\ at = "streaming" /\ backend = "mutter" =>
          active \in IF source = "virtual" THEN Pairs ELSE {OneSession("monitor")}
    /\ active # Absent => at \in RecordedSteps \cup MonitorSteps \cup {"streaming", "take"}
                          /\ backend = "mutter"
    /\ at \in TakenSteps => taken # Absent
    /\ taken # Absent => at \in TakenSteps \cup {"stopped"}

(* The virtual screen is held while it is opened and while it streams.     *)
ScreenHeld ==
    /\ keepAlive => \/ active # Absent
                    \/ at \in {"recapture", "stop session", "stop keep alive"}
    /\ at \in {"record virtual", "keep alive"} => "virtual" \in sessions /\ ~keepAlive
    /\ at \in {"wait", "arrange", "apply"} => KeptAlive
    /\ at \in MonitorSteps /\ source = "virtual" => KeptAlive
    /\ active \in Pairs => KeptAlive
    /\ taken \in Pairs /\ at \in {"recapture", "stop session"} => KeptAlive
    /\ taken \in Pairs /\ at \notin {"recapture", "stop session"} => "monitor" \notin sessions
    /\ active = Both(Extra) => Extra \in outputs
    /\ taken = Both(Extra) /\ at \in {"recapture", "stop session"} => Extra \in outputs

(* Whoever has a session open still has it to close.                       *)
SessionsOwned ==
    /\ sessions \subseteq {"virtual", "monitor", "kwin", "portal"}
    /\ orphan => at \in CloseSteps \cup {"idle"} /\ ~undoing
    /\ "kwin" \in sessions => orphan \/ recorded \/ at = "kwin opened"
    /\ "portal" \in sessions => unanswered \/ recorded
    /\ at = "idle" => ~recorded /\ sessions \cap OnConnection = {}

(* The connector found is the extra screen's where no monitor came or went *)
(* and Mutter told the connectors.                                         *)
AllKnown == known = outputs \ {Extra}

ScreenFound ==
    /\ at \in {"snapshot", "connectors", "create", "record virtual", "keep alive"} =>
          Extra \notin outputs
    /\ ~replugged /\ ~unkept =>
          /\ at \in {"create", "record virtual", "keep alive", "wait"} => AllKnown
          /\ at \in {"arrange", "apply"} => found = Extra
          /\ at \in MonitorSteps /\ source = "virtual" => found = Extra
          /\ active \in Pairs => active = Both(Extra)
          /\ taken \in Pairs => taken = Both(Extra)

(* What the cast owes the user, where its history lets it.                 *)
Clean == ~replugged /\ ~unkept /\ ~cutShort

\* The arrangement the cast was begun under, or one the user made since.
TheirOwn == desk >= asked

Owes(snapshot) ==
    snapshot # Missing => snapshot.desk >= asked /\ snapshot.monitors = outputs \ {Extra}

LayoutOwed == Owes(layout)
BeforeOwed == Owes(before)

\* The desktop is the user's own and nothing is about to change it.
Calm == Extra \notin outputs /\ ~keepAlive /\ TheirOwn

\* The snapshot in hand is of the user's own monitors.
LayoutFits == layout # Missing /\ layout.monitors = outputs \ {Extra}

\* The extra screen is beside the user's own.
Beside == Extra \in outputs /\ TheirOwn /\ LayoutFits

\* The desktop is as it was, or the snapshot to restore is in hand.
InHand == LayoutOwed /\ (Calm \/ layout # Missing)

CalmSteps == {"idle", "snapshot", "connectors", "create", "record virtual",
              "primary", "refuse", "kwin", "kwin opened", "create portal", "select",
              "start", "remote", "stopped"}

OpeningOwed ==
    /\ at \in CalmSteps \cup {"keep alive"} => Calm
    /\ at \in {"snapshot", "connectors", "create", "record virtual", "primary"} =>
          layout = Missing
    /\ at \in {"connectors", "create", "record virtual", "keep alive", "wait",
               "arrange", "apply"} => before # Missing /\ BeforeOwed
    /\ at \in {"keep alive", "wait", "arrange", "apply"} => layout # Missing /\ LayoutOwed

StreamOwed ==
    /\ at \in MonitorSteps /\ source = "virtual" =>
          Beside /\ LayoutOwed
    /\ at \in MonitorSteps /\ source # "virtual" => Calm /\ layout = Missing
    /\ at = "streaming" /\ backend = "mutter" /\ source # "virtual" => layout = Missing
    /\ at = "streaming" => IF active \in Pairs THEN Beside ELSE Calm

CloseOwed ==
    /\ at = "take" =>
          IF active = Absent THEN Calm
          ELSE IF active \in Pairs THEN Beside ELSE InHand
    /\ at = "recapture" =>
          IF taken \in Pairs THEN Beside ELSE InHand
    /\ at \in {"stop session", "stop keep alive", "stop virtual"} => InHand
    /\ at \in {"stop virtual", "restore", "reapply"} => ~keepAlive
    /\ at \in {"restore", "reapply"} => LayoutOwed
    /\ at = "reapply" => Extra \notin outputs /\ (fresh \/ TheirOwn)

DeskOwed == OpeningOwed /\ StreamOwed /\ CloseOwed

CaptureInv ==
    /\ DisplayOK /\ TriesBounded /\ Flags /\ StepsInOrder /\ RecordInStep
    /\ PortalUnlaid /\ ScreenHeld /\ ScreenFound /\ SessionsOwned
    /\ Clean => DeskOwed

-----------------------------------------------------------------------------
USE DEF Connectors

(* The records tell themselves apart.                                      *)
LEMMA Records ==
    /\ OneSession("virtual") # Absent /\ OneSession("monitor") # Absent
    /\ OneSession("virtual") # OneSession("monitor")
    /\ \A c : Both(c) # Absent
              /\ Both(c) # OneSession("virtual") /\ Both(c) # OneSession("monitor")
    /\ \A c, d : Both(c) = Both(d) => c = d
    /\ Absent \notin Pairs /\ OneSession("virtual") \notin Pairs
    /\ OneSession("monitor") \notin Pairs /\ \A c \in Connectors : Both(c) \in Pairs
BY DEF Absent, OneSession, Both, Pairs

LEMMA Fields ==
    /\ Absent.connector = Missing /\ Absent.session = "none"
    /\ \A name : OneSession(name).connector = Missing /\ OneSession(name).session = name
    /\ \A c : Both(c).connector = c /\ Both(c).session = "monitor"
BY DEF Absent, OneSession, Both

LEMMA OnlyPairsConnect ==
    ASSUME NEW held \in Recordable, held \notin Pairs
    PROVE  held.connector = Missing
BY Fields DEF Recordable

(* The actions in groups, as the proofs take them.                         *)
Stop == Takes \/ MutterStop \/ BackendStopped
Portal == KWinOpens \/ KWinAnswers \/ OrphanOpens \/ OrphanEnds \/ CreatesPortal
          \/ SelectsSources \/ StartsPortal \/ OpensRemote
Monitor == NamesPrimary \/ CreatesMonitor \/ RecordsMonitor \/ RefusesWindow \/ RunEnds
Outside == MutterDisplays \/ UserPlugs \/ UserRearranges

LEMMA Groups ==
    CaptureNext => Begin \/ OpenVirtual \/ Monitor \/ Portal \/ Stop \/ Cancelled \/ Outside
BY DEF CaptureNext, Program, Stop, Portal, Monitor, Outside

(* One lemma for each part of the invariant: the arrangements are the        *)
(* user's or Mutter's own, and a snapshot is of one of them.               *)
LEMMA DisplayStep ==
    ASSUME DisplayOK, StepsInOrder, CaptureNext
    PROVE  DisplayOK'
<1>. USE MissingAssumption, ConnectorAssumption
     DEF DisplayOK, Arrangements, Kept, Snapshot, displayVars, mutterVars, portalVars, history,
         castVars, Stays, Fails, Goes, Unkept, TriesAgain, GivesUp
<1>1. CASE Begin
  BY <1>1 DEF Begin
<1>2. CASE OpenVirtual
  <2>1. CASE Snapshots
    BY <2>1 DEF Snapshots, Captured
  <2>2. CASE ListsConnectors \/ CreatesSession \/ RecordsVirtual \/ KeepsAlive \/ FindsConnector
    BY <2>2 DEF ListsConnectors, CreatesSession, RecordsVirtual, KeepsAlive, FindsConnector
  <2>3. CASE Arranges
    BY <2>3 DEF Arranges, SerialRead
  <2>4. CASE Applies
    BY <2>4 DEF Applies, Accepted, Refused, StepsInOrder
  <2>. QED
    BY <1>2, <2>1, <2>2, <2>3, <2>4 DEF OpenVirtual
<1>3. CASE Monitor
  BY <1>3 DEF Monitor, NamesPrimary, CreatesMonitor, RecordsMonitor, RefusesWindow, RunEnds
<1>4. CASE Portal
  BY <1>4 DEF Portal, KWinOpens, KWinAnswers, OrphanOpens, OrphanEnds, CreatesPortal, SelectsSources,
     StartsPortal, OpensRemote
<1>5. CASE Stop
  <2>1. CASE Takes \/ StopsSession \/ StopsKeepAlive \/ StopsVirtual \/ BackendStopped
    BY <2>1 DEF Takes, StopsSession, StopsKeepAlive, StopsVirtual, BackendStopped
  <2>2. CASE Recaptures
    <3>1. Kept(layout) /\ Kept(Without(Captured, taken.connector))
      BY DEF Without, Captured
    <3>2. \/ layout' = Without(Captured, taken.connector) /\ asked' = asked
          \/ layout' = layout /\ asked' = IF layout = Missing THEN asked ELSE layout.desk
          \/ layout' = layout /\ asked' = asked
      BY <2>2 DEF Recaptures
    <3>3. UNCHANGED <<outputs, desk, chosen, before>>
      BY <2>2 DEF Recaptures
    <3>. QED
      BY <3>1, <3>2, <3>3
  <2>3. CASE ChecksTopology
    BY <2>3 DEF ChecksTopology, SerialRead
  <2>4. CASE Reapplies
    BY <2>4 DEF Reapplies, Accepted, Refused, StepsInOrder
  <2>. QED
    BY <1>5, <2>1, <2>2, <2>3, <2>4 DEF Stop, MutterStop
<1>6. CASE Cancelled
  BY <1>6 DEF Cancelled
<1>7. CASE Outside
  BY <1>7 DEF Outside, MutterDisplays, UserPlugs, UserRearranges, ExtraAppears, ExtraGoes,
     Relaid, Hotplug, Rearranged
<1>. QED
  BY <1>1, <1>2, <1>3, <1>4, <1>5, <1>6, <1>7, Groups

(* The steps come in the order of the code.                                *)
LEMMA OrderStep ==
    ASSUME DisplayOK, StepsInOrder, CaptureNext
    PROVE  StepsInOrder'
<1>. USE DEF StepsInOrder, OpenSteps, CloseSteps, VirtualSteps, MonitorSteps, PortalSteps,
         displayVars, mutterVars, portalVars, history, castVars, Stays, Fails, Goes, Unkept, TriesAgain, GivesUp
<1>1. CASE Begin
  BY <1>1 DEF Begin, Opening, BackendFor, SourceKinds
<1>2. CASE OpenVirtual
  <2>1. CASE Snapshots
    BY <2>1, MissingAssumption DEF Snapshots, Captured, Snapshot, DisplayOK, Arrangements
  <2>2. CASE ListsConnectors \/ CreatesSession \/ RecordsVirtual \/ KeepsAlive \/ FindsConnector
    BY <2>2 DEF ListsConnectors, CreatesSession, RecordsVirtual, KeepsAlive, FindsConnector
  <2>3. CASE Arranges \/ Applies
    BY <2>3 DEF Arranges, Applies
  <2>. QED
    BY <1>2, <2>1, <2>2, <2>3 DEF OpenVirtual
<1>3. CASE Monitor
  BY <1>3 DEF Monitor, NamesPrimary, CreatesMonitor, RecordsMonitor, RefusesWindow, RunEnds
<1>4. CASE Portal
  BY <1>4 DEF Portal, KWinOpens, KWinAnswers, OrphanOpens, OrphanEnds, CreatesPortal, SelectsSources,
     StartsPortal, OpensRemote
<1>5. CASE Stop
  BY <1>5 DEF Stop, MutterStop, Takes, Recaptures, StopsSession, StopsKeepAlive, StopsVirtual,
     ChecksTopology, Reapplies, BackendStopped
<1>6. CASE Cancelled
  BY <1>6 DEF Cancelled
<1>7. CASE Outside
  BY <1>7 DEF Outside, MutterDisplays, UserPlugs, UserRearranges
<1>. QED
  BY <1>1, <1>2, <1>3, <1>4, <1>5, <1>6, <1>7, Groups

LEMMA UnlaidStep ==
    ASSUME StepsInOrder, Flags, PortalUnlaid, CaptureNext
    PROVE  PortalUnlaid'
<1>. USE DEF StepsInOrder, PortalUnlaid, PortalScreen, Flags, OpenSteps, CloseSteps, MonitorSteps,
         history, castVars, Stays, Fails, Goes, Unkept, TriesAgain, GivesUp
<1>1. CASE Begin
  BY <1>1 DEF Begin, Opening, BackendFor, SourceKinds
<1>2. CASE OpenVirtual
  BY <1>2 DEF OpenVirtual, Snapshots, ListsConnectors, CreatesSession, RecordsVirtual, KeepsAlive,
     FindsConnector, Arranges, Applies
<1>3. CASE Monitor
  BY <1>3 DEF Monitor, NamesPrimary, CreatesMonitor, RecordsMonitor, RefusesWindow, RunEnds
<1>4. CASE Portal
  <2>1. CASE KWinOpens \/ KWinAnswers \/ OrphanOpens \/ OrphanEnds
    BY <2>1 DEF KWinOpens, KWinAnswers, OrphanOpens, OrphanEnds
  <2>2. CASE CreatesPortal \/ SelectsSources
    BY <2>2 DEF CreatesPortal, SelectsSources
  <2>3. CASE StartsPortal \/ OpensRemote
    BY <2>3 DEF StartsPortal, OpensRemote
  <2>. QED
    BY <1>4, <2>1, <2>2, <2>3 DEF Portal
<1>5. CASE Stop
  BY <1>5 DEF Stop, MutterStop, Takes, Recaptures, StopsSession, StopsKeepAlive, StopsVirtual,
     ChecksTopology, Reapplies, BackendStopped
<1>6. CASE Cancelled
  BY <1>6 DEF Cancelled
<1>7. CASE Outside
  BY <1>7 DEF Outside, MutterDisplays, UserPlugs, UserRearranges
<1>. QED
  BY <1>1, <1>2, <1>3, <1>4, <1>5, <1>6, <1>7, Groups

(* What `active` records is what has been opened so far.                   *)
LEMMA RecordStep ==
    ASSUME DisplayOK, StepsInOrder, RecordInStep, CaptureNext
    PROVE  RecordInStep'
<1>. USE Records
     DEF StepsInOrder, RecordInStep, Recordable, Pairs, OpenSteps, CloseSteps, VirtualSteps,
         RecordedSteps, MonitorSteps, PortalSteps, TakenSteps,
         displayVars, mutterVars, portalVars, history, castVars, Stays, Fails, Goes, Unkept, TriesAgain, GivesUp
<1>1. CASE Begin
  BY <1>1 DEF Begin, Opening, BackendFor, SourceKinds
<1>2. CASE OpenVirtual
  <2>1. CASE CreatesSession
    BY <2>1 DEF CreatesSession, OneSession
  <2>2. CASE Snapshots \/ ListsConnectors \/ RecordsVirtual \/ KeepsAlive
    BY <2>2 DEF Snapshots, ListsConnectors, RecordsVirtual, KeepsAlive
  <2>3. CASE FindsConnector \/ Arranges \/ Applies
    BY <2>3 DEF FindsConnector, Arranges, Applies
  <2>. QED
    BY <1>2, <2>1, <2>2, <2>3 DEF OpenVirtual
<1>3. CASE Monitor
  <2>1. CASE RecordsMonitor
    <3>1. active' \in {active, Both(found), OneSession("monitor")} /\ UNCHANGED <<taken, source>>
      BY <2>1 DEF RecordsMonitor, OneSession, Both
    <3>2. active' = IF at' = "take" THEN active
                    ELSE IF source = "virtual" THEN Both(found) ELSE OneSession("monitor")
      BY <2>1 DEF RecordsMonitor, OneSession, Both
    <3>3. /\ at = "record monitor" /\ at' \in {"take", "streaming"}
          /\ at' = "streaming" => found \in Connectors
          /\ UNCHANGED backend
      BY <2>1 DEF RecordsMonitor, DisplayOK
    <3>. QED
      BY <3>1, <3>2, <3>3
  <2>2. CASE NamesPrimary \/ CreatesMonitor \/ RefusesWindow \/ RunEnds
    BY <2>2 DEF NamesPrimary, CreatesMonitor, RefusesWindow, RunEnds
  <2>. QED
    BY <1>3, <2>1, <2>2 DEF Monitor
<1>4. CASE Portal
  <2>1. CASE KWinOpens \/ KWinAnswers
    BY <2>1 DEF KWinOpens, KWinAnswers
  <2>2. CASE OrphanOpens \/ OrphanEnds
    <3>1. UNCHANGED <<at, source, backend, active, taken, found>>
      BY <2>2 DEF OrphanOpens, OrphanEnds
    <3>. QED
      BY <3>1, ZenonT(30)
  <2>3. CASE CreatesPortal \/ SelectsSources
    BY <2>3 DEF CreatesPortal, SelectsSources
  <2>4. CASE StartsPortal \/ OpensRemote
    BY <2>4 DEF StartsPortal, OpensRemote
  <2>. QED
    BY <1>4, <2>1, <2>2, <2>3, <2>4 DEF Portal
<1>5. CASE Stop
  <2>1. CASE Takes \/ BackendStopped
    BY <2>1 DEF Takes, BackendStopped
  <2>2. CASE MutterStop
    BY <2>2 DEF MutterStop, Recaptures, StopsSession, StopsKeepAlive, StopsVirtual,
       ChecksTopology, Reapplies
  <2>. QED
    BY <1>5, <2>1, <2>2 DEF Stop
<1>6. CASE Cancelled
  BY <1>6 DEF Cancelled
<1>7. CASE Outside
  BY <1>7 DEF Outside, MutterDisplays, UserPlugs, UserRearranges
<1>. QED
  BY <1>1, <1>2, <1>3, <1>4, <1>5, <1>6, <1>7, Groups

(* The keep-alive and the first session hold the screen while it streams.  *)
LEMMA HeldStep ==
    ASSUME DisplayOK, Flags, StepsInOrder, RecordInStep, ScreenHeld, CaptureNext
    PROVE  ScreenHeld'
<1>. USE Records, MissingAssumption
     DEF StepsInOrder, RecordInStep, Recordable, Pairs, Flags, ScreenHeld, KeptAlive, OpenSteps,
         CloseSteps, VirtualSteps, RecordedSteps, MonitorSteps, PortalSteps, TakenSteps,
         OnConnection, displayVars, mutterVars, portalVars, history,
         castVars, Stays, Fails, Goes, Unkept, TriesAgain, GivesUp
<1>1. CASE Begin
  BY <1>1 DEF Begin, Opening, BackendFor, SourceKinds
<1>2. CASE OpenVirtual
  <2>1. CASE Snapshots
    BY <2>1 DEF Snapshots
  <2>2. CASE ListsConnectors
    BY <2>2 DEF ListsConnectors
  <2>3. CASE CreatesSession
    <3>1. \/ at' = "take" /\ UNCHANGED <<active, sessions>>
          \/ /\ at' = "record virtual" /\ active' = OneSession("virtual")
             /\ sessions' = sessions \cup {"virtual"}
      BY <2>3 DEF CreatesSession, OneSession
    <3>2. at = "create" /\ UNCHANGED <<backend, source, taken, keepAlive, outputs>>
      BY <2>3 DEF CreatesSession
    <3>. QED
      BY <3>1, <3>2
  <2>4. CASE RecordsVirtual
    BY <2>4 DEF RecordsVirtual
  <2>5. CASE KeepsAlive
    BY <2>5 DEF KeepsAlive
  <2>6. CASE FindsConnector
    BY <2>6 DEF FindsConnector
  <2>7. CASE Arranges
    BY <2>7 DEF Arranges, SerialRead
  <2>8. CASE Applies
    BY <2>8 DEF Applies, Accepted, Refused
  <2>. QED
    BY <1>2, <2>1, <2>2, <2>3, <2>4, <2>5, <2>6, <2>7, <2>8 DEF OpenVirtual
<1>3. CASE Monitor
  <2>1. CASE NamesPrimary
    BY <2>1 DEF NamesPrimary
  <2>2. CASE CreatesMonitor
    BY <2>2 DEF CreatesMonitor
  <2>3. CASE RecordsMonitor
    <3>1. active' = IF at' = "take" THEN active
                    ELSE IF source = "virtual" THEN Both(found) ELSE OneSession("monitor")
      BY <2>3 DEF RecordsMonitor, OneSession, Both
    <3>. QED
      BY <2>3, <3>1 DEF RecordsMonitor
  <2>4. CASE RefusesWindow
    BY <2>4 DEF RefusesWindow
  <2>5. CASE RunEnds
    BY <2>5 DEF RunEnds
  <2>. QED
    BY <1>3, <2>1, <2>2, <2>3, <2>4, <2>5 DEF Monitor
<1>4. CASE Portal
  <2>1. CASE KWinOpens
    BY <2>1 DEF KWinOpens
  <2>2. CASE KWinAnswers
    BY <2>2 DEF KWinAnswers
  <2>3. CASE OrphanOpens \/ OrphanEnds
    <3>1. UNCHANGED <<at, source, active, taken, keepAlive, outputs>>
      BY <2>3 DEF OrphanOpens, OrphanEnds
    <3>2. sessions' = sessions \cup {"kwin"} \/ sessions' = sessions \ {"kwin"}
      BY <2>3 DEF OrphanOpens, OrphanEnds
    <3>3. /\ "virtual" \in sessions' <=> "virtual" \in sessions
          /\ "monitor" \in sessions' <=> "monitor" \in sessions
      BY <3>2
    <3>4. KeptAlive <=> KeptAlive'
      BY <3>1, <3>3
    <3>. QED
      BY <3>1, <3>3, <3>4
  <2>4. CASE CreatesPortal
    BY <2>4 DEF CreatesPortal
  <2>5. CASE SelectsSources
    BY <2>5 DEF SelectsSources
  <2>6. CASE StartsPortal
    BY <2>6 DEF StartsPortal
  <2>7. CASE OpensRemote
    BY <2>7 DEF OpensRemote
  <2>. QED
    BY <1>4, <2>1, <2>2, <2>3, <2>4, <2>5, <2>6, <2>7 DEF Portal
<1>5. CASE Stop
  <2>1. CASE Takes
    BY <2>1 DEF Takes
  <2>2. CASE Recaptures
    BY <2>2 DEF Recaptures
  <2>3. CASE StopsSession
    <3>0. sessions' = sessions \ {taken.session}
      BY <2>3 DEF StopsSession
    <3>1. /\ sessions' \subseteq sessions
          /\ taken \in Pairs => "monitor" \notin sessions'
      <4>1. ASSUME taken \in Pairs PROVE taken.session = "monitor"
        BY <4>1, Fields DEF Pairs
      <4>. QED
        BY <3>0, <4>1
    <3>2. /\ at = "stop session" /\ at' = "stop keep alive"
          /\ UNCHANGED <<backend, source, active, taken, keepAlive, outputs>>
      BY <2>3 DEF StopsSession
    <3>. QED
      BY <3>1, <3>2
  <2>4. CASE StopsKeepAlive
    BY <2>4 DEF StopsKeepAlive
  <2>5. CASE StopsVirtual
    BY <2>5 DEF StopsVirtual
  <2>6. CASE ChecksTopology
    BY <2>6 DEF ChecksTopology, SerialRead
  <2>7. CASE Reapplies
    BY <2>7 DEF Reapplies, Accepted, Refused
  <2>8. CASE BackendStopped
    BY <2>8 DEF BackendStopped
  <2>. QED
    BY <1>5, <2>1, <2>2, <2>3, <2>4, <2>5, <2>6, <2>7, <2>8 DEF Stop, MutterStop
<1>6. CASE Cancelled
  BY <1>6 DEF Cancelled
<1>7. CASE Outside
  <2>1. CASE MutterDisplays
    BY <2>1 DEF MutterDisplays, ExtraAppears, ExtraGoes, Relaid, Held
  <2>2. CASE UserPlugs
    BY <2>2, ConnectorAssumption DEF UserPlugs, Hotplug, Relaid
  <2>3. CASE UserRearranges
    BY <2>3 DEF UserRearranges, Rearranged
  <2>. QED
    BY <1>7, <2>1, <2>2, <2>3 DEF Outside
<1>. QED
  BY <1>1, <1>2, <1>3, <1>4, <1>5, <1>6, <1>7, Groups

(* The connector found stays the extra screen's.                            *)
LEMMA KnownStays == UNCHANGED <<known, outputs>> /\ AllKnown => AllKnown'
BY DEF AllKnown

LEMMA FoundStep ==
    ASSUME Flags, StepsInOrder, RecordInStep, ScreenHeld, ScreenFound, CaptureNext
    PROVE  ScreenFound'
<1>. USE Records
     DEF Flags, StepsInOrder, RecordInStep, Recordable, ScreenHeld, KeptAlive, ScreenFound, OpenSteps,
         CloseSteps, VirtualSteps, RecordedSteps, MonitorSteps, PortalSteps, TakenSteps,
         displayVars, mutterVars, portalVars, history,
         castVars, Stays, Fails, Goes, Unkept, TriesAgain, GivesUp
<1>1. CASE Begin
  <2>1. /\ at = "idle" /\ active' = Absent /\ taken' = taken /\ outputs' = outputs
        /\ Extra \notin outputs
        /\ at' \in {"snapshot", "primary", "refuse", "kwin", "create portal"}
    BY <1>1 DEF Begin, Opening, BackendFor, SourceKinds
  <2>. QED
    BY <2>1
<1>2. CASE OpenVirtual
  <2>1. CASE Snapshots
    BY <2>1, KnownStays DEF Snapshots
  <2>2. CASE ListsConnectors
    BY <2>2, KnownStays DEF ListsConnectors, AllKnown
  <2>3. CASE CreatesSession
    <3>1. /\ at = "create" /\ at' \in {"take", "record virtual"} /\ active' \notin Pairs
          /\ UNCHANGED <<replugged, unkept, outputs, taken, known, source>>
      BY <2>3 DEF CreatesSession, OneSession, Pairs, Both
    <3>. QED
      BY <3>1, KnownStays
  <2>4. CASE RecordsVirtual
    BY <2>4, KnownStays DEF RecordsVirtual
  <2>5. CASE KeepsAlive
    BY <2>5, KnownStays DEF KeepsAlive
  <2>6. CASE FindsConnector
    <3>1. /\ at = "wait" /\ UNCHANGED <<replugged, outputs, active, taken, source>>
          /\ at' \in {"arrange", "create monitor", "take"}
          /\ at' # "take" => found' \in outputs \ known
          /\ UNCHANGED unkept
      BY <2>6 DEF FindsConnector, NewConnectors
    <3>2. ~replugged /\ ~unkept /\ at' # "take" => found' = Extra
      BY <3>1 DEF AllKnown
    <3>. QED
      BY <3>1, <3>2
  <2>7. CASE Arranges
    BY <2>7, KnownStays DEF Arranges, SerialRead
  <2>8. CASE Applies
    BY <2>8, KnownStays DEF Applies, Accepted, Refused
  <2>. QED
    BY <1>2, <2>1, <2>2, <2>3, <2>4, <2>5, <2>6, <2>7, <2>8 DEF OpenVirtual
<1>3. CASE Monitor
  <2>1. CASE NamesPrimary
    BY <2>1, KnownStays DEF NamesPrimary
  <2>2. CASE CreatesMonitor
    BY <2>2, KnownStays DEF CreatesMonitor
  <2>3. CASE RecordsMonitor
    <3>1. active' = IF at' = "take" THEN active
                    ELSE IF source = "virtual" THEN Both(found) ELSE OneSession("monitor")
      BY <2>3 DEF RecordsMonitor, OneSession, Both
    <3>2. /\ at = "record monitor" /\ at' \in {"take", "streaming"}
          /\ UNCHANGED <<replugged, unkept, outputs, taken, source>>
      BY <2>3 DEF RecordsMonitor
    <3>. QED
      BY <3>1, <3>2
  <2>4. CASE RefusesWindow
    BY <2>4, KnownStays DEF RefusesWindow
  <2>5. CASE RunEnds
    BY <2>5, KnownStays DEF RunEnds
  <2>. QED
    BY <1>3, <2>1, <2>2, <2>3, <2>4, <2>5 DEF Monitor
<1>4. CASE Portal
  <2>1. CASE KWinOpens
    BY <2>1, KnownStays DEF KWinOpens
  <2>2. CASE KWinAnswers
    BY <2>2, KnownStays DEF KWinAnswers
  <2>3. CASE OrphanOpens \/ OrphanEnds
    BY <2>3, KnownStays DEF OrphanOpens, OrphanEnds
  <2>4. CASE CreatesPortal
    BY <2>4, KnownStays DEF CreatesPortal
  <2>5. CASE SelectsSources
    BY <2>5, KnownStays DEF SelectsSources
  <2>6. CASE StartsPortal
    BY <2>6, KnownStays DEF StartsPortal
  <2>7. CASE OpensRemote
    BY <2>7, KnownStays DEF OpensRemote
  <2>. QED
    BY <1>4, <2>1, <2>2, <2>3, <2>4, <2>5, <2>6, <2>7 DEF Portal
<1>5. CASE Stop
  <2>1. CASE Takes
    BY <2>1, KnownStays DEF Takes
  <2>2. CASE Recaptures
    BY <2>2, KnownStays DEF Recaptures
  <2>3. CASE StopsSession
    BY <2>3, KnownStays DEF StopsSession
  <2>4. CASE StopsKeepAlive
    BY <2>4, KnownStays DEF StopsKeepAlive
  <2>5. CASE StopsVirtual
    BY <2>5, KnownStays DEF StopsVirtual
  <2>6. CASE ChecksTopology
    BY <2>6, KnownStays DEF ChecksTopology, SerialRead
  <2>7. CASE Reapplies
    BY <2>7, KnownStays DEF Reapplies, Accepted, Refused
  <2>8. CASE BackendStopped
    BY <2>8, KnownStays DEF BackendStopped
  <2>. QED
    BY <1>5, <2>1, <2>2, <2>3, <2>4, <2>5, <2>6, <2>7, <2>8 DEF Stop, MutterStop
<1>6. CASE Cancelled
  BY <1>6, KnownStays DEF Cancelled
<1>7. CASE Outside
  <2>1. CASE MutterDisplays
    <3>1. /\ \/ outputs' = outputs \cup {Extra} /\ (KeptAlive \/ at = "streaming")
             \/ outputs' = outputs \ {Extra}
          /\ UNCHANGED <<replugged, unkept, at, source, active, taken, known, found>>
      BY <2>1 DEF MutterDisplays, ExtraAppears, ExtraGoes, Relaid, Held
    <3>2. AllKnown => AllKnown'
      BY <3>1 DEF AllKnown
    <3>3. at \in {"snapshot", "connectors", "create"} => active = Absent
      OBVIOUS
    <3>. QED
      BY <3>1, <3>2, <3>3
  <2>2. CASE UserPlugs
    BY <2>2, ConnectorAssumption DEF UserPlugs, Hotplug, Relaid
  <2>3. CASE UserRearranges
    BY <2>3, KnownStays DEF UserRearranges, Rearranged
  <2>. QED
    BY <1>7, <2>1, <2>2, <2>3 DEF Outside
<1>. QED
  BY <1>1, <1>2, <1>3, <1>4, <1>5, <1>6, <1>7, Groups

(* A session is recorded, or in the hands of a call that closes it.        *)
LEMMA OwnedStep ==
    ASSUME Flags, StepsInOrder, RecordInStep, SessionsOwned, CaptureNext
    PROVE  SessionsOwned'
<1>. USE DEF StepsInOrder, RecordInStep, Flags, SessionsOwned, OpenSteps, CloseSteps,
         VirtualSteps, RecordedSteps, MonitorSteps, PortalSteps, TakenSteps,
         OnConnection, displayVars, mutterVars, portalVars, history,
         castVars, Stays, Fails, Goes, Unkept, TriesAgain, GivesUp
<1>1. CASE Begin
  BY <1>1 DEF Begin, Opening, BackendFor, SourceKinds
<1>2. CASE OpenVirtual
  <2>1. CASE Snapshots
    BY <2>1 DEF Snapshots
  <2>2. CASE ListsConnectors
    BY <2>2 DEF ListsConnectors
  <2>3. CASE CreatesSession
    BY <2>3 DEF CreatesSession
  <2>4. CASE RecordsVirtual
    BY <2>4 DEF RecordsVirtual
  <2>5. CASE KeepsAlive
    BY <2>5 DEF KeepsAlive
  <2>6. CASE FindsConnector
    BY <2>6 DEF FindsConnector
  <2>7. CASE Arranges
    BY <2>7 DEF Arranges
  <2>8. CASE Applies
    BY <2>8 DEF Applies
  <2>. QED
    BY <1>2, <2>1, <2>2, <2>3, <2>4, <2>5, <2>6, <2>7, <2>8 DEF OpenVirtual
<1>3. CASE Monitor
  <2>1. CASE NamesPrimary
    BY <2>1 DEF NamesPrimary
  <2>2. CASE CreatesMonitor
    BY <2>2 DEF CreatesMonitor
  <2>3. CASE RecordsMonitor
    BY <2>3 DEF RecordsMonitor
  <2>4. CASE RefusesWindow
    BY <2>4 DEF RefusesWindow
  <2>5. CASE RunEnds
    BY <2>5 DEF RunEnds
  <2>. QED
    BY <1>3, <2>1, <2>2, <2>3, <2>4, <2>5 DEF Monitor
<1>4. CASE Portal
  <2>1. CASE KWinOpens
    BY <2>1 DEF KWinOpens
  <2>2. CASE KWinAnswers
    BY <2>2 DEF KWinAnswers
  <2>3. CASE OrphanOpens \/ OrphanEnds
    <3>1. CASE OrphanOpens
      <4>1. /\ orphan /\ sessions' = sessions \cup {"kwin"}
            /\ UNCHANGED <<at, undoing, orphan, recorded, unanswered>>
        BY <3>1 DEF OrphanOpens
      <4>. QED
        BY <4>1
    <3>2. CASE OrphanEnds
      <4>1. /\ ~orphan' /\ sessions' = sessions \ {"kwin"}
            /\ UNCHANGED <<at, undoing, recorded, unanswered>>
        BY <3>2 DEF OrphanEnds
      <4>. QED
        BY <4>1
    <3>. QED
      BY <2>3, <3>1, <3>2
  <2>4. CASE CreatesPortal
    BY <2>4 DEF CreatesPortal
  <2>5. CASE SelectsSources
    BY <2>5 DEF SelectsSources
  <2>6. CASE StartsPortal
    BY <2>6 DEF StartsPortal
  <2>7. CASE OpensRemote
    BY <2>7 DEF OpensRemote
  <2>. QED
    BY <1>4, <2>1, <2>2, <2>3, <2>4, <2>5, <2>6, <2>7 DEF Portal
<1>5. CASE Stop
  <2>1. CASE Takes
    BY <2>1 DEF Takes
  <2>2. CASE Recaptures
    BY <2>2 DEF Recaptures
  <2>3. CASE StopsSession
    BY <2>3 DEF StopsSession
  <2>4. CASE StopsKeepAlive
    BY <2>4 DEF StopsKeepAlive
  <2>5. CASE StopsVirtual
    BY <2>5 DEF StopsVirtual
  <2>6. CASE ChecksTopology \/ Reapplies
    <3>1. /\ at \in {"restore", "reapply"} /\ at' \in {"restore", "reapply", "stopped"}
          /\ UNCHANGED <<sessions, recorded, orphan, undoing>>
      BY <2>6 DEF ChecksTopology, Reapplies
    <3>2. UNCHANGED unanswered
      BY <2>6 DEF ChecksTopology, Reapplies
    <3>. QED
      BY <3>1, <3>2
  <2>7. CASE BackendStopped
    BY <2>7 DEF BackendStopped
  <2>. QED
    BY <1>5, <2>1, <2>2, <2>3, <2>4, <2>5, <2>6, <2>7 DEF Stop, MutterStop
<1>6. CASE Cancelled
  BY <1>6 DEF Cancelled
<1>7. CASE Outside
  <2>1. CASE MutterDisplays
    BY <2>1 DEF MutterDisplays
  <2>2. CASE UserPlugs
    BY <2>2 DEF UserPlugs
  <2>3. CASE UserRearranges
    BY <2>3 DEF UserRearranges
  <2>. QED
    BY <1>7, <2>1, <2>2, <2>3 DEF Outside
<1>. QED
  BY <1>1, <1>2, <1>3, <1>4, <1>5, <1>6, <1>7, Groups

(* restore gives up after its attempts.                                    *)
LEMMA TriesStep ==
    ASSUME TriesBounded, CaptureNext
    PROVE  TriesBounded'
<1>1. \/ tries' = tries \/ tries' = 0 \/ tries' = 1
      \/ tries < RestoreAttempts /\ tries' = tries + 1
  <2>. USE DEF mutterVars, TriesAgain, GivesUp
  <2>1. CASE Begin
    BY <2>1 DEF Begin
  <2>2. CASE OpenVirtual
    BY <2>2 DEF OpenVirtual, Snapshots, ListsConnectors, CreatesSession, RecordsVirtual,
       KeepsAlive, FindsConnector, Arranges, Applies
  <2>3. CASE Monitor
    BY <2>3 DEF Monitor, NamesPrimary, CreatesMonitor, RecordsMonitor, RefusesWindow, RunEnds
  <2>4. CASE Portal
    BY <2>4 DEF Portal, KWinOpens, KWinAnswers, OrphanOpens, OrphanEnds, CreatesPortal, SelectsSources,
       StartsPortal, OpensRemote
  <2>5. CASE Stop
    BY <2>5 DEF Stop, MutterStop, Takes, Recaptures, StopsSession, StopsKeepAlive, StopsVirtual,
       ChecksTopology, Reapplies, BackendStopped
  <2>6. CASE Cancelled
    BY <2>6 DEF Cancelled
  <2>7. CASE Outside
    BY <2>7 DEF Outside, MutterDisplays, UserPlugs, UserRearranges
  <2>. QED
    BY <2>1, <2>2, <2>3, <2>4, <2>5, <2>6, <2>7, Groups
<1>. QED
  BY <1>1, AttemptsAssumption DEF TriesBounded

(* The flags are flags.                                                    *)
LEMMA FlagsStep ==
    ASSUME Flags, CaptureNext
    PROVE  Flags'
<1>. USE DEF Flags, displayVars, mutterVars, portalVars, history,
         castVars, Stays, Fails, Goes, Unkept, TriesAgain, GivesUp
<1>1. CASE Begin
  BY <1>1 DEF Begin
<1>2. CASE OpenVirtual
  <2>1. CASE Snapshots
    BY <2>1 DEF Snapshots
  <2>2. CASE ListsConnectors
    BY <2>2 DEF ListsConnectors
  <2>3. CASE CreatesSession
    BY <2>3 DEF CreatesSession
  <2>4. CASE RecordsVirtual
    BY <2>4 DEF RecordsVirtual
  <2>5. CASE KeepsAlive
    BY <2>5 DEF KeepsAlive
  <2>6. CASE FindsConnector
    BY <2>6 DEF FindsConnector
  <2>7. CASE Arranges
    BY <2>7 DEF Arranges, SerialRead
  <2>8. CASE Applies
    BY <2>8 DEF Applies, Accepted, Refused
  <2>. QED
    BY <1>2, <2>1, <2>2, <2>3, <2>4, <2>5, <2>6, <2>7, <2>8 DEF OpenVirtual
<1>3. CASE Monitor
  <2>1. CASE NamesPrimary
    BY <2>1 DEF NamesPrimary
  <2>2. CASE CreatesMonitor
    BY <2>2 DEF CreatesMonitor
  <2>3. CASE RecordsMonitor
    BY <2>3 DEF RecordsMonitor
  <2>4. CASE RefusesWindow
    BY <2>4 DEF RefusesWindow
  <2>5. CASE RunEnds
    BY <2>5 DEF RunEnds
  <2>. QED
    BY <1>3, <2>1, <2>2, <2>3, <2>4, <2>5 DEF Monitor
<1>4. CASE Portal
  <2>1. CASE KWinOpens
    BY <2>1 DEF KWinOpens
  <2>2. CASE KWinAnswers
    BY <2>2 DEF KWinAnswers
  <2>3. CASE OrphanOpens \/ OrphanEnds
    BY <2>3 DEF OrphanOpens, OrphanEnds
  <2>4. CASE CreatesPortal
    BY <2>4 DEF CreatesPortal
  <2>5. CASE SelectsSources
    BY <2>5 DEF SelectsSources
  <2>6. CASE StartsPortal
    BY <2>6 DEF StartsPortal
  <2>7. CASE OpensRemote
    BY <2>7 DEF OpensRemote
  <2>. QED
    BY <1>4, <2>1, <2>2, <2>3, <2>4, <2>5, <2>6, <2>7 DEF Portal
<1>5. CASE Stop
  <2>1. CASE Takes
    BY <2>1 DEF Takes
  <2>2. CASE Recaptures
    BY <2>2 DEF Recaptures
  <2>3. CASE StopsSession
    BY <2>3 DEF StopsSession
  <2>4. CASE StopsKeepAlive
    BY <2>4 DEF StopsKeepAlive
  <2>5. CASE StopsVirtual
    BY <2>5 DEF StopsVirtual
  <2>6. CASE ChecksTopology
    BY <2>6 DEF ChecksTopology, SerialRead
  <2>7. CASE Reapplies
    BY <2>7 DEF Reapplies, Accepted, Refused
  <2>8. CASE BackendStopped
    BY <2>8 DEF BackendStopped
  <2>. QED
    BY <1>5, <2>1, <2>2, <2>3, <2>4, <2>5, <2>6, <2>7, <2>8 DEF Stop, MutterStop
<1>6. CASE Cancelled
  <2>0. /\ orphan' = (at = "kwin" \/ at = "kwin opened")
        /\ keepAlive' = (keepAlive /\ taken = Absent)
        /\ cutShort' = (cutShort \/ taken # Absent)
        /\ stray' = (stray \/ (keepAlive /\ taken # Absent))
    BY <1>6, Zenon DEF Cancelled
  <2>1. keepAlive' \in BOOLEAN
    BY <2>0
  <2>5. orphan' \in BOOLEAN
    BY <2>0
  <2>3. cutShort' \in BOOLEAN
    BY <2>0
  <2>4. stray' \in BOOLEAN
    BY <2>0
  <2>2. UNCHANGED <<fresh, recorded, replugged, unkept>> /\ undoing' = FALSE
        /\ unanswered' \in BOOLEAN
    BY <1>6 DEF Cancelled
  <2>. QED
    BY <2>1, <2>2, <2>3, <2>4, <2>5
<1>7. CASE Outside
  <2>1. CASE MutterDisplays
    BY <2>1 DEF MutterDisplays, ExtraAppears, ExtraGoes, Relaid
  <2>2. CASE UserPlugs
    BY <2>2 DEF UserPlugs, Hotplug, Relaid
  <2>3. CASE UserRearranges
    BY <2>3 DEF UserRearranges, Rearranged
  <2>. QED
    BY <1>7, <2>1, <2>2, <2>3 DEF Outside
<1>. QED
  BY <1>1, <1>2, <1>3, <1>4, <1>5, <1>6, <1>7, Groups

\* What a cast could not help is remembered until the next begins.
LEMMA CleanStep ==
    ASSUME Flags, CaptureNext, Clean', ~Begin
    PROVE  Clean /\ UNCHANGED <<replugged, unkept, cutShort>>
<1>. USE DEF Flags, Clean, displayVars, mutterVars, portalVars, history,
         castVars, Stays, Fails, Goes, Unkept, TriesAgain, GivesUp
<1>1. CASE OpenVirtual
  BY <1>1 DEF OpenVirtual, Snapshots, ListsConnectors, CreatesSession, RecordsVirtual, KeepsAlive,
     FindsConnector, Arranges, Applies
<1>2. CASE Monitor
  BY <1>2 DEF Monitor, NamesPrimary, CreatesMonitor, RecordsMonitor, RefusesWindow, RunEnds
<1>3. CASE Portal
  BY <1>3 DEF Portal, KWinOpens, KWinAnswers, OrphanOpens, OrphanEnds, CreatesPortal, SelectsSources,
     StartsPortal, OpensRemote
<1>4. CASE Stop
  BY <1>4 DEF Stop, MutterStop, Takes, Recaptures, StopsSession, StopsKeepAlive, StopsVirtual,
     ChecksTopology, Reapplies, BackendStopped
<1>5. CASE Cancelled
  BY <1>5 DEF Cancelled
<1>6. CASE Outside
  BY <1>6 DEF Outside, MutterDisplays, UserPlugs, UserRearranges
<1>. QED
  BY <1>1, <1>2, <1>3, <1>4, <1>5, <1>6, Groups

\* The user's own arrangement, without the extra screen.
LEMMA WithoutExtra ==
    ASSUME DisplayOK, TheirOwn, layout' = Without(Captured, Extra), UNCHANGED <<outputs, asked>>
    PROVE  layout' # Missing /\ LayoutOwed'
<1>1. outputs \ {Extra} # {}
  BY ConnectorAssumption DEF DisplayOK
<1>2. layout' = [desk |-> desk, monitors |-> outputs \ {Extra}]
  BY <1>1 DEF Without, Captured
<1>3. layout' \in Snapshot
  BY <1>2 DEF Snapshot, DisplayOK, Arrangements
<1>4. layout' # Missing
  BY <1>3, MissingAssumption
<1>5. layout'.desk >= asked' /\ layout'.monitors = outputs' \ {Extra}
  BY <1>2 DEF TheirOwn
<1>. QED
  BY <1>4, <1>5 DEF LayoutOwed, Owes

\* The arrangement of the start is what is owed where no other could be read.
LEMMA OldSnapshot ==
    ASSUME DisplayOK, LayoutFits, layout' = layout, asked' = layout.desk, outputs' = outputs
    PROVE  layout' # Missing /\ LayoutOwed'
<1>1. layout # Missing /\ layout.monitors = outputs \ {Extra}
  BY DEF LayoutFits
<1>2. layout.desk \in Nat
  BY <1>1 DEF DisplayOK, Kept, Snapshot
<1>3. layout'.desk >= asked' /\ layout'.monitors = outputs' \ {Extra}
  BY <1>1, <1>2
<1>. QED
  BY <1>1, <1>3 DEF LayoutOwed, Owes

(* What is owed stays owed while the desktop and the snapshots do.         *)
LEMMA AtomsStay ==
    /\ UNCHANGED <<desk, asked>> /\ TheirOwn => TheirOwn'
    /\ UNCHANGED <<layout, outputs, asked>> /\ LayoutOwed => LayoutOwed'
    /\ UNCHANGED <<layout, outputs>> /\ LayoutFits => LayoutFits'
    /\ layout # Missing /\ LayoutOwed => LayoutFits
    /\ LayoutFits => layout # Missing
    /\ UNCHANGED <<outputs, asked>> /\ layout' = before /\ BeforeOwed => LayoutOwed'
    /\ layout' = Missing => LayoutOwed'
    /\ UNCHANGED <<before, outputs, asked>> /\ BeforeOwed => BeforeOwed'
BY DEF TheirOwn, LayoutOwed, LayoutFits, BeforeOwed, Owes

LEMMA DeskStays ==
    ASSUME DeskOwed, Flags, Flags', TheirOwn => TheirOwn', fresh => fresh' \/ TheirOwn',
           UNCHANGED <<at, backend, source, active, taken, layout, before, known, found,
                       keepAlive, outputs>>,
           at \notin {"idle", "streaming"} =>
               /\ LayoutOwed => LayoutOwed'
               /\ BeforeOwed => BeforeOwed'
    PROVE  DeskOwed'
<1>1. OpeningOwed'
  BY DEF DeskOwed, OpeningOwed, Calm, CalmSteps
<1>2. StreamOwed'
  BY DEF DeskOwed, StreamOwed, Beside, LayoutFits, Calm, MonitorSteps
<1>3. CloseOwed'
  BY DEF DeskOwed, CloseOwed, Beside, LayoutFits, Calm, InHand, Flags
<1>. QED
  BY <1>1, <1>2, <1>3 DEF DeskOwed

(* Steps that move the cast nowhere.                                       *)
LEMMA DeskOrphan ==
    ASSUME DeskOwed, Flags, Flags', OrphanOpens \/ OrphanEnds
    PROVE  DeskOwed'
<1>1. UNCHANGED <<at, backend, source, outputs, desk, asked, fresh, active, taken, layout,
                  before, known, found, keepAlive>>
  BY DEF OrphanOpens, OrphanEnds, displayVars, castVars, mutterVars, history
<1>. QED
  BY <1>1, AtomsStay, DeskStays

LEMMA DeskRearranged ==
    ASSUME DisplayOK, DeskOwed, Flags, Flags', UserRearranges
    PROVE  DeskOwed'
<1>1. /\ UNCHANGED <<outputs, at, backend, source, active, taken, layout, before, known,
                     found, keepAlive>>
      /\ chosen' = chosen + 1 /\ desk' = chosen'
      /\ asked' = desk' \/ asked' = asked
      /\ at \notin {"idle", "streaming"} => asked' = asked
  BY DEF UserRearranges, Rearranged, AtRest, castVars, mutterVars
<1>2. asked \in Nat /\ chosen \in Nat /\ asked <= chosen
  BY DEF DisplayOK, Arrangements
<1>3. desk' \in Nat /\ desk' >= asked
  BY <1>1, <1>2
<1>4. TheirOwn'
  BY <1>1, <1>3 DEF TheirOwn
<1>. QED
  BY <1>1, <1>4, AtomsStay, DeskStays

(* A cast begins with the desktop the last one gave back.                  *)
LEMMA DeskBegins ==
    ASSUME CaptureInv, Begin
    PROVE  DeskOwed'
<1>1. ~keepAlive /\ active = Absent /\ at = "idle" /\ Extra \notin outputs /\ desk \in Nat
  BY DEF CaptureInv, Begin, RecordInStep, ScreenHeld, RecordedSteps, MonitorSteps, TakenSteps,
     DisplayOK, Arrangements
<1>2. Extra \notin outputs' /\ ~keepAlive'
  BY <1>1 DEF Begin, displayVars
<1>3. desk' = desk /\ asked' = desk
  BY DEF Begin, displayVars
<1>4. TheirOwn'
  BY <1>1, <1>3 DEF TheirOwn
<1>5. /\ layout' = Missing
      /\ at' \in {"snapshot", "primary", "refuse", "kwin", "create portal"}
  BY DEF Begin, Opening, BackendFor, SourceKinds
<1>. QED
  BY <1>2, <1>4, <1>5 DEF DeskOwed, OpeningOwed, StreamOwed, CloseOwed, Calm, CalmSteps,
     MonitorSteps

(* Each step of the cast, and each change of the desktop under it, leaves  *)
(* the user's arrangement in force or in hand.                             *)
LEMMA DeskStep ==
    ASSUME CaptureInv, Clean', ~Begin, CaptureNext
    PROVE  DeskOwed'
<1>1. DisplayOK /\ TriesBounded /\ Flags /\ StepsInOrder /\ RecordInStep /\ ScreenHeld
      /\ ScreenFound /\ Flags'
  BY FlagsStep DEF CaptureInv
<1>2. Clean /\ DeskOwed /\ UNCHANGED <<replugged, unkept, cutShort>>
  BY <1>1, CleanStep DEF CaptureInv
<1>3. ~replugged /\ ~unkept /\ ~unkept' /\ PortalUnlaid
  BY <1>2 DEF Clean, CaptureInv
<1>. USE Records, <1>1, <1>2, <1>3
     DEF Flags, StepsInOrder, RecordInStep, ScreenHeld, KeptAlive, ScreenFound, DeskOwed, OpeningOwed,
         StreamOwed, CloseOwed, Beside, InHand, Calm, CalmSteps, Recordable,
         OpenSteps, CloseSteps, VirtualSteps, RecordedSteps, MonitorSteps, PortalSteps,
         TakenSteps, displayVars, mutterVars, portalVars, history,
         castVars, Stays, Fails, Goes, Unkept, TriesAgain, GivesUp
<1>4. CASE OpenVirtual
  <2>1. CASE Snapshots
    <3>1. before' = Captured /\ UNCHANGED <<outputs, desk, asked>>
      BY <2>1 DEF Snapshots, Clean
    <3>2. before'.desk = desk /\ before'.monitors = outputs
      BY <3>1 DEF Captured
    <3>3. outputs = outputs \ {Extra} /\ TheirOwn
      BY <2>1 DEF Snapshots
    <3>4. BeforeOwed'
      BY <3>1, <3>2, <3>3 DEF BeforeOwed, Owes, TheirOwn
    <3>5. before' # Missing
      <4>1. Captured \in Snapshot
        BY DEF Captured, Snapshot, DisplayOK, Arrangements
      <4>. QED
        BY <3>1, <4>1, MissingAssumption
    <3>. QED
      BY <2>1, <3>4, <3>5, AtomsStay DEF Snapshots
  <2>2. CASE ListsConnectors
    BY <2>2, AtomsStay DEF ListsConnectors
  <2>3. CASE CreatesSession
    BY <2>3, AtomsStay DEF CreatesSession
  <2>4. CASE RecordsVirtual
    BY <2>4, AtomsStay DEF RecordsVirtual
  <2>5. CASE KeepsAlive
    BY <2>5, AtomsStay DEF KeepsAlive
  <2>6. CASE FindsConnector
    <3>1. at = "wait" /\ before # Missing /\ AllKnown
      BY <2>6 DEF FindsConnector, Clean
    <3>2. \/ at' = "arrange" /\ found' = Extra
          \/ at' = "take" /\ found' = found
      BY <2>6, <3>1 DEF FindsConnector, NewConnectors, AllKnown
    <3>3. UNCHANGED <<outputs, desk, asked, active, layout, before>>
      BY <2>6 DEF FindsConnector
    <3>. QED
      BY <3>1, <3>2, <3>3, AtomsStay
  <2>7. CASE Arranges
    <3>1. /\ at = "arrange" /\ at' \in {"apply", "create monitor"}
          /\ at' = "create monitor" => unkept'
          /\ UNCHANGED <<outputs, desk, asked, active, layout, before, found>>
      BY <2>7 DEF Arranges, SerialRead
    <3>2. at' = "apply"
      BY <3>1 DEF Clean
    <3>. QED
      BY <3>1, <3>2, AtomsStay
  <2>8. CASE Applies
    <3>1. /\ at = "apply" /\ at' = "create monitor"
          /\ UNCHANGED <<outputs, asked, layout, found, source>>
          /\ unkept' \/ (desk' = before.desk /\ Extra \in outputs)
      BY <2>8 DEF Applies, Accepted, Refused
    <3>2. desk' = before.desk /\ Extra \in outputs
      BY <3>1 DEF Clean
    <3>3. before.desk >= asked
      BY <3>1 DEF BeforeOwed, Owes
    <3>4. TheirOwn'
      BY <3>1, <3>2, <3>3 DEF TheirOwn
    <3>5. source = "virtual"
      BY <3>1
    <3>. QED
      BY <3>1, <3>2, <3>4, <3>5, AtomsStay
  <2>. QED
    BY <1>4, <2>1, <2>2, <2>3, <2>4, <2>5, <2>6, <2>7, <2>8 DEF OpenVirtual
<1>5. CASE Monitor
  <2>1. CASE NamesPrimary
    BY <2>1, AtomsStay DEF NamesPrimary
  <2>2. CASE CreatesMonitor
    BY <2>2, AtomsStay DEF CreatesMonitor
  <2>3. CASE RecordsMonitor
    <3>1. active' = IF at' = "take" THEN active
                    ELSE IF source = "virtual" THEN Both(found) ELSE OneSession("monitor")
      BY <2>3 DEF RecordsMonitor, OneSession, Both
    <3>2. /\ at = "record monitor" /\ at' \in {"take", "streaming"}
          /\ UNCHANGED <<outputs, desk, asked, layout, found, source, backend, keepAlive>>
      BY <2>3 DEF RecordsMonitor
    <3>. QED
      BY <3>1, <3>2, AtomsStay
  <2>4. CASE RefusesWindow
    BY <2>4, AtomsStay DEF RefusesWindow
  <2>5. CASE RunEnds
    BY <2>5, AtomsStay DEF RunEnds
  <2>. QED
    BY <1>5, <2>1, <2>2, <2>3, <2>4, <2>5 DEF Monitor
<1>6. CASE Portal
  <2>1. CASE KWinOpens
    BY <2>1, AtomsStay DEF KWinOpens
  <2>2. CASE KWinAnswers
    BY <2>2, AtomsStay DEF KWinAnswers
  <2>3. CASE OrphanOpens \/ OrphanEnds
    BY <2>3, DeskOrphan
  <2>4. CASE CreatesPortal
    BY <2>4, AtomsStay DEF CreatesPortal
  <2>5. CASE SelectsSources
    BY <2>5, AtomsStay DEF SelectsSources
  <2>6. CASE StartsPortal
    BY <2>6, AtomsStay DEF StartsPortal
  <2>7. CASE OpensRemote
    BY <2>7, AtomsStay DEF OpensRemote
  <2>. QED
    BY <1>6, <2>1, <2>2, <2>3, <2>4, <2>5, <2>6, <2>7 DEF Portal
<1>7. CASE Stop
  <2>1. CASE Takes
    BY <2>1, AtomsStay DEF Takes
  <2>2. CASE Recaptures
    <3>1. /\ at = "recapture" /\ at' = "stop session"
          /\ UNCHANGED <<outputs, desk, taken, keepAlive>>
          /\ \/ taken.connector = Missing /\ UNCHANGED <<layout, asked>>
             \/ /\ taken.connector # Missing /\ UNCHANGED asked
                /\ layout' = Without(Captured, taken.connector)
             \/ /\ taken.connector # Missing /\ UNCHANGED layout
                /\ asked' = IF layout = Missing THEN asked ELSE layout.desk
      BY <2>2 DEF Recaptures
    <3>2. CASE taken \in Pairs
      <4>1. taken.connector = Extra /\ TheirOwn
        BY <3>1, <3>2, Fields
      <4>2. ASSUME layout' = Without(Captured, Extra), UNCHANGED asked
            PROVE  layout' # Missing /\ LayoutOwed'
        BY <3>1, <4>1, <4>2, WithoutExtra
      <4>3. ASSUME layout' = layout, asked' = layout.desk
            PROVE  layout' # Missing /\ LayoutOwed'
        BY <3>1, <3>2, <4>3, OldSnapshot
      <4>4. layout' # Missing /\ LayoutOwed'
        BY <3>1, <3>2, <4>1, <4>2, <4>3, MissingAssumption DEF LayoutFits
      <4>. QED
        BY <3>1, <4>4
    <3>3. CASE taken \notin Pairs
      <4>1. taken.connector = Missing
        BY <3>3, OnlyPairsConnect
      <4>2. UNCHANGED <<layout, asked>>
        BY <3>1, <4>1
      <4>. QED
        BY <3>1, <3>3, <4>2, AtomsStay
    <3>. QED
      BY <3>2, <3>3
  <2>3. CASE StopsSession
    BY <2>3, AtomsStay DEF StopsSession
  <2>4. CASE StopsKeepAlive
    BY <2>4, AtomsStay DEF StopsKeepAlive
  <2>5. CASE StopsVirtual
    BY <2>5, AtomsStay DEF StopsVirtual
  <2>6. CASE ChecksTopology
    <3>0. /\ at = "restore" /\ Settled
          /\ UNCHANGED <<outputs, desk, asked, keepAlive>>
      BY <2>6 DEF ChecksTopology, SerialRead, Clean
    <3>1. \/ at' = "restore" /\ layout' = layout
          \/ at' = "stopped" /\ outputs # layout.monitors /\ tries = RestoreAttempts
          \/ at' = "reapply" /\ layout' = layout /\ fresh' = TRUE /\ outputs = layout.monitors
      BY <2>6 DEF ChecksTopology, SerialRead, Clean
    <3>2. layout.monitors = outputs \ {Extra}
      BY <3>0 DEF LayoutOwed, Owes
    <3>3. at' # "stopped"
      BY <3>0, <3>1, <3>2, AttemptsAssumption DEF Settled, TriesBounded
    <3>4. ASSUME at' = "reapply" PROVE Extra \notin outputs
      <4>1. outputs = outputs \ {Extra}
        BY <3>1, <3>2, <3>4
      <4>. QED
        BY <4>1
    <3>. QED
      BY <3>0, <3>1, <3>3, <3>4, AtomsStay
  <2>7. CASE Reapplies
    <3>1. /\ at = "reapply" /\ at' \in {"restore", "stopped"}
          /\ UNCHANGED <<outputs, asked, keepAlive>>
          /\ at' = "restore" => layout' = layout
          /\ \/ desk' = layout.desk
             \/ desk' = desk /\ (~fresh \/ at' = "restore")
      BY <2>7 DEF Reapplies, Accepted, Refused, Clean
    <3>2. at' = "stopped" => TheirOwn'
      BY <3>1 DEF LayoutOwed, Owes, TheirOwn
    <3>. QED
      BY <3>1, <3>2, AtomsStay
  <2>8. CASE BackendStopped
    BY <2>8, AtomsStay DEF BackendStopped
  <2>. QED
    BY <1>7, <2>1, <2>2, <2>3, <2>4, <2>5, <2>6, <2>7, <2>8 DEF Stop, MutterStop
<1>8. CASE Cancelled
  <2>1. /\ at \in OpenSteps \/ at \in CloseSteps
        /\ at' = "take"
        /\ UNCHANGED <<outputs, desk, asked, active, layout>>
        /\ cutShort' = (cutShort \/ taken # Absent)
        /\ keepAlive' = (keepAlive /\ taken = Absent)
    BY <1>8 DEF Cancelled
  <2>2. taken = Absent
    BY <2>1 DEF Clean
  <2>3. at \notin TakenSteps /\ keepAlive' = keepAlive /\ at' = "take"
    BY <1>8, <2>1, <2>2 DEF Cancelled
  <2>. QED
    BY <2>1, <2>3, AtomsStay
<1>9. CASE Outside
  <2>1. CASE MutterDisplays
    <3>1. /\ \/ Extra \notin outputs /\ outputs' = outputs \cup {Extra} /\ Held
             \/ Extra \in outputs /\ outputs' = outputs \ {Extra} /\ ~Held
          /\ UNCHANGED <<at, backend, source, active, taken, layout, before, known, found,
                         keepAlive, asked>>
      BY <2>1 DEF MutterDisplays, ExtraAppears, ExtraGoes, Relaid
    <3>2. /\ LayoutOwed => LayoutOwed'
          /\ BeforeOwed => BeforeOwed'
          /\ LayoutFits => LayoutFits'
      BY <3>1 DEF LayoutOwed, BeforeOwed, Owes, LayoutFits
    <3>3. ~(PortalScreen /\ at = "streaming")
      BY DEF PortalUnlaid
    <3>. QED
      BY <3>1, <3>2, <3>3 DEF Held
  <2>2. CASE UserPlugs
    BY <2>2 DEF UserPlugs, Clean
  <2>3. CASE UserRearranges
    BY <2>3, DeskRearranged
  <2>. QED
    BY <1>9, <2>1, <2>2, <2>3 DEF Outside
<1>. QED
  BY <1>4, <1>5, <1>6, <1>7, <1>8, <1>9, Groups

-----------------------------------------------------------------------------
(* The theorems. *)

LEMMA CaptureStarts == CaptureInit => CaptureInv
<1>. SUFFICES ASSUME CaptureInit PROVE CaptureInv
  OBVIOUS
<1>. USE DEF CaptureInit, DisplaysInit
<1>1. DisplayOK /\ TriesBounded
  BY AttemptsAssumption DEF DisplayOK, Arrangements, Kept, TriesBounded
<1>2. Flags
  BY DEF Flags
<1>3. StepsInOrder /\ PortalUnlaid /\ RecordInStep /\ ScreenHeld /\ ScreenFound /\ SessionsOwned
  BY Records, ConnectorAssumption
  DEF StepsInOrder, PortalUnlaid, RecordInStep, Recordable, ScreenHeld, KeptAlive, ScreenFound, SessionsOwned,
     VirtualSteps, RecordedSteps, MonitorSteps, PortalSteps, TakenSteps
<1>4. DeskOwed
  BY ConnectorAssumption DEF DeskOwed, OpeningOwed, StreamOwed, CloseOwed, Calm, TheirOwn,
     CalmSteps, MonitorSteps
<1>. QED
  BY <1>1, <1>2, <1>3, <1>4 DEF CaptureInv

LEMMA CaptureStep == CaptureInv /\ [CaptureNext]_captureVars => CaptureInv'
<1>. SUFFICES ASSUME CaptureInv, [CaptureNext]_captureVars PROVE CaptureInv'
  OBVIOUS
<1>1. CASE CaptureNext
  <2>1. Clean' => DeskOwed'
    BY <1>1, DeskBegins, DeskStep
  <2>. QED
    BY <1>1, <2>1, DisplayStep, TriesStep, FlagsStep, OrderStep, UnlaidStep, RecordStep, HeldStep, FoundStep,
       OwnedStep DEF CaptureInv
<1>2. CASE UNCHANGED captureVars
  <2>1. StepsInOrder' /\ PortalUnlaid' /\ RecordInStep'
    <3>1. UNCHANGED <<at, backend, source, before, layout, active, taken, desktop, unkept>>
      BY <1>2 DEF captureVars, mutterVars, history
    <3>2. StepsInOrder'
      BY <3>1 DEF CaptureInv, StepsInOrder
    <3>3. RecordInStep'
      BY <3>1 DEF CaptureInv, RecordInStep
    <3>4. PortalUnlaid'
      BY <3>1 DEF CaptureInv, PortalUnlaid, PortalScreen
    <3>. QED
      BY <3>2, <3>3, <3>4
  <2>. USE <1>2 DEF captureVars, displayVars, mutterVars, portalVars, history, CaptureInv
  <2>2. DisplayOK' /\ TriesBounded' /\ Flags'
    BY DEF DisplayOK, Arrangements, Kept, TriesBounded, Flags
  <2>3. ScreenHeld'
    BY DEF Flags, ScreenHeld, KeptAlive
  <2>4. ScreenFound'
    BY DEF Flags, ScreenFound, AllKnown
  <2>5. SessionsOwned'
    BY DEF Flags, SessionsOwned
  <2>6. Clean' => Clean
    BY DEF Clean
  <2>7. DeskOwed => DeskOwed'
    BY <2>2, AtomsStay, DeskStays
  <2>. QED
    BY <2>1, <2>2, <2>3, <2>4, <2>5, <2>6, <2>7
<1>. QED
  BY <1>1, <1>2

(* At rest every step of the table is calm, and nothing is left open.      *)
LEMMA CaptureMeans == CaptureInv => DesktopIsReturned
<1>. SUFFICES ASSUME CaptureInv PROVE DesktopIsReturned
  OBVIOUS
<1>. USE DEF CaptureInv
<1>1. LayoutKept
  BY DEF LayoutKept, AtRest, Clean, DeskOwed, OpeningOwed, CalmSteps, Calm, TheirOwn
<1>2. NothingLeftOpen
  <2>. SUFFICES ASSUME at = "idle"
                PROVE  /\ sessions \subseteq (IF orphan THEN {"kwin"} ELSE {})
                                             \cup (IF unanswered THEN {"portal"} ELSE {})
                       /\ ~keepAlive
    BY DEF NothingLeftOpen
  <2>1. active = Absent
    BY DEF RecordInStep, RecordedSteps, MonitorSteps
  <2>. QED
    BY <2>1 DEF ScreenHeld, SessionsOwned, OnConnection, Flags
<1>3. ScreenOutlivesRecording
  <2>. SUFFICES ASSUME NEW held \in {active, taken}, held.connector = Extra,
                       "monitor" \in sessions
                PROVE  Extra \in outputs
    BY DEF ScreenOutlivesRecording
  <2>1. held \in Pairs
    BY Fields, MissingAssumption DEF RecordInStep, Recordable
  <2>2. held = Both(Extra)
    BY <2>1, Fields DEF Pairs
  <2>. QED
    BY <2>1, <2>2 DEF ScreenHeld
<1>4. StreamsTheExtraScreen
  <2>. SUFFICES ASSUME at = "streaming", backend = "mutter", source = "virtual", ~replugged,
                       ~unkept
                PROVE  active.connector = Extra
    BY DEF StreamsTheExtraScreen
  <2>1. active = Both(Extra)
    BY DEF RecordInStep, ScreenFound
  <2>. QED
    BY <2>1, Fields
<1>. QED
  BY <1>1, <1>2, <1>3, <1>4 DEF DesktopIsReturned

(* The inductive invariant: the order of the steps, what is recorded and   *)
(* held at each, and what the cast owes the user there.                    *)
THEOREM CaptureInvariant == CaptureSpec => []CaptureInv
<1>. QED
  BY CaptureStarts, CaptureStep, PTL DEF CaptureSpec

(* A cast gives the desktop back, cancelled, failed or ended at any step:  *)
(* its layout, every session and pipeline, the extra screen never before   *)
(* the session that records it (mutter.rs, portal_start.rs).               *)
THEOREM DesktopReturned == CaptureSpec => []DesktopIsReturned
<1>. QED
  BY CaptureInvariant, CaptureMeans, PTL

-----------------------------------------------------------------------------
(* The mode of a Miracast session. *)

(* The tables hold numbers, and a bit of theirs is a bit of one of them. *)
LEMMA CeaIs ==
    \A i \in 1..Len(Cea) : Cea[i][1] \in Int /\ Cea[i][2] \in Int /\ Cea[i][3] \in Int
  BY DEF Cea

(* What AtBothRates makes of a list of sizes: twice as many modes, in numbers. *)
LEMMA BothRates ==
    ASSUME NEW sizes, Len(sizes) \in Nat,
           \A k \in 1..Len(sizes) : sizes[k][1] \in Int /\ sizes[k][2] \in Int
    PROVE  /\ Len(AtBothRates(sizes)) = 2 * Len(sizes)
           /\ \A i \in 1..2 * Len(sizes) :
                 /\ AtBothRates(sizes)[i][1] \in Int /\ AtBothRates(sizes)[i][2] \in Int
                 /\ AtBothRates(sizes)[i][3] \in Int
<1>1. Len(AtBothRates(sizes)) = 2 * Len(sizes)
  BY DEF AtBothRates
<1>2. ASSUME NEW i \in 1..2 * Len(sizes)
      PROVE  /\ AtBothRates(sizes)[i][1] \in Int /\ AtBothRates(sizes)[i][2] \in Int
             /\ AtBothRates(sizes)[i][3] \in Int
  <2>1. (i + 1) \div 2 \in 1..Len(sizes)
    BY <1>2
  <2>2. AtBothRates(sizes)[i] =
            <<sizes[(i + 1) \div 2][1], sizes[(i + 1) \div 2][2],
              IF i % 2 = 1 THEN 30 ELSE 60, Progressive>>
    BY DEF AtBothRates
  <2>. QED
    BY <2>1, <2>2
<1>. QED
  BY <1>1, <1>2

LEMMA VesaIs ==
    /\ Len(Vesa) \in Nat
   /\ \A i \in 1..Len(Vesa) : Vesa[i][1] \in Int /\ Vesa[i][2] \in Int /\ Vesa[i][3] \in Int
<1>. DEFINE sizes == <<
    <<800, 600>>, <<1024, 768>>, <<1152, 864>>, <<1280, 768>>, <<1280, 800>>, <<1360, 768>>,
    <<1366, 768>>, <<1280, 1024>>, <<1400, 1050>>, <<1440, 900>>, <<1600, 900>>,
    <<1600, 1200>>, <<1680, 1024>>, <<1680, 1050>>, <<1920, 1200>> >>
<1>1. Len(sizes) \in Nat /\ \A k \in 1..Len(sizes) : sizes[k][1] \in Int /\ sizes[k][2] \in Int
  OBVIOUS
<1>2. Vesa = AtBothRates(sizes)
  BY DEF Vesa
<1>. HIDE DEF sizes
<1>3. Len(Vesa) = 2 * Len(sizes) /\ 2 * Len(sizes) \in Nat
  BY <1>1, <1>2, BothRates
<1>. QED
  BY <1>1, <1>2, <1>3, BothRates

LEMMA HandheldIs ==
    /\ Len(Handheld) \in Nat
    /\ \A i \in 1..Len(Handheld) :
          Handheld[i][1] \in Int /\ Handheld[i][2] \in Int /\ Handheld[i][3] \in Int
<1>. DEFINE sizes == <<
    <<800, 480>>, <<854, 480>>, <<864, 480>>, <<640, 360>>, <<960, 540>>, <<848, 480>> >>
<1>1. Len(sizes) \in Nat /\ \A k \in 1..Len(sizes) : sizes[k][1] \in Int /\ sizes[k][2] \in Int
  OBVIOUS
<1>2. Handheld = AtBothRates(sizes)
  BY DEF Handheld
<1>. HIDE DEF sizes
<1>3. Len(Handheld) = 2 * Len(sizes) /\ 2 * Len(sizes) \in Nat
  BY <1>1, <1>2, BothRates
<1>. QED
  BY <1>1, <1>2, <1>3, BothRates


(* There are finitely many bits, each a table and a place in it. *)
LEMMA BitsAre ==
    /\ IsFiniteSet(AllBits)
    /\ \A m \in AllBits : m[1] \in 0..2 /\ m[2] \in 0..31 /\ m = <<m[1], m[2]>> /\ m # NoMode
<1>1. AllBits \in SUBSET ((0..2) \X (0..31))
  BY DEF AllBits
<1>2. IsFiniteSet(0..2) /\ IsFiniteSet(0..31)
  BY FS_Interval, 0 \in Int, 2 \in Int, 31 \in Int
<1>3. IsFiniteSet((0..2) \X (0..31))
  BY <1>2, FS_Product
<1>4. IsFiniteSet(AllBits)
  BY <1>1, <1>3, FS_Subset
<1>. QED
  BY <1>1, <1>4 DEF NoMode

LEMMA NextIndex ==
    ASSUME NEW n \in Nat, NEW j \in 0..31, j < n
    PROVE  j + 1 \in 1..n
  OBVIOUS

(* What a bit names has a size and a rate. *)
LEMMA EntryIs ==
    ASSUME NEW m \in AllBits
    PROVE  /\ Width(m) \in Int /\ Height(m) \in Int /\ Fps(m) \in Int
           /\ Pixels(m) \in Int
<1>1. m[1] \in 0..2 /\ m[2] \in 0..31 /\ m[2] < Len(Tables[m[1] + 1])
  BY BitsAre DEF AllBits
<1>2. Tables[1] = Cea /\ Tables[2] = Vesa /\ Tables[3] = Handheld
  BY DEF Tables
<1>3. \/ Tables[m[1] + 1] = Cea
      \/ Tables[m[1] + 1] = Vesa
      \/ Tables[m[1] + 1] = Handheld
  BY <1>1, <1>2
<1>4. Len(Cea) \in Nat
  BY DEF Cea
<1>5. /\ Entry(m)[1] \in Int /\ Entry(m)[2] \in Int /\ Entry(m)[3] \in Int
  <2>1. CASE Tables[m[1] + 1] = Cea
    <3>0. m[2] < Len(Cea)
      BY <1>1, <2>1, Zenon
    <3>1. m[2] + 1 \in 1..Len(Cea)
      BY <1>1, <1>4, <3>0, NextIndex
    <3>. QED
      BY <2>1, <3>1, CeaIs DEF Entry
  <2>2. CASE Tables[m[1] + 1] = Vesa
    <3>0. m[2] < Len(Vesa)
      BY <1>1, <2>2, Zenon
    <3>1. m[2] + 1 \in 1..Len(Vesa)
      BY <1>1, <3>0, VesaIs, NextIndex
    <3>. QED
      BY <2>2, <3>1, VesaIs DEF Entry
  <2>3. CASE Tables[m[1] + 1] = Handheld
    <3>0. m[2] < Len(Handheld)
      BY <1>1, <2>3, Zenon
    <3>1. m[2] + 1 \in 1..Len(Handheld)
      BY <1>1, <3>0, HandheldIs, NextIndex
    <3>. QED
      BY <2>3, <3>1, HandheldIs DEF Entry
  <2>. QED
    BY <1>3, <2>1, <2>2, <2>3
<1>. QED
  BY <1>5 DEF Width, Height, Fps, Pixels

(* Nothing comes before some element of a finite set, whatever the order.  *)
LEMMA MinimalIs ==
    ASSUME NEW S, IsFiniteSet(S), S # {}, NEW R,
           \A a \in S : <<a, a>> \notin R,
           \A a, b, c \in S : <<a, b>> \in R /\ <<b, c>> \in R => <<a, c>> \in R
    PROVE  \E m \in S : \A o \in S : <<o, m>> \notin R
<1>. DEFINE Above(m) == {o \in S : <<o, m>> \in R}
            Before == OpToRel(<, Nat)
            Count(m) == Cardinality(Above(m))
            Counts == {Count(m) : m \in S}
<1>0. \A m \in S : IsFiniteSet(Above(m))
  BY FS_Subset
<1>1. \A m \in S : Count(m) \in Nat
  BY <1>0, FS_CardinalityType
<1>2. IsWellFoundedOn(Before, Nat)
  BY NatLessThanWellFounded
<1>3. \A x, y \in Nat : y < x => <<y, x>> \in Before
  BY DEF OpToRel
<1>. HIDE DEF Count, Before
<1>4. Counts \in SUBSET Nat /\ Counts # {}
  <2>1. \A k \in Counts : k \in Nat
    BY <1>1
  <2>2. \E m \in S : Count(m) \in Counts
    OBVIOUS
  <2>. QED
    BY <2>1, <2>2
<1>. HIDE DEF Counts
<1>5. PICK n \in Counts : \A k \in Counts : ~(<<k, n>> \in Before)
  BY <1>2, <1>4, WFMin
<1>6. PICK m \in S : n = Count(m)
  BY <1>5 DEF Counts
<1>7. \A o \in S : <<o, m>> \notin R
  <2>. SUFFICES ASSUME NEW o \in S, <<o, m>> \in R
                PROVE  FALSE
    OBVIOUS
  <2>1. Above(o) \in SUBSET Above(m) /\ o \in Above(m) /\ o \notin Above(o)
    OBVIOUS
  <2>2. Count(o) < Count(m)
    <3>1. /\ Count(o) <= Count(m)
          /\ Count(o) = Count(m) => Above(o) = Above(m)
      BY <1>0, <2>1, FS_Subset DEF Count
    <3>2. Above(o) # Above(m)
      BY <2>1
    <3>. QED
      BY <1>1, <3>1, <3>2
  <2>3. Count(o) \in Counts
    BY DEF Counts
  <2>. QED
    BY <1>1, <1>3, <1>5, <1>6, <2>2, <2>3
<1>. QED
  BY <1>7

(* Every set of modes that is not empty has a first and a last in table order. *)
LEMMA EndsOfTable ==
    ASSUME NEW modes \in SUBSET AllBits, modes # {}
    PROVE  FirstOf(modes) \in modes /\ LastOf(modes) \in modes
<1>. DEFINE Early == {p \in modes \X modes : ~ InTableOrder(p[2], p[1])}
            Late == {p \in modes \X modes : ~ InTableOrder(p[1], p[2])}
<1>1. \A a, b \in modes : (<<a, b>> \in Early <=> ~ InTableOrder(b, a))
                          /\ (<<a, b>> \in Late <=> ~ InTableOrder(a, b))
  OBVIOUS
<1>2. IsFiniteSet(modes)
  BY BitsAre, FS_Subset
<1>3. \A a \in modes : a[1] \in Int /\ a[2] \in Int
  BY BitsAre
<1>. HIDE DEF Early, Late
<1>4. \A a \in modes : <<a, a>> \notin Early /\ <<a, a>> \notin Late
  BY <1>1, <1>3 DEF InTableOrder
<1>5. \A a, b, c \in modes :
         /\ <<a, b>> \in Early /\ <<b, c>> \in Early => <<a, c>> \in Early
         /\ <<a, b>> \in Late /\ <<b, c>> \in Late => <<a, c>> \in Late
  <2>. SUFFICES ASSUME NEW a \in modes, NEW b \in modes, NEW c \in modes
                PROVE  /\ <<a, b>> \in Early /\ <<b, c>> \in Early => <<a, c>> \in Early
                       /\ <<a, b>> \in Late /\ <<b, c>> \in Late => <<a, c>> \in Late
    OBVIOUS
  <2>1. <<a, b>> \in Early /\ <<b, c>> \in Early => <<a, c>> \in Early
    BY <1>1, <1>3 DEF InTableOrder
  <2>2. <<a, b>> \in Late /\ <<b, c>> \in Late => <<a, c>> \in Late
    BY <1>1, <1>3 DEF InTableOrder
  <2>. QED
    BY <2>1, <2>2
<1>6. \E m \in modes : \A o \in modes : <<o, m>> \notin Early
  <2>1. \A a \in modes : <<a, a>> \notin Early
    BY <1>4
  <2>2. \A a, b, c \in modes :
           <<a, b>> \in Early /\ <<b, c>> \in Early => <<a, c>> \in Early
    BY <1>5
  <2>. QED
    BY <1>2, <2>1, <2>2, MinimalIs
<1>7. \E m \in modes : \A o \in modes : <<o, m>> \notin Late
  <2>1. \A a \in modes : <<a, a>> \notin Late
    BY <1>4
  <2>2. \A a, b, c \in modes :
           <<a, b>> \in Late /\ <<b, c>> \in Late => <<a, c>> \in Late
    BY <1>5
  <2>. QED
    BY <1>2, <2>1, <2>2, MinimalIs
<1>8. /\ \E m \in modes : \A o \in modes : InTableOrder(m, o)
      /\ \E m \in modes : \A o \in modes : InTableOrder(o, m)
  BY <1>1, <1>6, <1>7
<1>. QED
  BY <1>8 DEF FirstOf, LastOf

(* A set of modes that is not empty has one nothing is larger than. *)
LEMMA LargestIs ==
    ASSUME NEW modes \in SUBSET AllBits, modes # {}
    PROVE  Largest(modes) # {} /\ Largest(modes) \subseteq modes
<1>. DEFINE R == {p \in modes \X modes : LargestFirst(p[1], p[2])}
<1>1. \A a, b \in modes : <<a, b>> \in R <=> LargestFirst(a, b)
  OBVIOUS
<1>2. IsFiniteSet(modes)
  BY BitsAre, FS_Subset
<1>3. \A a \in modes : Pixels(a) \in Int /\ Fps(a) \in Int
  BY EntryIs
<1>. HIDE DEF R
<1>4. \A a \in modes : <<a, a>> \notin R
  BY <1>1, <1>3 DEF LargestFirst
<1>5. \A a, b, c \in modes : <<a, b>> \in R /\ <<b, c>> \in R => <<a, c>> \in R
  BY <1>1, <1>3 DEF LargestFirst
<1>6. \E m \in modes : \A o \in modes : <<o, m>> \notin R
  BY <1>2, <1>4, <1>5, MinimalIs
<1>. QED
  BY <1>1, <1>6 DEF Largest

(* ... and, for a screen whose size is known, one nothing is closer than. *)
LEMMA ClosestIs ==
    ASSUME NEW modes \in SUBSET AllBits, modes # {},
           NEW screen \in Nat \X Nat, screen[1] # 0, screen[2] # 0
    PROVE  Closest(modes, screen) # {} /\ Closest(modes, screen) \subseteq modes
<1>. DEFINE R == {p \in modes \X modes : Closer(p[1], p[2], screen)}
            diff(m) == AspectDiff(m, screen)
<1>1. \A a, b \in modes : <<a, b>> \in R <=> Closer(a, b, screen)
  OBVIOUS
<1>2. IsFiniteSet(modes)
  BY BitsAre, FS_Subset
<1>3. \A a \in modes : Pixels(a) \in Int /\ Fps(a) \in Int
  BY EntryIs
<1>4. ASSUME NEW m \in modes PROVE diff(m) \in Int
  <2>1. Width(m) \in Int /\ Height(m) \in Int
    BY EntryIs
  <2>. DEFINE cross == Width(m) * screen[2] - screen[1] * Height(m)
              size == IF cross < 0 THEN -cross ELSE cross
              area == screen[1] * screen[2]
  <2>2. screen[1] \in Nat /\ screen[2] \in Nat
    OBVIOUS
  <2>3. cross \in Int
    BY <2>1, <2>2
  <2>4. area \in Nat /\ area > 0
    BY <2>2
  <2>5. size * 1000 \in Int
    BY <2>3
  <2>6. diff(m) = (size * 1000) \div area
    BY DEF AspectDiff
  <2>. HIDE DEF cross, size, area, diff
  <2>. QED
    BY <2>4, <2>5, <2>6
<1>5. \A a, b \in modes :
         Closer(a, b, screen) <=>
            (diff(a) < diff(b) \/ (diff(a) = diff(b) /\ LargestFirst(a, b)))
  BY DEF Closer
<1>. HIDE DEF R, diff
<1>6. \A a \in modes : diff(a) \in Int
  BY <1>4
<1>7. \A a \in modes : <<a, a>> \notin R
  BY <1>1, <1>3, <1>5, <1>6 DEF LargestFirst
<1>8. \A a, b, c \in modes : <<a, b>> \in R /\ <<b, c>> \in R => <<a, c>> \in R
  BY <1>1, <1>3, <1>5, <1>6 DEF LargestFirst
<1>9. \E m \in modes : \A o \in modes : <<o, m>> \notin R
  BY <1>2, <1>7, <1>8, MinimalIs
<1>. QED
  BY <1>1, <1>9 DEF Closest

(* The best of the offer is sendable, and missing only when nothing is. *)
LEMMA BestModeIs ==
    ASSUME NEW modes \in SUBSET AllBits
    PROVE  IF Sendable(modes) = {} THEN BestMode(modes) = NoMode
           ELSE BestMode(modes) \in Sendable(modes)
<1>1. Sendable(modes) \in SUBSET AllBits /\ Sendable({}) = {}
  BY DEF Sendable
<1>2. CASE Sendable(modes) = {}
  <2>1. Largest({}) = {}
    BY DEF Largest
  <2>. QED
    BY <1>2, <2>1 DEF BestMode, LastOf
<1>3. CASE Sendable(modes) # {}
  <2>1. /\ Largest(Sendable(modes)) # {}
        /\ Largest(Sendable(modes)) \subseteq Sendable(modes)
    BY <1>1, <1>3, LargestIs
  <2>2. LastOf(Largest(Sendable(modes))) \in Largest(Sendable(modes))
    BY <1>1, <2>1, EndsOfTable
  <2>. QED
    BY <1>3, <2>1, <2>2 DEF BestMode
<1>. QED
  BY <1>2, <1>3

(* preferred_mode answers with an offered mode that suits, if there is one. *)
LEMMA PreferredIs ==
    ASSUME NEW offer \in SUBSET AllBits, NEW native, NEW profile, NEW screen \in Nat \X Nat,
           NEW limit, NEW fps
    PROVE  LET suits == Sendable(Compatible(offer, limit, fps))
               caps == [modes |-> offer, native |-> native, profile |-> profile]
           IN  IF suits = {} THEN PreferredMode(caps, screen, limit, fps) = NoMode
               ELSE PreferredMode(caps, screen, limit, fps) \in suits
<1>. DEFINE modes == Compatible(offer, limit, fps)
            caps == [modes |-> offer, native |-> native, profile |-> profile]
            rest == [modes |-> modes, native |-> native, profile |-> profile]
            mode == BestModeFor(rest, screen, limit)
<1>1. PreferredMode(caps, screen, limit, fps) = mode
  BY DEF PreferredMode
<1>2. modes \in SUBSET AllBits /\ Sendable(modes) \in SUBSET AllBits
  BY DEF Compatible, Within, Sendable
<1>3. Within(modes, limit) = modes /\ Within(Sendable(modes), limit) = Sendable(modes)
  BY DEF Compatible, Within, Sendable
<1>4. BestModeWithin(modes, limit) = BestMode(modes)
  BY <1>3 DEF BestModeWithin
<1>5. /\ rest.modes = modes /\ rest.native = native
  OBVIOUS
<1>. HIDE DEF rest
<1>6. \/ native \in Sendable(modes) /\ mode = native
      \/ 0 \in {screen[1], screen[2]} /\ mode = BestMode(modes)
      \/ 0 \notin {screen[1], screen[2]} /\ mode = FirstOf(Closest(Sendable(modes), screen))
  BY <1>3, <1>4, <1>5 DEF BestModeFor
<1>7. CASE Sendable(modes) = {}
  <2>1. Closest({}, screen) = {}
    BY DEF Closest
  <2>2. mode = NoMode
    BY <1>2, <1>6, <1>7, <2>1, BestModeIs DEF FirstOf
  <2>. QED
    BY <1>1, <1>7, <2>2
<1>8. CASE Sendable(modes) # {}
  <2>1. CASE native \in Sendable(modes) /\ mode = native
    BY <1>1, <1>8, <2>1
  <2>2. CASE mode = BestMode(modes)
    BY <1>1, <1>2, <1>8, <2>2, BestModeIs
  <2>3. CASE 0 \notin {screen[1], screen[2]} /\ mode = FirstOf(Closest(Sendable(modes), screen))
    <3>1. /\ Closest(Sendable(modes), screen) # {}
          /\ Closest(Sendable(modes), screen) \subseteq Sendable(modes)
      BY <1>2, <1>8, <2>3, ClosestIs
    <3>2. mode \in Closest(Sendable(modes), screen)
      BY <1>2, <2>3, <3>1, EndsOfTable
    <3>. QED
      BY <1>1, <1>8, <3>1, <3>2
  <2>. QED
    BY <1>6, <2>1, <2>2, <2>3
<1>. QED
  BY <1>7, <1>8

(* A sink that reads M4 reads the mode that was packed into it. *)
LEMMA ReadBack ==
    ASSUME NEW m \in AllBits, NEW profile
    PROVE  /\ ParseVideoFormats(M4VideoFormats(m, profile)).modes = {m}
           /\ ParseVideoFormats(M4VideoFormats(m, profile)).native = m
<1>1. m[1] \in 0..2 /\ m[2] \in 0..31 /\ m = <<m[1], m[2]>>
  BY BitsAre
<1>2. (m[2] * 8 + m[1]) % 8 = m[1] /\ (m[2] * 8 + m[1]) \div 8 = m[2]
  BY <1>1
<1>3. <<NativeField(m) % 8, NativeField(m) \div 8>> = m
  BY <1>1, <1>2 DEF NativeField
<1>4. ModeFromNative(NativeField(m)) = m
  BY <1>3 DEF ModeFromNative
<1>5. DecodeTable({m}) = {m}
  BY DEF DecodeTable
<1>. QED
  BY <1>4, <1>5 DEF ParseVideoFormats, M4VideoFormats

(* What the parser leaves of an answer, and what the session knows. *)
ModeTyped ==
    /\ request.source \in Nat \X Nat
    /\ answer.formats.short => answer.formats.bits = {}
    /\ m4.kind \in {"none", "error", "m4"}

ModeInv == ModeTyped /\ SinkReadsThePick

(* An M4 that is not sent, one that failed and one that was sent differ. *)
LEMMA AnswerKinds ==
    /\ NotSent.kind = "none"
    /\ \A why : Failed(why).kind = "error"
    /\ \A line : [kind |-> "m4", line |-> line].kind = "m4"
    /\ Failed("no AAC") # Failed("no mode")
<1>1. Failed("no AAC").why = "no AAC" /\ Failed("no mode").why = "no mode"
  BY DEF Failed
<1>2. Failed("no AAC") # Failed("no mode")
  BY <1>1
<1>. QED
  BY <1>2 DEF NotSent, Failed

LEMMA ModeStarts == ModeInit => ModeInv
<1>. SUFFICES ASSUME ModeInit
              PROVE  ModeInv
  OBVIOUS
<1>1. request \in [source : Sources, limit : Limits, fps : Rates]
  BY DEF ModeInit
<1>2. request.source \in Nat \X Nat
  BY <1>1, SizesAreNumbers
<1>3. answer.formats.short => answer.formats.bits = {}
  BY DEF ModeInit
<1>4. m4.kind = "none" /\ m4 # Failed("no mode")
  <2>1. m4 = NotSent
    BY DEF ModeInit
  <2>. QED
    BY <2>1, AnswerKinds
<1>. QED
  BY <1>2, <1>3, <1>4 DEF ModeInv, ModeTyped, SinkReadsThePick

LEMMA ModeSteps == ModeInv /\ [ModeNext]_modeVars => ModeInv'
<1>. SUFFICES ASSUME ModeInv, [ModeNext]_modeVars
              PROVE  ModeInv'
  OBVIOUS
<1>1. CASE UNCHANGED modeVars
  BY <1>1 DEF ModeInv, ModeTyped, SinkReadsThePick, Offered, Suits, modeVars
<1>2. CASE ChooseFormat
  <2>. DEFINE caps == ParseVideoFormats(answer.formats)
              mode == PreferredMode(caps, request.source, request.limit, request.fps)
              suits == Sendable(Compatible(Offered, request.limit, request.fps))
  <2>1. /\ caps.modes = Offered /\ Offered \in SUBSET AllBits
        /\ caps = [modes |-> Offered, native |-> caps.native, profile |-> caps.profile]
    <3>1. CASE answer.formats.short
      BY <3>1 DEF ModeInv, ModeTyped, ParseVideoFormats, Offered, DecodeTable
    <3>2. CASE ~ answer.formats.short
      BY <3>2 DEF ParseVideoFormats, Offered, DecodeTable
    <3>. QED
      BY <3>1, <3>2
  <2>2. \A m : m \in suits <=> m \in Offered /\ Suits(m)
    BY DEF Sendable, Compatible, Within, Suits
  <2>3. /\ mode = NoMode => suits = {}
        /\ mode # NoMode => mode \in suits
    <3>1. request.source \in Nat \X Nat
      BY DEF ModeInv, ModeTyped
    <3>2. NoMode \notin suits
      BY <2>1, <2>2, BitsAre
    <3>. HIDE DEF caps
    <3>. QED
      BY <2>1, <3>1, <3>2, PreferredIs
  <2>4. answer' = answer /\ request' = request
    BY <1>2 DEF ChooseFormat
  <2>5. \/ m4' = Failed("no AAC")
        \/ m4' = Failed("no mode") /\ mode = NoMode
        \/ /\ mode # NoMode /\ picked' = mode
           /\ m4' = [kind |-> "m4", line |-> M4VideoFormats(mode, caps.profile)]
    BY <1>2 DEF ChooseFormat
  <2>6. m4'.kind \in {"none", "error", "m4"}
    BY <2>5, AnswerKinds
  <2>7. ModeTyped'
    BY <2>4, <2>6 DEF ModeInv, ModeTyped
  <2>8. Offered' = Offered /\ \A m : Suits(m)' <=> Suits(m)
    BY <2>4 DEF Offered, Suits
  <2>9. CASE m4'.kind = "m4"
    <3>1. /\ mode # NoMode /\ picked' = mode
          /\ m4' = [kind |-> "m4", line |-> M4VideoFormats(mode, caps.profile)]
      BY <2>9, <2>5, AnswerKinds
    <3>2. picked' \in Offered /\ Suits(picked') /\ picked' \in AllBits
      BY <2>1, <2>2, <2>3, <3>1
    <3>3. /\ ParseVideoFormats(m4'.line).modes = {picked'}
          /\ ParseVideoFormats(m4'.line).native = picked'
      BY <3>1, <3>2, ReadBack
    <3>4. m4' # Failed("no mode")
      BY <2>9, AnswerKinds
    <3>. QED
      BY <2>4, <2>7, <3>2, <3>3, <3>4 DEF ModeInv, SinkReadsThePick, Offered, Suits
  <2>10. CASE m4'.kind # "m4"
    <3>1. m4' = Failed("no mode") => mode = NoMode
      BY <2>10, <2>5, AnswerKinds
    <3>2. m4' = Failed("no mode") => ~ \E m \in Offered : Suits(m)
      BY <2>2, <2>3, <3>1
    <3>. QED
      BY <2>4, <2>7, <2>10, <3>2 DEF ModeInv, SinkReadsThePick, Offered, Suits
  <2>. QED
    BY <2>9, <2>10
<1>. QED
  BY <1>1, <1>2 DEF ModeNext

(* For any bitmaps and native byte a sink sends, any screen and any limit of  *)
(* the session: what is picked is offered and suits, the sink reads that mode *)
(* back from M4, and a refusal means that nothing suits (choose_format).      *)
THEOREM PickRead == ModeSpec => []SinkReadsThePick
<1>1. ModeInv => SinkReadsThePick
  BY DEF ModeInv
<1>. QED
  BY <1>1, ModeStarts, ModeSteps, PTL DEF ModeSpec

-----------------------------------------------------------------------------
(* Encoders, their priorities, and the order they are tried in. *)
LEMMA PriorityIs ==
    /\ \A e \in Encoders : Priority(e) \in Nat
    /\ \A e, o \in Encoders : Priority(e) = Priority(o) => e = o
    /\ NoEncoder \notin Encoders
  BY KnownEncoders DEF AllEncoders, Priority, NoEncoder

(* A list of encoders, each once and the best first; every set has one. *)
Ranking(order, encoders) ==
    /\ \A e \in encoders : \E i \in 1..Cardinality(encoders) : order[i] = e
    /\ \A i, j \in 1..Cardinality(encoders) :
          i < j => Priority(order[i]) > Priority(order[j])

Rankings(encoders) ==
    {order \in [1..Cardinality(encoders) -> encoders] : Ranking(order, encoders)}

LEMMA EncodersAreFinite ==
    ASSUME NEW S \in SUBSET Encoders
    PROVE  IsFiniteSet(S) /\ Cardinality(S) \in Nat
<1>1. IsFiniteSet(AllEncoders)
  <2>1. IsFiniteSet({"va"}) /\ IsFiniteSet({"vaapi"}) /\ IsFiniteSet({"nv"})
        /\ IsFiniteSet({"v4l2"}) /\ IsFiniteSet({"x264"}) /\ IsFiniteSet({"openh264"})
    BY FS_Singleton
  <2>2. /\ IsFiniteSet({"va"} \cup {"vaapi"}) /\ IsFiniteSet({"nv"} \cup {"v4l2"})
        /\ IsFiniteSet({"x264"} \cup {"openh264"})
    BY <2>1, FS_Union
  <2>3. IsFiniteSet(({"va"} \cup {"vaapi"}) \cup ({"nv"} \cup {"v4l2"}))
    BY <2>2, FS_Union
  <2>4. IsFiniteSet((({"va"} \cup {"vaapi"}) \cup ({"nv"} \cup {"v4l2"}))
                        \cup ({"x264"} \cup {"openh264"}))
    BY <2>2, <2>3, FS_Union
  <2>5. AllEncoders = (({"va"} \cup {"vaapi"}) \cup ({"nv"} \cup {"v4l2"}))
                        \cup ({"x264"} \cup {"openh264"})
    BY DEF AllEncoders
  <2>. QED
    BY <2>4, <2>5
<1>. QED
  BY <1>1, KnownEncoders, FS_Subset, FS_CardinalityType

LEMMA RankingsExist ==
    ASSUME NEW S \in SUBSET Encoders
    PROVE  Rankings(S) # {}
<1>. DEFINE Unlisted == {B \in SUBSET Encoders : Rankings(B) = {}}
            Sizes == {Cardinality(B) : B \in Unlisted}
            Before == OpToRel(<, Nat)
<1>1. SUFFICES ASSUME Unlisted # {}
               PROVE  FALSE
  OBVIOUS
<1>2. IsWellFoundedOn(Before, Nat)
  BY NatLessThanWellFounded
<1>3. \A x, y \in Nat : y < x => <<y, x>> \in Before
  BY DEF OpToRel
<1>4. \A B \in Unlisted : B \in SUBSET Encoders /\ Rankings(B) = {}
  OBVIOUS
<1>5. \A B \in SUBSET Encoders : Rankings(B) = {} => B \in Unlisted
  OBVIOUS
<1>. HIDE DEF Unlisted, Before
<1>6. Sizes \in SUBSET Nat /\ Sizes # {}
  BY <1>1, <1>4, EncodersAreFinite
<1>7. \A B \in Unlisted : Cardinality(B) \in Sizes
  OBVIOUS
<1>8. \A n \in Sizes : \E B \in Unlisted : n = Cardinality(B)
  OBVIOUS
<1>. HIDE DEF Sizes
<1>9. PICK n \in Sizes : \A k \in Sizes : ~(<<k, n>> \in Before)
  BY <1>2, <1>6, WFMin
<1>10. PICK B \in Unlisted : n = Cardinality(B)
  BY <1>8
<1>11. B \in SUBSET Encoders /\ Rankings(B) = {} /\ IsFiniteSet(B) /\ Cardinality(B) \in Nat
  BY <1>4, EncodersAreFinite
<1>12. B # {}
  <2>1. SUFFICES ASSUME B = {}
                 PROVE  FALSE
    OBVIOUS
  <2>2. Cardinality(B) = 0
    BY <2>1, FS_EmptySet
  <2>. DEFINE none == [i \in 1..Cardinality(B) |-> i]
  <2>3. none \in [1..Cardinality(B) -> B]
    BY <2>2
  <2>4. none \in Rankings(B)
    BY <2>1, <2>2, <2>3 DEF Rankings, Ranking
  <2>. QED
    BY <1>11, <2>4
<1>13. PICK last \in B : \A o \in B : Priority(last) <= Priority(o)
  <2>. DEFINE R == {p \in B \X B : Priority(p[1]) < Priority(p[2])}
  <2>1. \A a, b \in B : <<a, b>> \in R <=> Priority(a) < Priority(b)
    OBVIOUS
  <2>2. \A a \in B : Priority(a) \in Nat
    BY <1>11, PriorityIs
  <2>. HIDE DEF R
  <2>3. /\ \A a \in B : <<a, a>> \notin R
        /\ \A a, b, c \in B : <<a, b>> \in R /\ <<b, c>> \in R => <<a, c>> \in R
    BY <2>1, <2>2
  <2>4. \E m \in B : \A o \in B : <<o, m>> \notin R
    BY <1>11, <1>12, <2>3, MinimalIs
  <2>. QED
    <3>1. PICK m \in B : \A o \in B : <<o, m>> \notin R
      BY <2>4
    <3>2. \A o \in B : Priority(m) <= Priority(o)
      <4>1. ASSUME NEW o \in B
            PROVE  Priority(m) <= Priority(o)
        <5>1. ~ (Priority(o) < Priority(m))
          BY <2>1, <3>1, Zenon
        <5>. QED
          BY <2>2, <5>1
      <4>. QED
        BY <4>1
    <3>. QED
      BY <3>2
<1>. DEFINE C == B \ {last}
<1>14. /\ C \in SUBSET Encoders /\ Cardinality(C) = Cardinality(B) - 1
       /\ Cardinality(C) \in Nat
  BY <1>11, <1>13, FS_RemoveElement, EncodersAreFinite
<1>15. Rankings(C) # {}
  <2>1. C \notin Unlisted
    <3>1. Cardinality(C) < Cardinality(B)
      BY <1>11, <1>14
    <3>2. <<Cardinality(C), n>> \in Before
      BY <1>3, <1>10, <1>11, <1>14, <3>1
    <3>. HIDE DEF C
    <3>. QED
      BY <1>7, <1>9, <3>2
  <2>. QED
    BY <1>5, <1>14, <2>1
<1>16. PICK order \in Rankings(C) : TRUE
  BY <1>15
<1>. DEFINE size == Cardinality(B)
            longer == [i \in 1..size |-> IF i = size THEN last ELSE order[i]]
<1>17. /\ order \in [1..size - 1 -> C]
       /\ \A e \in C : \E i \in 1..size - 1 : order[i] = e
       /\ \A i, j \in 1..size - 1 : i < j => Priority(order[i]) > Priority(order[j])
  BY <1>14, <1>16 DEF Rankings, Ranking
<1>18. size \in Nat /\ size >= 1 /\ size \in 1..size
  BY <1>11, <1>14
<1>19. longer \in [1..size -> B]
  BY <1>13, <1>17, <1>18
<1>20. \A e \in B : \E i \in 1..size : longer[i] = e
  <2>1. ASSUME NEW e \in C
        PROVE  \E i \in 1..size : longer[i] = e
    <3>1. PICK i \in 1..size - 1 : order[i] = e
      BY <1>17
    <3>2. i \in 1..size /\ i # size
      BY <1>18, <3>1
    <3>. QED
      BY <3>1, <3>2
  <2>2. longer[size] = last
    BY <1>18
  <2>. QED
    BY <1>18, <2>1, <2>2
<1>21. \A i, j \in 1..size : i < j => Priority(longer[i]) > Priority(longer[j])
  <2>1. ASSUME NEW i \in 1..size, NEW j \in 1..size, i < j
        PROVE  Priority(longer[i]) > Priority(longer[j])
    <3>1. i \in 1..size - 1 /\ longer[i] = order[i] /\ order[i] \in C
      BY <1>17, <1>18, <2>1
    <3>2. CASE j = size
      <4>1. order[i] # last /\ order[i] \in Encoders /\ last \in Encoders
        BY <1>11, <1>13, <3>1
      <4>2. Priority(order[i]) # Priority(last) /\ Priority(order[i]) \in Nat
            /\ Priority(last) \in Nat
        BY <4>1, PriorityIs
      <4>3. Priority(last) <= Priority(order[i])
        BY <1>13, <3>1
      <4>4. longer[j] = last
        BY <3>2
      <4>. QED
        BY <3>1, <4>2, <4>3, <4>4
    <3>3. CASE j # size
      <4>1. j \in 1..size - 1 /\ longer[j] = order[j]
        BY <1>18, <2>1, <3>3
      <4>. QED
        BY <1>17, <2>1, <3>1, <4>1
    <3>. QED
      BY <3>2, <3>3
  <2>. QED
    BY <2>1
<1>22. longer \in Rankings(B)
  BY <1>19, <1>20, <1>21 DEF Rankings, Ranking
<1>. QED
  BY <1>11, <1>22

(* ... which is what the candidates are. *)
LEMMA RankedIs ==
    ASSUME NEW S \in SUBSET Encoders
    PROVE  Ranked(S) \in Rankings(S)
<1>1. Ranked(S) = CHOOSE order \in [1..Cardinality(S) -> S] : Ranking(order, S)
  BY DEF Ranked, Ranking
<1>2. \E order \in [1..Cardinality(S) -> S] : Ranking(order, S)
  BY RankingsExist DEF Rankings
<1>. QED
  BY <1>1, <1>2 DEF Rankings

EncoderTyped ==
    /\ machine \in [cards : Cards, installed : SUBSET Encoders,
                    forced : {NoEncoder, "x264"}, does : [Encoders -> Behaviours]]
    /\ acceleration \in BOOLEAN
    /\ session \in [by : {"none", "cast", "miracast", "browser"},
                    at : {"idle", "next", "watched", "running", "failed"},
                    left : Seq(Encoders), allowed : BOOLEAN]

(* The candidates, each once and the best first. *)
InOrder(list, allowed) ==
    /\ \A i \in 1..Len(list) : Candidate(list[i], allowed)
    /\ \A i, j \in 1..Len(list) : i < j => Priority(list[i]) > Priority(list[j])

Lists(list, e) == \E i \in 1..Len(list) : list[i] = e

(* What a session has still to try is in order, and what it no longer has    *)
(* was tried.                                                                 *)
RestInOrder ==
    session.at \in {"next", "watched"} =>
        /\ InOrder(session.left, session.allowed)
        /\ \A e \in Encoders :
              Candidate(e, session.allowed) => Tried(e) \/ Lists(session.left, e)

(* At most the pipeline being watched or run is open. *)
OneOpen ==
    /\ session.at \in {"idle", "next", "failed"} => open = {} /\ runs = NoEncoder
    /\ session.at = "watched" =>
        /\ session.left # <<>> /\ open \subseteq {Head(session.left)} /\ runs = NoEncoder
    /\ session.by = "browser" => session.at = "running"

EncoderInv == EncoderTyped /\ RestInOrder /\ OneOpen /\ FirstWorkingOne

LEMMA CandidatesAre ==
    ASSUME EncoderTyped, NEW allowed \in BOOLEAN
    PROVE  /\ Candidates(machine, allowed) \in Seq(Encoders)
           /\ InOrder(Candidates(machine, allowed), allowed)
           /\ \A e \in Encoders :
                 Candidate(e, allowed) => Lists(Candidates(machine, allowed), e)
<1>. DEFINE fit == AllowedOn(machine, allowed)
            forced == ForcedEncoder(machine)
<1>1. machine.installed \in SUBSET Encoders
  BY DEF EncoderTyped
<1>2. fit \in SUBSET Encoders
  BY <1>1 DEF AllowedOn
<1>3. forced # NoEncoder => forced \in Encoders
  BY <1>1 DEF ForcedEncoder
<1>4. CASE forced # NoEncoder
  <2>1. Candidates(machine, allowed) = <<forced>>
    BY <1>4 DEF Candidates
  <2>2. \A e : Candidate(e, allowed) <=> e = forced
    BY <1>4 DEF Candidate
  <2>. HIDE DEF forced
  <2>3. <<forced>> \in Seq(Encoders) /\ Len(<<forced>>) = 1 /\ <<forced>>[1] = forced
    BY <1>3, <1>4
  <2>. QED
    BY <2>1, <2>2, <2>3 DEF InOrder, Lists
<1>5. CASE forced = NoEncoder
  <2>. DEFINE order == Ranked(fit)
              size == Cardinality(fit)
  <2>1. Candidates(machine, allowed) = order
    BY <1>5 DEF Candidates
  <2>2. order \in [1..size -> fit] /\ Ranking(order, fit) /\ size \in Nat
    BY <1>2, RankedIs, EncodersAreFinite DEF Rankings
  <2>3. \A e : Candidate(e, allowed) <=> e \in fit
    BY <1>5 DEF Candidate
  <2>. HIDE DEF fit, order, size
  <2>4. order \in Seq(Encoders) /\ Len(order) = size
    BY <1>2, <2>2
  <2>5. size = Cardinality(fit)
    BY DEF size
  <2>. QED
    BY <2>1, <2>2, <2>3, <2>4, <2>5 DEF Ranking, InOrder, Lists
<1>. QED
  BY <1>4, <1>5

LEMMA EncoderStarts == EncoderInit => EncoderInv
<1>. SUFFICES ASSUME EncoderInit
              PROVE  EncoderInv
  OBVIOUS
<1>1. NotEncoding = [by |-> "none", at |-> "idle", left |-> <<>>, allowed |-> FALSE]
      /\ <<>> \in Seq(Encoders)
  BY DEF NotEncoding
<1>2. EncoderTyped
  BY <1>1 DEF EncoderInit, EncoderTyped
<1>. QED
  BY <1>1, <1>2 DEF EncoderInit, EncoderInv, RestInOrder, OneOpen, FirstWorkingOne

(* What is left after the first was tried is still in order. *)
LEMMA RestAfterTry ==
    ASSUME NEW list \in Seq(Encoders), list # <<>>, NEW allowed, InOrder(list, allowed)
    PROVE  /\ Tail(list) \in Seq(Encoders) /\ Head(list) \in Encoders
           /\ InOrder(Tail(list), allowed) /\ Candidate(Head(list), allowed)
           /\ \A e : Lists(list, e) => e = Head(list) \/ Lists(Tail(list), e)
           /\ \A e : Lists(list, e) => e = Head(list) \/ Priority(Head(list)) > Priority(e)
<1>1. /\ Len(list) \in Nat /\ Len(list) >= 1 /\ Head(list) = list[1] /\ 1 \in 1..Len(list)
      /\ list[1] \in Encoders
  OBVIOUS
<1>2. /\ Tail(list) \in Seq(Encoders) /\ Len(Tail(list)) = Len(list) - 1
      /\ \A i \in 1..Len(list) - 1 : Tail(list)[i] = list[i + 1]
  OBVIOUS
<1>3. InOrder(Tail(list), allowed)
  <2>1. \A i \in 1..Len(list) - 1 : i + 1 \in 1..Len(list)
    BY <1>1
  <2>2. \A i, j \in 1..Len(list) - 1 : i < j => i + 1 < j + 1
    BY <1>1
  <2>. QED
    BY <1>2, <2>1, <2>2 DEF InOrder
<1>4. ASSUME NEW e, Lists(list, e)
      PROVE  /\ e = Head(list) \/ Lists(Tail(list), e)
             /\ e = Head(list) \/ Priority(Head(list)) > Priority(e)
  <2>1. PICK i \in 1..Len(list) : list[i] = e
    BY <1>4 DEF Lists
  <2>2. CASE i = 1
    BY <1>1, <2>1, <2>2
  <2>3. CASE i # 1
    <3>1. i - 1 \in 1..Len(list) - 1 /\ Tail(list)[i - 1] = list[(i - 1) + 1] /\ 1 < i
      BY <1>1, <1>2, <2>3
    <3>2. Lists(Tail(list), e)
      BY <1>2, <2>1, <3>1 DEF Lists
    <3>3. Priority(list[1]) > Priority(list[i])
      BY <1>1, <3>1 DEF InOrder
    <3>. QED
      BY <1>1, <2>1, <3>2, <3>3
  <2>. QED
    BY <2>2, <2>3
<1>. QED
  BY <1>1, <1>2, <1>3, <1>4 DEF InOrder

LEMMA EncoderStutters == EncoderInv /\ UNCHANGED encoderVars => EncoderInv'
<1>. SUFFICES ASSUME EncoderInv, UNCHANGED encoderVars
              PROVE  EncoderInv'
  OBVIOUS
<1>. USE DEF encoderVars
<1>1. EncoderTyped'
  BY DEF EncoderInv, EncoderTyped
<1>2. RestInOrder'
  BY DEF EncoderInv, RestInOrder, InOrder, Lists, Tried, Candidate
<1>3. OneOpen'
  BY DEF EncoderInv, OneOpen
<1>4. FirstWorkingOne'
  BY DEF EncoderInv, FirstWorkingOne, Tried, Candidate
<1>. QED
  BY <1>1, <1>2, <1>3, <1>4 DEF EncoderInv

(* What a session looks like in any of its steps.                            *)
LEMMA SessionIs ==
    ASSUME EncoderTyped
    PROVE  /\ session.left \in Seq(Encoders) /\ session.allowed \in BOOLEAN
           /\ \A e \in Encoders : machine.does[e] \in Behaviours
           /\ session \in [by : {"none", "cast", "miracast", "browser"},
                           at : {"idle", "next", "watched", "running", "failed"},
                           left : Seq(Encoders), allowed : BOOLEAN]
<1>1. machine.does \in [Encoders -> Behaviours]
  BY DEF EncoderTyped
<1>. QED
  BY <1>1 DEF EncoderTyped

LEMMA NotEncodingIs ==
    NotEncoding.by = "none" /\ NotEncoding.at = "idle" /\ NotEncoding.left = <<>>
  BY DEF NotEncoding

LEMMA EncoderSteps == EncoderInv /\ EncoderNext => EncoderInv'
<1>. SUFFICES ASSUME EncoderInv, EncoderNext
              PROVE  EncoderInv'
  OBVIOUS
<1>. USE DEF EncoderInv
<1>1. machine' = machine
  BY DEF EncoderNext, Begins, Tries, FrameSeen, NoFrame, NoneWorks, Shares, EncodingEnds, Toggles
<1>2. \A e, allowed : (Candidate(e, allowed)' <=> Candidate(e, allowed)) /\ (Tried(e)' <=> Tried(e))
  BY <1>1 DEF Candidate, Tried
<1>3. \A list, allowed : InOrder(list, allowed)' <=> InOrder(list, allowed)
  BY <1>1 DEF Candidate, InOrder
<1>4. /\ machine \in [cards : Cards, installed : SUBSET Encoders,
                    forced : {NoEncoder, "x264"}, does : [Encoders -> Behaviours]]
      /\ acceleration \in BOOLEAN
  BY DEF EncoderTyped
<1>5. ASSUME NEW by \in {"cast", "miracast"}, Begins(by)
      PROVE  EncoderInv'
  <2>. DEFINE list == Candidates(machine, acceleration)
  <2>1. /\ list \in Seq(Encoders) /\ InOrder(list, acceleration)
        /\ \A e \in Encoders : Candidate(e, acceleration) => Lists(list, e)
    BY <1>4, CandidatesAre
  <2>. HIDE DEF list
  <2>2. /\ session' = [by |-> by, at |-> "next", left |-> list, allowed |-> acceleration]
        /\ UNCHANGED <<acceleration, open, runs>> /\ session = NotEncoding
    BY <1>5 DEF Begins, list
  <2>3. /\ session'.at = "next" /\ session'.left = list /\ session'.allowed = acceleration
        /\ session'.by \in {"cast", "miracast"}
    BY <2>2
  <2>4. EncoderTyped'
    BY <1>1, <1>4, <2>1, <2>2 DEF EncoderTyped
  <2>5. RestInOrder'
    BY <1>2, <1>3, <2>1, <2>3 DEF RestInOrder, Lists
  <2>6. open = {} /\ runs = NoEncoder
    BY <2>2, NotEncodingIs DEF OneOpen
  <2>. QED
    BY <2>2, <2>3, <2>4, <2>5, <2>6 DEF OneOpen, FirstWorkingOne
<1>6. CASE Tries
  <2>1. /\ session.at = "next" /\ session.left # <<>> /\ open = {} /\ runs = NoEncoder
        /\ UNCHANGED <<acceleration, runs>> /\ session.by # "browser"
    BY <1>6 DEF Tries, OneOpen
  <2>2. InOrder(session.left, session.allowed)
        /\ \A e \in Encoders :
              Candidate(e, session.allowed) => Tried(e) \/ Lists(session.left, e)
    BY <2>1 DEF RestInOrder
  <2>3. CASE machine.does[Head(session.left)] \in {"unbuildable", "refuses"}
    <3>1. session' = [session EXCEPT !.left = Tail(@)] /\ open' = open
      BY <1>6, <2>3 DEF Tries
    <3>2. Tail(session.left) \in Seq(Encoders) /\ Tried(Head(session.left))
      BY <2>1, <2>2, <2>3, SessionIs, RestAfterTry DEF Tried
    <3>3. /\ session'.at = "next" /\ session'.left = Tail(session.left)
          /\ session'.allowed = session.allowed /\ session'.by = session.by
          /\ EncoderTyped'
      BY <1>1, <1>4, <2>1, <3>1, <3>2, SessionIs DEF EncoderTyped
    <3>4. InOrder(Tail(session.left), session.allowed)
          /\ \A e \in Encoders :
                Candidate(e, session.allowed) => Tried(e) \/ Lists(Tail(session.left), e)
      BY <2>1, <2>2, <3>2, SessionIs, RestAfterTry
    <3>5. RestInOrder'
      BY <1>2, <1>3, <3>3, <3>4 DEF RestInOrder, Lists
    <3>. QED
      BY <2>1, <3>1, <3>3, <3>5 DEF OneOpen, FirstWorkingOne
  <2>4. CASE machine.does[Head(session.left)] \notin {"unbuildable", "refuses"}
    <3>1. /\ session' = [session EXCEPT !.at = "watched"]
          /\ open' = open \cup {Head(session.left)}
      BY <1>6, <2>4 DEF Tries
    <3>2. /\ session'.at = "watched" /\ session'.left = session.left
          /\ session'.allowed = session.allowed /\ session'.by = session.by
          /\ EncoderTyped'
      BY <1>1, <1>4, <2>1, <3>1, SessionIs DEF EncoderTyped
    <3>3. RestInOrder'
      BY <1>2, <1>3, <2>2, <3>2 DEF RestInOrder, Lists
    <3>. QED
      BY <2>1, <3>1, <3>2, <3>3 DEF OneOpen, FirstWorkingOne
  <2>. QED
    BY <2>3, <2>4
<1>7. CASE FrameSeen
  <2>. DEFINE e == Head(session.left)
  <2>1. /\ session.at = "watched" /\ session.left # <<>> /\ machine.does[e] = "encodes"
        /\ runs' = e /\ session' = [session EXCEPT !.at = "running", !.left = <<>>]
        /\ open' = (IF session.by = "miracast" THEN open ELSE {runs'}) /\ open \subseteq {e}
        /\ UNCHANGED acceleration /\ session.by # "browser"
    BY <1>7 DEF FrameSeen, OneOpen
  <2>2. InOrder(session.left, session.allowed)
        /\ \A o \in Encoders :
              Candidate(o, session.allowed) => Tried(o) \/ Lists(session.left, o)
    BY <2>1 DEF RestInOrder
  <2>3. /\ e \in Encoders /\ Candidate(e, session.allowed)
        /\ \A o : Lists(session.left, o) => o = e \/ Priority(e) > Priority(o)
    BY <2>1, <2>2, SessionIs, RestAfterTry
  <2>4. /\ session'.at = "running" /\ session'.allowed = session.allowed
        /\ session'.by = session.by /\ EncoderTyped'
    BY <1>1, <1>4, <2>1, <<>> \in Seq(Encoders), SessionIs DEF EncoderTyped
  <2>. HIDE DEF e
  <2>5. \A o \in Encoders :
           Candidate(o, session.allowed) /\ Priority(o) > Priority(e) => Tried(o)
    BY <2>2, <2>3, PriorityIs
  <2>6. RestInOrder' /\ OneOpen'
    BY <2>1, <2>4 DEF RestInOrder, OneOpen
  <2>7. machine'.does[runs'] = "encodes" /\ Candidate(runs', session.allowed)
    BY <1>1, <2>1, <2>3
  <2>8. open' \subseteq {runs'}
    BY <2>1
  <2>9. FirstWorkingOne'
    BY <1>2, <2>1, <2>4, <2>5, <2>7, <2>8 DEF FirstWorkingOne
  <2>. QED
    BY <2>4, <2>6, <2>9
<1>8. CASE NoFrame
  <2>. DEFINE e == Head(session.left)
  <2>1. /\ session.at = "watched" /\ session.left # <<>> /\ machine.does[e] = "silent"
        /\ session' = [session EXCEPT !.at = "next", !.left = Tail(@)]
        /\ open' = open \ {e} /\ open \subseteq {e} /\ runs = NoEncoder
        /\ UNCHANGED <<acceleration, runs>> /\ session.by # "browser"
    BY <1>8 DEF NoFrame, OneOpen
  <2>2. InOrder(session.left, session.allowed)
        /\ \A o \in Encoders :
              Candidate(o, session.allowed) => Tried(o) \/ Lists(session.left, o)
    BY <2>1 DEF RestInOrder
  <2>3. Tail(session.left) \in Seq(Encoders) /\ Tried(e)
    BY <2>1, <2>2, SessionIs, RestAfterTry DEF Tried
  <2>4. /\ session'.at = "next" /\ session'.left = Tail(session.left)
        /\ session'.allowed = session.allowed /\ session'.by = session.by
        /\ EncoderTyped'
    BY <1>1, <1>4, <2>1, <2>3, SessionIs DEF EncoderTyped
  <2>5. InOrder(Tail(session.left), session.allowed)
        /\ \A o \in Encoders :
              Candidate(o, session.allowed) => Tried(o) \/ Lists(Tail(session.left), o)
    BY <2>1, <2>2, <2>3, SessionIs, RestAfterTry
  <2>6. RestInOrder'
    BY <1>2, <1>3, <2>4, <2>5 DEF RestInOrder, Lists
  <2>7. open' = {}
    BY <2>1
  <2>. QED
    BY <2>1, <2>4, <2>6, <2>7 DEF OneOpen, FirstWorkingOne
<1>9. CASE NoneWorks
  <2>1. /\ session.at = "next" /\ session.left = <<>> /\ open = {} /\ runs = NoEncoder
        /\ session' = [session EXCEPT !.at = "failed"]
        /\ UNCHANGED <<acceleration, open, runs>> /\ session.by # "browser"
    BY <1>9 DEF NoneWorks, OneOpen
  <2>2. \A e \in Encoders : Candidate(e, session.allowed) => Tried(e)
    <3>1. \A e \in Encoders :
             Candidate(e, session.allowed) => Tried(e) \/ Lists(session.left, e)
      BY <2>1 DEF RestInOrder
    <3>2. \A e : ~ Lists(session.left, e)
      BY <2>1 DEF Lists
    <3>. QED
      BY <3>1, <3>2
  <2>3. /\ session'.at = "failed" /\ session'.allowed = session.allowed
        /\ session'.by = session.by /\ EncoderTyped'
    BY <1>1, <1>4, <2>1, SessionIs DEF EncoderTyped
  <2>4. FirstWorkingOne'
    BY <1>2, <2>1, <2>2, <2>3 DEF FirstWorkingOne
  <2>. QED
    BY <2>1, <2>3, <2>4 DEF RestInOrder, OneOpen
<1>10. CASE Shares
  <2>1. /\ session' = [by |-> "browser", at |-> "running", left |-> <<>>, allowed |-> acceleration]
        /\ open' = {runs'} /\ UNCHANGED acceleration
    BY <1>10 DEF Shares
  <2>2. /\ session'.at = "running" /\ session'.by = "browser" /\ <<>> \in Seq(Encoders)
    BY <2>1
  <2>3. EncoderTyped'
    BY <1>1, <1>4, <2>1, <2>2 DEF EncoderTyped
  <2>. QED
    BY <2>1, <2>2, <2>3 DEF RestInOrder, OneOpen, FirstWorkingOne
<1>11. CASE EncodingEnds
  <2>1. session' = NotEncoding /\ runs' = NoEncoder /\ open' = {} /\ UNCHANGED acceleration
    BY <1>11 DEF EncodingEnds
  <2>2. NotEncoding = [by |-> "none", at |-> "idle", left |-> <<>>, allowed |-> FALSE]
        /\ <<>> \in Seq(Encoders)
    BY DEF NotEncoding
  <2>3. EncoderTyped'
    BY <1>1, <1>4, <2>1, <2>2 DEF EncoderTyped
  <2>. QED
    BY <2>1, <2>3, NotEncodingIs DEF RestInOrder, OneOpen, FirstWorkingOne
<1>12. CASE Toggles
  <2>1. acceleration' \in BOOLEAN /\ UNCHANGED <<session, open, runs>>
    BY <1>4, <1>12 DEF Toggles
  <2>2. EncoderTyped'
    BY <1>1, <1>4, <2>1 DEF EncoderTyped
  <2>3. RestInOrder'
    BY <1>2, <1>3, <2>1 DEF RestInOrder, Lists
  <2>4. FirstWorkingOne'
    BY <1>1, <1>2, <2>1 DEF FirstWorkingOne
  <2>. QED
    BY <2>1, <2>2, <2>3, <2>4 DEF OneOpen
<1>. QED
  BY <1>5, <1>6, <1>7, <1>8, <1>9, <1>10, <1>11, <1>12 DEF EncoderNext

(* The encoder the logs name is the first that will be tried. *)
LEMMA LogIsRight == EncoderTyped => LogNamesTheFirst
<1>. SUFFICES ASSUME EncoderTyped, NEW allowed \in BOOLEAN
              PROVE  LET order == Candidates(machine, allowed)
                     IN  BestEncoder(machine, allowed) =
                            IF order = <<>> THEN NoEncoder ELSE Head(order)
  BY DEF LogNamesTheFirst
<1>. DEFINE order == Candidates(machine, allowed)
            fit == AllowedOn(machine, allowed)
            forced == ForcedEncoder(machine)
<1>1. /\ order \in Seq(Encoders) /\ InOrder(order, allowed)
      /\ \A e \in Encoders : Candidate(e, allowed) => Lists(order, e)
  BY CandidatesAre
<1>2. fit \in SUBSET Encoders
  BY DEF AllowedOn, EncoderTyped
<1>3. fit = {e \in {o \in machine.installed : Permits(allowed, o)} :
                FitsDriver(e, Detect(machine.cards))}
  BY DEF AllowedOn
<1>4. CASE forced # NoEncoder
  <2>1. order = <<forced>> /\ BestEncoder(machine, allowed) = forced
    BY <1>4 DEF Candidates, BestEncoder
  <2>. HIDE DEF forced, order
  <2>2. <<forced>> # <<>> /\ Head(<<forced>>) = forced
    OBVIOUS
  <2>. QED
    BY <2>1, <2>2 DEF order
<1>5. CASE forced = NoEncoder
  <2>1. \A e : Candidate(e, allowed) <=> e \in fit
    BY <1>5 DEF Candidate
  <2>2. BestEncoder(machine, allowed) =
            IF fit = {} THEN NoEncoder
            ELSE CHOOSE e \in fit : \A o \in fit : Priority(o) <= Priority(e)
    BY <1>3, <1>5 DEF BestEncoder
  <2>. HIDE DEF fit, order
  <2>3. CASE order = <<>>
    <3>1. \A e : ~ Lists(order, e)
      BY <2>3 DEF Lists
    <3>2. fit = {}
      BY <1>1, <1>2, <2>1, <3>1
    <3>. QED
      BY <2>2, <2>3, <3>2 DEF order
  <2>4. CASE order # <<>>
    <3>1. /\ Head(order) \in Encoders /\ Candidate(Head(order), allowed)
          /\ \A e : Lists(order, e) => e = Head(order) \/ Priority(Head(order)) > Priority(e)
      BY <1>1, <2>4, RestAfterTry
    <3>2. Head(order) \in fit
      BY <2>1, <3>1
    <3>3. \A o \in fit : o = Head(order) \/ Priority(Head(order)) > Priority(o)
      BY <1>1, <1>2, <2>1, <3>1
    <3>4. \A o \in fit : Priority(o) \in Nat
      BY <1>2, PriorityIs
    <3>5. /\ \A o \in fit : Priority(o) <= Priority(Head(order))
          /\ \A e \in fit : (\A o \in fit : Priority(o) <= Priority(e)) => e = Head(order)
      BY <3>2, <3>3, <3>4
    <3>6. (CHOOSE e \in fit : \A o \in fit : Priority(o) <= Priority(e)) = Head(order)
      BY <3>2, <3>5
    <3>. QED
      BY <2>2, <2>4, <3>2, <3>6 DEF order
  <2>. QED
    BY <2>3, <2>4
<1>. QED
  BY <1>4, <1>5

(* For any machine, any toggles of the preference and any number of sessions: *)
(* the first candidate that works is run, the rest of its betters were tried, *)
(* no other pipeline stays open, and the log names the first one tried        *)
(* (working_encoder, start_pipeline, best_encoder).                           *)
THEOREM EncoderRight == EncoderSpec => []EncoderIsRight
<1>1. EncoderInv /\ [EncoderNext]_encoderVars => EncoderInv'
  BY EncoderSteps, EncoderStutters
<1>2. EncoderInv => EncoderIsRight
  BY LogIsRight DEF EncoderInv, EncoderIsRight
<1>. QED
  BY <1>1, <1>2, EncoderStarts, PTL DEF EncoderSpec

=============================================================================
