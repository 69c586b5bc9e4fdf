------------------------------ MODULE MCMirror ------------------------------
(***************************************************************************)
(* Instances of MirrorTrack and MirrorSession.  A session knows its tracks *)
(* only as threads that run, end or fail, and a track knows the session    *)
(* only as its stop flag, so a behaviour follows one of the two.           *)
(*                                                                         *)
(* A track is followed for its progress with one datagram under way at a   *)
(* time, and for what it believes with two, of which the later sent may    *)
(* arrive first, and again: from a receiver that states reference times,   *)
(* however old a datagram is, and from one that does not.                  *)
(***************************************************************************)
EXTENDS MirrorTrack, MirrorSession

VARIABLE part

Stamped == INSTANCE MirrorTrack
    WITH Timed <- TRUE, Video <- FALSE, MaxFrameId <- 4, MaxNetwork <- 2
Unstamped == INSTANCE MirrorTrack
    WITH Timed <- FALSE, Video <- FALSE, MaxFrameId <- 4, MaxNetwork <- 2

MCInit ==
    /\ \/ part \in {"track", "session"} /\ Init
       \/ part = "stamped" /\ Stamped!Init
       \/ part = "unstamped" /\ Unstamped!Init
    /\ MirrorInit

MCNext ==
    \/ /\ \/ part = "track" /\ Next
          \/ part = "stamped" /\ Stamped!Next
          \/ part = "unstamped" /\ Unstamped!Next
       /\ UNCHANGED <<mirrorVars, part>>
    \/ part = "session" /\ MirrorNext /\ UNCHANGED <<vars, part>>

MCSpec == MCInit /\ [][MCNext]_<<vars, mirrorVars, part>>

MCFairSpec ==
    /\ MCSpec
    /\ \/ part = "track" /\ TrackFairness
       \/ part = "session" /\ MirrorFairness
       \/ part \in {"stamped", "unstamped"}

(* A track whose video dropped a frame starts again from a key frame or    *)
(* ends (VideoResumes: request_key_frame), and a session that was told to  *)
(* stop, or whose tracks ended, is over (SessionEnds: worker.rs, mod.rs).  *)
BothGoOn == (part = "track" => VideoResumes) /\ (part = "session" => SessionEnds)

MCPortal == <<2560, 1440>>
MCCeiling == <<3840, 2160>>
MCCaptured == {NoSize, <<3072, 1728>>}
MCLimits(w, h, fps, max, min) ==
    [size |-> <<w, h>>, fps |-> fps, pixel_rate |-> NoLimit, min_bits |-> min,
     max_bits |-> max, min_size |-> <<2, 2>>, max_delay |-> NoLimit]
MCAnswers == {"any", "wide", "tall", "deaf"}
MCSays == [a \in MCAnswers |->
    CASE a = "any" -> [streams |-> Tracks, video |-> {}, audio |-> TRUE]
      [] a = "wide" -> [streams |-> Tracks, audio |-> TRUE,
            video |-> {MCLimits(1920, 800, 30, 5000000, 300000)}]
      [] a = "tall" -> [streams |-> {"video"}, audio |-> FALSE,
            video |-> {MCLimits(1080, 1920, 60, 4000000, 0)}]
      [] a = "deaf" -> [streams |-> {"audio"}, video |-> {}, audio |-> TRUE]]
=============================================================================
