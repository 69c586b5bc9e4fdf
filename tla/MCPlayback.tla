------------------------------ MODULE MCPlayback ------------------------------
(***************************************************************************)
(* Instances of FilePlayback, MediaFiles and FileServer: the session that  *)
(* plays a queue, the request that made the queue, and the server a        *)
(* receiver fetches it from.  What one leaves to another is open in it     *)
(* (the queue, a receiver's requests, a file that changes), so a behaviour *)
(* follows one of the three.                                               *)
(***************************************************************************)
EXTENDS FilePlayback, MediaFiles, FileServer

VARIABLE part

MCInit ==
    /\ part \in {"session", "request", "server"}
    /\ PageInit /\ MediaInit /\ ServerInit
    /\ part # "session" => mode = "cast"
    /\ part # "request" => disk = CHOOSE d \in [File -> Contents] : TRUE
    /\ part # "server" => file = 0

MCNext ==
    \/ part = "session" /\ Next /\ UNCHANGED <<mediaVars, serverVars, part>>
    \/ part = "request" /\ MediaNext /\ UNCHANGED <<vars, serverVars, part>>
    \/ part = "server" /\ ServerNext /\ UNCHANGED <<vars, mediaVars, part>>

MCSpec == MCInit /\ [][MCNext]_<<vars, mediaVars, serverVars, part>>

MCItems == {"film", "photo", "url"}
MCCommands == {[op |-> "seekBy", by |-> 1], [op |-> "next"], [op |-> "toggle"]}
MCPicks == {<<"photo", "film">>}

Holding(ext, streams, size) ==
    [ext |-> ext, regular |-> TRUE, streams |-> streams, size |-> size]
MCContents ==
    {Holding("jpg", {}, <<400, 225>>), Holding("webm", {"av1", "opus"}, <<2560, 1080>>),
     Holding("mp4", {"h264", "aac"}, <<719, 1279>>), Holding("mkv", {"h264"}, <<7680, 4320>>),
     Holding("mp3", {"mp2"}, <<0, 0>>), Holding("wav", {"pcm"}, <<0, 0>>),
     Holding("txt", {}, <<0, 0>>)}
MCStreamIs == [radio |-> [kind |-> "music", type |-> "audio/mpeg"]]
MCTelevision ==
    {[kind |-> "Chromecast", renderer |-> FALSE, says |-> {}],
     [kind |-> "Dlna", renderer |-> TRUE, says |-> {"audio/x-wav", "audio/mpeg", "video/mp4"}],
     [kind |-> "Dlna", renderer |-> FALSE, says |-> {}],
     [kind |-> "Miracast", renderer |-> FALSE, says |-> {}]}

Asking(method, known, range) == [method |-> method, known |-> known, range |-> range]
Of(kind, a, b) == [kind |-> kind, a |-> a, b |-> b]
MCAsks ==
    {Asking("GET", TRUE, NoRange), Asking("HEAD", TRUE, Of("open", 1, 0)),
     Asking("GET", FALSE, NoRange), Asking("other", TRUE, NoRange),
     Asking("GET", TRUE, Of("closed", 1, 4)), Asking("GET", TRUE, Of("closed", 0, 1)),
     Asking("GET", TRUE, Of("suffix", 2, 0))}
=============================================================================
