----------------------------- MODULE StreamServer -----------------------------
(***************************************************************************)
(* The server a television fetches the stream from (nd-core's              *)
(* stream_server): one task accepts and reads requests one at a time and   *)
(* hands each admitted socket to the pipeline's multisocketsink, whose own *)
(* thread feeds it and removes it whenever it leaves.  A connection is     *)
(* known by its descriptor, which the system gives out again.              *)
(***************************************************************************)
EXTENDS Naturals, FiniteSets

CONSTANTS None, Sockets

VARIABLES
    serve,      \* the serving task: where it is, its connection, its first client
    conn,       \* each descriptor: closed, waiting, or fed by the sink
    attendance, \* Attendance: open descriptors, whether one left, one that lasted
    cancel,     \* the session's cancellation
    kind,       \* the session: a "screen" or a "file" for DLNA, or "cast"
    ses,        \* the latest session: where it is and how it ends
    status,     \* SinkStatus
    pipe        \* the pipeline

server == <<serve, conn, attendance>>

Returned == {"cancelled", "slow", "failed"}
Serving == serve.at \in {"accept", "admit", "hand"}

ServerTypeOK ==
    /\ serve.at \in {"off", "accept", "admit", "hand"} \cup Returned
    /\ serve.now \in Sockets \cup {None} /\ serve.served \in BOOLEAN /\ serve.slow \in BOOLEAN
    /\ conn \in [Sockets -> {"closed", "waiting", "fed"}]
    /\ attendance.open \subseteq Sockets
    /\ attendance.left \in BOOLEAN /\ attendance.lasted \in BOOLEAN
    /\ cancel \in BOOLEAN

Unserved == [at |-> "off", now |-> None, served |-> FALSE, slow |-> FALSE]
Nobody == [open |-> {}, left |-> FALSE, lasted |-> FALSE]

(* StreamServer::bind, before anything is served.                          *)
ServerInit ==
    /\ serve = Unserved
    /\ conn = [c \in Sockets |-> "closed"]
    /\ attendance = Nobody

(* abandoned_for and longest_receiver; how long is a matter of time that   *)
(* passes.                                                                 *)
Abandoned == attendance.open = {} /\ attendance.left
MayHaveLasted == attendance.open # {} \/ attendance.lasted

(* External: the television opens a connection.                            *)
Fetches(c) ==
    /\ Serving /\ conn[c] = "closed"
    /\ conn' = [conn EXCEPT ![c] = "waiting"]
    /\ UNCHANGED <<serve, attendance, cancel>>

Accepts(c) ==
    /\ serve.at = "accept" /\ ~cancel /\ ~serve.slow /\ conn[c] = "waiting"
    /\ serve' = [serve EXCEPT !.at = "admit", !.now = c]
    /\ UNCHANGED <<conn, attendance, cancel>>

(* What a request is, by what triage looks at: a complete head without a   *)
(* body and with sound framing, the secret path, the one address, the      *)
(* method.                                                                 *)
Requests == [whole : BOOLEAN, path : BOOLEAN, peer : BOOLEAN, method : {"GET", "HEAD", "other"}]

Verdict(r) ==
    CASE ~r.whole -> "bad request"
      [] r.whole /\ ~r.path -> "not found"
      [] r.whole /\ r.path /\ ~r.peer -> "forbidden"
      [] r.whole /\ r.path /\ r.peer ->
            CASE r.method = "GET" -> "stream"
              [] r.method = "HEAD" -> "head only"
              [] OTHER -> "method not allowed"

(* admit answers anything but a valid GET itself, and gives up on a peer   *)
(* that does not read the headers.                                         *)
Refuses ==
    /\ serve.at = "admit"
    /\ \E r \in Requests, reads \in BOOLEAN : Verdict(r) # "stream" \/ ~reads
    /\ serve' = [serve EXCEPT !.at = "accept", !.now = None]
    /\ conn' = [conn EXCEPT ![serve.now] = "closed"]
    /\ UNCHANGED <<attendance, cancel>>

(* hand_socket_to_sink: from here the sink's thread owns the connection.   *)
Hands ==
    /\ serve.at = "admit" /\ ~cancel
    /\ \E r \in Requests : Verdict(r) = "stream"
    /\ serve' = [serve EXCEPT !.at = "hand"]
    /\ conn' = [conn EXCEPT ![serve.now] = "fed"]
    /\ UNCHANGED <<attendance, cancel>>

(* The attendance, then on_first_client, or a key frame for a later one.   *)
Enters ==
    /\ serve.at = "hand"
    /\ attendance' = [attendance EXCEPT !.open = @ \cup {serve.now}]
    /\ serve' = [serve EXCEPT !.at = "accept", !.now = None, !.served = TRUE]
    /\ UNCHANGED <<conn, cancel>>

(* client-removed and client-socket-removed, on the sink's thread.         *)
Leaves(c, why) ==
    /\ conn[c] = "fed"
    /\ conn' = [conn EXCEPT ![c] = "closed"]
    /\ \E long \in IF c \in attendance.open THEN BOOLEAN ELSE {FALSE} :
           attendance' = [open |-> attendance.open \ {c}, left |-> TRUE,
                          lasted |-> attendance.lasted \/ long]
    /\ serve' = [serve EXCEPT !.slow = @ \/ why = "slow"]
    /\ UNCHANGED cancel

(* serve returns: cancelled, a reader too slow, or the pipeline that does  *)
(* not start for its first client.                                         *)
ServeReturns ==
    /\ \/ cancel /\ serve.at \in {"accept", "admit"}
          /\ serve' = [serve EXCEPT !.at = "cancelled", !.now = None]
       \/ serve.slow /\ serve.at = "accept"
          /\ serve' = [serve EXCEPT !.at = "slow"]
       \/ serve.at = "hand" /\ ~serve.served
          /\ serve' = [serve EXCEPT !.at = "failed", !.now = None]
    /\ UNCHANGED <<conn, attendance, cancel>>

(* Whatever was being admitted is dropped with the task; the readers go    *)
(* with the pipeline.                                                      *)
Closed ==
    /\ serve' = Unserved
    /\ conn' = [c \in Sockets |-> "closed"]
    /\ attendance' = Nobody

(* Every reader the sink feeds is in the attendance once the task is done  *)
(* with it.                                                                *)
ReadersAreCounted ==
    \A c \in Sockets : conn[c] = "fed" => c \in attendance.open \/ serve.now = c
=============================================================================
