----------------------------- MODULE FileServer -----------------------------
(* The HTTP server that gives a receiver the files of a session byte by byte *)
(* (nd-chromecast/src/file_server.rs): at most Limit connections served at a *)
(* time, only the receiver's, each answered once and closed; the file may    *)
(* change, shrink or vanish meanwhile, a write may fail, and dropping the    *)
(* server ends everything.  A byte is its offset; -1 is a file that is gone  *)
(* or is no longer a regular one.                                            *)
EXTENDS Integers, FiniteSets

CONSTANTS
    Conn,       \* connections
    Foreign,    \* those that do not come from the session's receiver
    Asks,       \* the requests they may send, of Requests
    Limit,      \* connections served at once (16)
    Chunk,      \* the copy buffer (64 KiB)
    MaxSize,    \* bound: the size of the file
    MaxChanges  \* bound: changes of the file

Gone == -1
Offsets == 0..MaxSize + 1

(* ------------------------------ the request ----------------------------- *)

\* The Range header: none, one this server does not read, <a>-<b>, <a>-, -<n>.
NoRange == [kind |-> "none", a |-> 0, b |-> 0]
Ranges ==
    {NoRange, [kind |-> "unread", a |-> 0, b |-> 0]}
        \cup [kind : {"closed"}, a : Offsets, b : Offsets]
        \cup [kind : {"open", "suffix"}, a : Offsets, b : {0}]

\* A wrong token and an unknown index are the same to the answer.
Requests == [method : {"GET", "HEAD", "other"}, known : BOOLEAN, range : Ranges]

ASSUME ServerAssumption ==
    /\ Foreign \subseteq Conn /\ Limit \in Nat \ {0} /\ Chunk \in Nat \ {0}
    /\ MaxSize \in Nat /\ MaxChanges \in Nat /\ Asks \subseteq Requests

Lower(x, y) == IF x < y THEN x ELSE y

NoBytes == [start |-> 0, end |-> -1]

\* A slip: an end past the end of the file is kept.
ParseRange_AnyEnd(range, size) ==
    CASE range.kind = "suffix" /\ size > 0 /\ range.a > 0 ->
            [start |-> IF range.a > size THEN 0 ELSE size - range.a, end |-> size - 1]
      [] range.kind = "open" /\ range.a < size -> [start |-> range.a, end |-> size - 1]
      [] range.kind = "closed" /\ range.a <= range.b /\ range.a < size ->
            [start |-> range.a, end |-> range.b]
      [] OTHER -> NoBytes

\* The first and last byte of a range inside a file of `size`, or no bytes.
ParseRange(range, size) ==
    CASE range.kind = "suffix" /\ size > 0 /\ range.a > 0 ->
            [start |-> IF range.a > size THEN 0 ELSE size - range.a, end |-> size - 1]
      [] range.kind = "open" /\ range.a < size -> [start |-> range.a, end |-> size - 1]
      [] range.kind = "closed" /\ range.a <= range.b /\ range.a < size ->
            [start |-> range.a, end |-> Lower(range.b, size - 1)]
      [] OTHER -> NoBytes

(* ------------------------------- the state ------------------------------ *)

VARIABLES
    server,     \* "up", or "dropped"
    file,       \* the file's size now, or Gone
    changes,    \* changes so far
    conn        \* each connection, see Fresh

serverVars == <<server, file, changes, conn>>

\* `stage`: not yet there, waiting in the listener's backlog, being read, with
\* its request read, being sent bytes, closed.  `status` and `bytes` are the
\* response's head, `total` the size it was written for; `wrote` bytes of the
\* body went out and the file is read at `at` next.
Fresh == [stage |-> "absent", request |-> [method |-> "GET", known |-> FALSE, range |-> NoRange],
          status |-> 0, total |-> 0, bytes |-> NoBytes, at |-> 0, wrote |-> 0]

ServerInit ==
    /\ server = "up" /\ file \in 0..MaxSize /\ changes = 0
    /\ conn = [c \in Conn |-> Fresh]

Served == {c \in Conn : conn[c].stage \in {"reading", "read", "sending"}}
Length(b) == b.end - b.start + 1

Becomes(c, now) ==
    conn' = [conn EXCEPT ![c] = now] /\ UNCHANGED <<server, file, changes>>
Closed(c) == [conn[c] EXCEPT !.stage = "closed"]

(* ------------------------------ the accept loop ------------------------- *)

OpensConnection(c) ==
    /\ server = "up" /\ conn[c].stage = "absent"
    /\ Becomes(c, [conn[c] EXCEPT !.stage = "queued"])

\* A finished client makes room; a foreign peer is closed without an answer.  A
\* slip: a connection takes the room of the one before it for good.
Room_Once == \A c \in Conn : conn[c].stage \in {"absent", "queued"}
Room == Cardinality(Served) < Limit

Accepts(c) ==
    /\ server = "up" /\ conn[c].stage = "queued" /\ Room
    /\ Becomes(c, IF c \in Foreign THEN Closed(c) ELSE [conn[c] EXCEPT !.stage = "reading"])

(* ------------------------------ one connection -------------------------- *)

Answer(c, status) == [Closed(c) EXCEPT !.status = status]

\* The request line and headers arrive whole.
RequestRead(c) ==
    /\ server = "up" /\ conn[c].stage = "reading"
    /\ \E r \in Asks :
        Becomes(c, [(IF ~ r.known THEN Answer(c, 404)
                     ELSE IF r.method = "other" THEN Answer(c, 405)
                     ELSE [conn[c] EXCEPT !.stage = "read"]) EXCEPT !.request = r])

\* They do not: the bounded read fails, the peer left, or the line is no request.
NoRequest(c) ==
    server = "up" /\ conn[c].stage = "reading" /\ Becomes(c, Closed(c))

\* The file is opened now, and its size of now is what the head speaks of.  A
\* range only counts with GET.
Opens(c) ==
    /\ server = "up" /\ conn[c].stage = "read"
    /\ LET request == conn[c].request
           ranged == request.method = "GET" /\ request.range.kind # "none"
           bytes == IF ranged THEN ParseRange(request.range, file)
                    ELSE [start |-> 0, end |-> file - 1]
       IN  Becomes(c,
             IF file = Gone THEN Closed(c)
             ELSE IF ranged /\ bytes = NoBytes
             THEN [Answer(c, 416) EXCEPT !.total = file]
             ELSE [conn[c] EXCEPT !.status = IF ranged THEN 206 ELSE 200, !.total = file,
                        !.bytes = bytes, !.at = bytes.start,
                        !.stage = IF request.method = "HEAD" THEN "closed" ELSE "sending"])

\* A slip: the last buffer is filled whole.
Wanted_WholeChunk(c) == Chunk
Wanted(c) == Lower(Length(conn[c].bytes) - conn[c].wrote, Chunk)

\* As many bytes as the file has there, up to the buffer, are read and written.
\* A file that was truncated ends the transfer with an error.
Sends(c) ==
    /\ server = "up" /\ conn[c].stage = "sending" /\ conn[c].wrote < Length(conn[c].bytes)
    /\ IF conn[c].at >= file THEN Becomes(c, Closed(c))
       ELSE \E n \in 1..Lower(Wanted(c), file - conn[c].at) :
                Becomes(c, [conn[c] EXCEPT !.wrote = @ + n, !.at = @ + n])

AllSent(c) ==
    /\ server = "up" /\ conn[c].stage = "sending" /\ conn[c].wrote = Length(conn[c].bytes)
    /\ Becomes(c, Closed(c))

\* The receiver stopped watching or the hour is over.
GivenUp(c) ==
    /\ server = "up" /\ conn[c].stage \in {"reading", "read", "sending"}
    /\ Becomes(c, Closed(c))

(* ------------------------------ the world ------------------------------- *)

FileChanges ==
    /\ changes < MaxChanges
    /\ \E size \in Gone..MaxSize : size # file /\ file' = size
    /\ changes' = changes + 1
    /\ UNCHANGED <<server, conn>>

\* The task is aborted, the listener closes and the set of clients is dropped
\* with it: every one of them is.  A slip: only the listener.
Aborted_ListenerOnly == {c \in Conn : conn[c].stage = "queued"}
Aborted == {c \in Conn : conn[c].stage # "absent"}

Drop ==
    /\ server = "up"
    /\ server' = "dropped"
    /\ conn' = [c \in Conn |-> IF c \in Aborted THEN Closed(c) ELSE conn[c]]
    /\ UNCHANGED <<file, changes>>

ServerStep(c) ==
    Accepts(c) \/ RequestRead(c) \/ NoRequest(c) \/ Opens(c) \/ Sends(c) \/ AllSent(c) \/ GivenUp(c)

ServerNext == (\E c \in Conn : OpensConnection(c) \/ ServerStep(c)) \/ FileChanges \/ Drop

ServerFairness == \A c \in Conn : SF_serverVars(Accepts(c)) /\ WF_serverVars(ServerStep(c))

ServerSpec == ServerInit /\ [][ServerNext]_serverVars /\ ServerFairness

(* ------------------------------ properties ------------------------------ *)

\* The bytes a range asks of a file, by definition.
AskedOf(range, size) ==
    {p \in 0..size - 1 :
        CASE range.kind = "closed" -> range.a <= p /\ p <= range.b
          [] range.kind = "open" -> range.a <= p
          [] range.kind = "suffix" -> p >= size - range.a
          [] OTHER -> range.kind = "none"}

\* What the head announces is what the request asked of the file as it then was,
\* and what goes out is that, in order, never more: the file is read where the
\* next byte of the body belongs, whatever became of it since.
AnnouncedIsSent ==
    \A c \in Conn :
        LET k == conn[c] IN
        /\ k.status \in {200, 206} =>
            /\ k.bytes.start..k.bytes.end =
                 AskedOf(IF k.status = 206 THEN k.request.range ELSE NoRange, k.total)
            /\ k.at = k.bytes.start + k.wrote /\ k.wrote <= Length(k.bytes)
        /\ k.status = 416 => AskedOf(k.request.range, k.total) = {}

\* At most Limit connections are served, and none of a foreign peer's.
ServesItsReceiver == Cardinality(Served) <= Limit /\ Served \cap Foreign = {}

\* Dropping the server ends every transfer under way: nothing more is written.
DropEndsThemAll == server = "dropped" => Served = {}

\* A receiver that connects is answered or closed, however many were before it.
EveryoneGetsTheirTurn ==
    \A c \in Conn : conn[c].stage = "queued" ~> conn[c].stage = "closed"

\* What goes out is what was asked for, to the session's receiver, a few at a
\* time and only while the session lasts (serve, send_file, drop).
TransfersAreSound == AnnouncedIsSent /\ ServesItsReceiver /\ DropEndsThemAll

=============================================================================
