---------------------------- MODULE UpnpClient -----------------------------
(* The requests a renderer is sent (nd-dlna/src/upnp.rs): its description is  *)
(* fetched, the service asked for is found in it, and an action is posted to  *)
(* the address that service announced. A reply is a number of pieces: those   *)
(* of its head, then those of its body, one <service> block each in a         *)
(* description; the device sends them as it likes, and may declare a length   *)
(* that is not theirs, close the connection or hold it open.                  *)
EXTENDS Integers, Sequences, FiniteSets, FiniteSetsExt

CONSTANTS
    Blocks,         \* the <service> blocks a description may hold
    Location,       \* where the description is: its host and its path's directory
    Asked,          \* the service wanted
    Framings,        \* the framings a device may answer with
    MaxResponse,    \* pieces after which no more of a reply is read
    MaxBlocks       \* bound: the blocks of the description

NoService == [type |-> "no service"]
NoLength == -1
NoReply == [head |-> 0, complete |-> FALSE, declared |-> NoLength, extra |-> 0,
            closes |-> FALSE, status |-> "none"]

ASSUME ReplyAssumption ==
    /\ MaxResponse \in Nat /\ MaxBlocks \in Nat
    /\ \A r \in Framings : r.head \in Nat /\ r.extra \in Nat

VARIABLES
    description,    \* the device's description: a sequence of blocks
    purpose,        \* what the request is for: describe, act
    request,        \* the request: idle, connecting, head, body, done
    reply,          \* how the device answers this one
    sent,           \* pieces the device has sent
    got,            \* pieces read
    hungUp,         \* whether the device has closed the connection
    service,        \* the service found
    posted,         \* where the action was sent, and under which type
    answer          \* what the last request came to

upnpVars == <<description, purpose, request, reply, sent, got, hungUp, service, posted, answer>>

(* ------------------------- addresses and services ------------------------ *)

\* An absolute address must be plain http, a literal host and a path that can
\* stand in a request line.
Parse(target) ==
    IF target.form = "absolute" THEN {[host |-> target.host, path |-> target.path]} ELSE {}

\* A slip: the description may send the requests anywhere.
Resolve_Anywhere(target) ==
    IF target.form = "absolute" THEN Parse(target)
    ELSE IF target.form = "unprintable" THEN {}
    ELSE {[host |-> Location.host, path |-> <<target.path>>]}

\* A control address, against the description's own: an absolute one must stay
\* on the device, any other is a path of it.
Resolve(target) ==
    IF target.form = "absolute" THEN {e \in Parse(target) : e.host = Location.host}
    ELSE IF target.form = "unprintable" THEN {}
    ELSE {[host |-> Location.host,
           path |-> IF target.form = "rooted" THEN <<target.path>>
                    ELSE <<Location.directory, target.path>>]}

\* Only urn:schemas-upnp-org:service:<name>:<version> passes, from version 1.
IsStandardService(type, name) == type.standard /\ type.name = name /\ type.version >= 1

\* The control address of a block, which may lack one.
ControlOf(block) == IF block.control.form = "missing" THEN {} ELSE {block.control}

\* A slip: the first address of the whole document, under the type asked for.
Find_Document(blocks, name) ==
    LET own == {i \in 1..Len(blocks) : IsStandardService(blocks[i].type, name)}
    IN  IF own = {} THEN {}
        ELSE {[type |-> blocks[Min(own)].type, endpoint |-> e] :
                  e \in UNION {Resolve(c) : c \in ControlOf(blocks[1])}}

\* Block by block; the first of the type asked for decides.
Find(blocks, name) ==
    LET own == {i \in 1..Len(blocks) : IsStandardService(blocks[i].type, name)}
    IN  IF own = {} THEN {}
        ELSE LET block == blocks[Min(own)]
             IN  {[type |-> block.type, endpoint |-> e] :
                      e \in UNION {Resolve(c) : c \in ControlOf(block)}}

\* The same service as plain strings, and read back as strictly.
ToUpnp(found) ==
    [control |-> [form |-> "absolute", host |-> found.endpoint.host, path |-> found.endpoint.path],
     type |-> found.type]
FromParts(plain) ==
    IF IsStandardService(plain.type, Asked)
    THEN {[type |-> plain.type, endpoint |-> e] : e \in Parse(plain.control)} ELSE {}

(* ------------------------------ one request ------------------------------ *)

UpnpInit ==
    /\ description \in UNION {[1..n -> Blocks] : n \in 0..MaxBlocks}
    /\ purpose = "describe" /\ request = "idle" /\ reply = NoReply
    /\ sent = 0 /\ got = 0 /\ hungUp = FALSE
    /\ service = NoService /\ posted = NoService /\ answer = "none"

BodyPieces == (IF purpose = "describe" THEN Len(description) ELSE 1) + reply.extra
Pieces == reply.head + (IF reply.complete THEN BodyPieces ELSE 0)
HeadRead == reply.complete /\ got >= reply.head
Have == got - reply.head
Receiving == request \in {"head", "body"}

\* An action goes to the service's own address, under the type it announced: the
\* service as it was found, or as it was handed over to the media session.
Destination == {service} \cup FromParts(ToUpnp(service))

\* A request is written at once; how the device will answer is the device's.
Asks(r) ==
    /\ request = "idle"
    /\ purpose = "act" => service # NoService
    /\ request' = "connecting" /\ reply' = r /\ sent' = 0 /\ got' = 0 /\ hungUp' = FALSE
    /\ answer' = "none"
    /\ IF purpose = "act"
       THEN posted' \in Destination
       ELSE UNCHANGED posted
    /\ UNCHANGED <<description, purpose, service>>

Fails(reason) ==
    /\ request' = "done" /\ answer' = reason
    /\ UNCHANGED <<description, purpose, reply, sent, got, hungUp, service, posted>>

ConnectFails == request = "connecting" /\ Fails("unreachable")

Connects ==
    /\ request = "connecting"
    /\ request' = "head"
    /\ UNCHANGED <<description, purpose, reply, sent, got, hungUp, service, posted, answer>>

DeviceSends ==
    /\ Receiving /\ \E n \in (sent + 1)..Pieces : sent' = n
    /\ UNCHANGED <<description, purpose, request, reply, got, hungUp, service, posted, answer>>

DeviceCloses ==
    /\ Receiving /\ sent = Pieces /\ reply.closes /\ ~ hungUp
    /\ hungUp' = TRUE
    /\ UNCHANGED <<description, purpose, request, reply, sent, got, service, posted, answer>>

\* One read: some of what has arrived.
Reads == got' \in (got + 1)..sent

\* The head first: the body cannot be framed before it is known.
ReadsHead ==
    /\ request = "head" /\ ~ HeadRead
    /\ \/ /\ Reads
          /\ IF got' > MaxResponse THEN request' = "done" /\ answer' = "oversized"
             ELSE UNCHANGED <<request, answer>>
          /\ UNCHANGED <<description, purpose, reply, sent, hungUp, service, posted>>
       \/ hungUp /\ got = sent /\ Fails("cut off")

FramesBody ==
    /\ request = "head" /\ HeadRead
    /\ request' = "body"
    /\ UNCHANGED <<description, purpose, reply, sent, got, hungUp, service, posted, answer>>

\* A slip: the body ends where the connection does.
Enough_Eof == got > MaxResponse

\* The declared length, and the end of the connection only without one.
Enough == (reply.declared # NoLength /\ Have >= reply.declared) \/ got > MaxResponse

ReadsBody ==
    /\ request = "body" /\ ~ Enough /\ Reads
    /\ UNCHANGED <<description, purpose, request, reply, sent, hungUp, service, posted, answer>>

\* The body as far as it was read; anything but 200 is a refusal.
Answered ==
    /\ request = "body"
    /\ Enough \/ (hungUp /\ got = sent)
    /\ request' = "done" /\ answer' = IF reply.status = "200" THEN "answered" ELSE "refused"
    /\ UNCHANGED <<description, purpose, reply, sent, got, hungUp, service, posted>>

\* The device leaves the request waiting for longer than a request may take.
TimesOut ==
    /\ (request = "head" /\ ~ HeadRead) \/ (request = "body" /\ ~ Enough)
    /\ got = sent /\ sent = Pieces /\ ~ reply.closes
    /\ Fails("timed out")

(* --------------------------- the control point --------------------------- *)

\* What was read of the description names the service, or nothing does.
FindsService ==
    /\ request = "done" /\ purpose = "describe" /\ answer = "answered"
    /\ LET read == SubSeq(description, 1, IF Have < Len(description) THEN Have ELSE Len(description))
       IN  IF Find(read, Asked) = {}
           THEN UNCHANGED service /\ purpose' = "given up"
           ELSE service' \in Find(read, Asked) /\ purpose' = "act"
    /\ request' = "idle"
    /\ UNCHANGED <<description, reply, sent, got, hungUp, posted, answer>>

UpnpNext ==
    \/ \E r \in Framings : (purpose # "given up" /\ Asks(r))
    \/ ConnectFails \/ Connects \/ DeviceSends \/ DeviceCloses
    \/ ReadsHead \/ FramesBody \/ ReadsBody \/ Answered \/ TimesOut \/ FindsService

UpnpSpec == UpnpInit /\ [][UpnpNext]_upnpVars

(* ------------------------------ properties ------------------------------- *)

\* A device that sends all of a reply it declared the length of is answered
\* by it, whether or not it then lets go of the connection.
HeldOpenIsAnswered ==
    (request = "done" /\ reply.complete /\ reply.declared \in 0..BodyPieces
        /\ reply.head + BodyPieces <= MaxResponse) =>
            answer \in {"answered", "refused", "unreachable"}

\* An action goes to the device that was described, under a type it announced
\* for the service asked for, and to that very service's address.
ActionStaysOnDevice ==
    posted # NoService =>
        /\ posted.endpoint.host = Location.host
        /\ \E i \in 1..Len(description) :
            /\ description[i].type = posted.type /\ posted.type.name = Asked
            /\ posted.endpoint \in Resolve(description[i].control)

\* The reply that came is the one read, and what is asked of the device goes to
\* the service it described (upnp.rs, avtransport.rs).
DeviceIsHeard == HeldOpenIsAnswered /\ ActionStaysOnDevice

=============================================================================
