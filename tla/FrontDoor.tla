----------------------------- MODULE FrontDoor -----------------------------
(***************************************************************************)
(* Browser sharing (nd-webrtc): WebRtcPublisher, which runs one            *)
(* publication at a time, and the front door it opens, which serves the    *)
(* page, judges the PIN and passes WHEP requests on to the element.        *)
(*                                                                         *)
(* A PIN request is judged after its body has been read, by a guard per    *)
(* address and one for all of them; what the guards forget and keep is     *)
(* what bounds the guesses.  Time is counted in lockouts of PIN_LOCKOUT.   *)
(***************************************************************************)
EXTENDS Integers, FiniteSets

CONSTANTS
    Conn,            \* connections that may be open or queued at once
    Peer,            \* addresses that connect
    Nobody,          \* Option::None
    MaxClients,      \* MAX_CLIENTS
    PinAttempts,     \* PIN_ATTEMPTS
    PinAttemptsAll,  \* PIN_ATTEMPTS_ALL
    MaxTracked,      \* MAX_TRACKED_PEERS
    LockoutMax,      \* PIN_LOCKOUT_MAX over PIN_LOCKOUT
    MaxWrong,        \* bound: wrong PINs entered
    MaxPublications  \* bound

ASSUME DoorAssumption ==
    /\ MaxClients \in Nat \ {0} /\ MaxTracked \in Nat \ {0}
    /\ PinAttempts \in Nat \ {0} /\ PinAttemptsAll \in Nat \ {0}
    /\ LockoutMax \in Nat \ {0}

VARIABLES
    publication,     \* WebRtcPublisher: idle, opening, streaming, closing
    access,          \* the address and PIN are shown
    cancel,          \* the cancel channel's value
    door,            \* the accept loop: none, open, stopped
    element,         \* the WHEP element: off, starting, up
    clients,         \* what each connection is at
    guards,          \* PinGuards
    wrong,           \* wrong PINs entered
    publications,
    holders,         \* the addresses that were given this door's token
    barred,          \* history: ticks an address must still be refused
    guesses          \* history: wrong PINs judged since all were locked out

publicationVars == <<publication, access, cancel, element, publications>>
doorVars == <<door, clients, guards, wrong, holders, barred, guesses>>
frontVars == <<publicationVars, doorVars>>

Guard == [failures |-> 0, locked |-> 0, last |-> 0]
Off == [at |-> "off", peer |-> Nobody]
Open == {c \in Conn : clients[c].at # "off"}

FrontInit ==
    /\ publication = "idle" /\ access = FALSE /\ cancel = FALSE
    /\ door = "none" /\ element = "off"
    /\ clients = [c \in Conn |-> Off]
    /\ guards = [all |-> Guard, peers |-> [p \in {} |-> Guard]]
    /\ wrong = 0 /\ publications = 0 /\ holders = {}
    /\ barred = [p \in Peer |-> 0] /\ guesses = 0

(***************************************************************************)
(* WebRtcPublisher::start_stream, publish and stop_stream.                 *)
(***************************************************************************)
StartStream ==
    /\ publication = "idle" /\ publications < MaxPublications
    /\ door = "none"               \* bound: the last door's task has ended
    /\ publication' = "opening" /\ cancel' = FALSE
    /\ publications' = publications + 1
    /\ UNCHANGED <<access, element, doorVars>>

\* Session::start up to serve: addresses, ports, secrets; each may fail.
OpensDoor ==
    /\ publication = "opening" /\ door = "none"
    /\ \/ publication' = "idle" /\ UNCHANGED <<door, guards, holders, barred, guesses>>
       \/ /\ door' = "open" /\ UNCHANGED publication
          /\ guards' = [all |-> Guard, peers |-> [p \in {} |-> Guard]]
          /\ holders' = {} /\ guesses' = 0
          /\ barred' = [p \in Peer |-> 0]
    /\ UNCHANGED <<access, cancel, element, publications, clients, wrong>>

\* The pipeline; a session that does not start drops its door.
StartsPipeline ==
    /\ publication = "opening" /\ door = "open"
    /\ \/ /\ publication' = "streaming" /\ access' = TRUE
          /\ element' = "starting" /\ UNCHANGED door
       \/ /\ publication' = "idle" /\ door' = "stopped"
          /\ UNCHANGED <<access, element>>
    /\ UNCHANGED <<cancel, publications, clients, guards, wrong, holders,
                   barred, guesses>>

StopStream ==
    /\ publication # "idle" /\ ~cancel
    /\ cancel' = TRUE
    /\ UNCHANGED <<publication, access, element, publications, doorVars>>

\* The stop is seen, or the pipeline failed or ended.
Ends(cause) ==
    /\ publication = "streaming" /\ cause
    /\ publication' = "closing" /\ access' = FALSE
    /\ UNCHANGED <<cancel, element, publications, doorVars>>

SeesCancel == Ends(cancel)
PipelineEnds == Ends(TRUE)

\* Session::close: the pipeline goes first, then the door's handle.
Closes ==
    /\ publication = "closing"
    /\ publication' = "idle" /\ element' = "off"
    /\ door' = "stopped"
    /\ UNCHANGED <<access, cancel, publications, clients, guards, wrong,
                   holders, barred, guesses>>

ElementComesUp ==
    /\ element = "starting" /\ element' = "up"
    /\ UNCHANGED <<publication, access, cancel, publications, doorVars>>

(***************************************************************************)
(* serve: the accept loop.  Its end aborts every client's task.            *)
(***************************************************************************)
LoopEnds_LeavesClients ==
    /\ door = "stopped"
    /\ door' = "none"
    /\ UNCHANGED <<publicationVars, clients, guards, wrong, holders, barred, guesses>>

LoopEnds ==
    /\ door = "stopped"
    /\ door' = "none" /\ clients' = [c \in Conn |-> Off]
    /\ UNCHANGED <<publicationVars, guards, wrong, holders, barred, guesses>>

Served(c, next) ==
    /\ clients' = [clients EXCEPT ![c] = next]
    /\ UNCHANGED <<publicationVars, door>>

\* A connection past MAX_CLIENTS is dropped at once.
Accepts(c) ==
    /\ door = "open" /\ clients[c] = Off
    /\ Cardinality(Open) < MaxClients
    /\ \E p \in Peer : Served(c, [at |-> "request", peer |-> p])
    /\ UNCHANGED <<guards, wrong, holders, barred, guesses>>

Replied(c) == Served(c, Off) /\ UNCHANGED <<guards, wrong, holders, barred, guesses>>

\* The connection ends: its reply was sent, it broke, or CONNECTION_TIMEOUT.
Leaves(c) ==
    /\ clients[c] # Off
    /\ Replied(c)

(***************************************************************************)
(* handle and check_pin.                                                   *)
(***************************************************************************)
LockedOut(guard) == guard.locked > 0

Locked(p) ==
    \/ LockedOut(guards.all)
    \/ p \in DOMAIN guards.peers /\ LockedOut(guards.peers[p])

\* POST /pin: refused at once while locked out, else the body is read.
AsksPin(c) ==
    /\ clients[c].at = "request"
    /\ IF Locked(clients[c].peer) THEN Replied(c)
       ELSE /\ Served(c, [clients[c] EXCEPT !.at = "pin"])
            /\ UNCHANGED <<guards, wrong, holders, barred, guesses>>

\* POST /whep and PATCH, DELETE on a resource, with the token.
AsksWhep(c) ==
    /\ clients[c].at = "request" /\ clients[c].peer \in holders
    /\ Served(c, [clients[c] EXCEPT !.at = "upstream"])
    /\ UNCHANGED <<guards, wrong, holders, barred, guesses>>

\* forward: waits while the element starts, then passes its answer on.
Forwards(c) ==
    /\ clients[c].at = "upstream" /\ element = "up"
    /\ Replied(c)

(***************************************************************************)
(* PinGuard::fail and record_pin_attempt.                                  *)
(***************************************************************************)
Lockout(guard) ==
    IF guard.last = 0 THEN 1
    ELSE IF guard.last * 2 > LockoutMax THEN LockoutMax ELSE guard.last * 2

Failed(guard, limit) ==
    IF guard.failures + 1 < limit
    THEN [guard EXCEPT !.failures = @ + 1]
    ELSE [failures |-> 0, locked |-> Lockout(guard), last |-> Lockout(guard)]

Kept_Nobody(peers, p) ==
    IF Cardinality(DOMAIN peers) >= MaxTracked /\ p \notin DOMAIN peers
    THEN {}
    ELSE DOMAIN peers

\* Past MAX_TRACKED_PEERS the addresses that are not locked out are forgotten.
Kept(peers, p) ==
    IF Cardinality(DOMAIN peers) >= MaxTracked /\ p \notin DOMAIN peers
    THEN {q \in DOMAIN peers : LockedOut(peers[q])}
    ELSE DOMAIN peers

Entry(peers, p) == IF p \in DOMAIN peers THEN peers[p] ELSE Guard

Counted(p) ==
    [all |-> Failed(guards.all, PinAttemptsAll),
     peers |-> [q \in Kept(guards.peers, p) \cup {p} |->
                   IF q = p THEN Failed(Entry(guards.peers, p), PinAttempts)
                   ELSE guards.peers[q]]]

Cleared_All(p) ==
    [all |-> [guards.all EXCEPT !.failures = 0],
     peers |-> [q \in DOMAIN guards.peers |->
                   IF q = p THEN [guards.peers[q] EXCEPT !.failures = 0]
                   ELSE guards.peers[q]]]

\* A right PIN clears its own address's count and no other.
Cleared(p) ==
    [guards EXCEPT !.peers =
        [q \in DOMAIN @ |-> IF q = p THEN [@[q] EXCEPT !.failures = 0] ELSE @[q]]]

Barring(p, now) ==
    [q \in Peer |->
        IF now.all.locked > guards.all.locked /\ now.all.locked > barred[q]
        THEN now.all.locked
        ELSE IF q = p /\ now.peers[p].locked > barred[q]
        THEN now.peers[p].locked ELSE barred[q]]

\* Judged under the guards' lock, which looks at the lockout again.
JudgesRight(c) ==
    LET p == clients[c].peer IN
    /\ clients[c].at = "pin" /\ ~Locked(p)
    /\ guards' = Cleared(p) /\ holders' = holders \cup {p}
    /\ Served(c, Off)
    /\ UNCHANGED <<wrong, barred, guesses>>

JudgesWrong(c) ==
    LET p == clients[c].peer
        now == Counted(p) IN
    /\ clients[c].at = "pin" /\ ~Locked(p) /\ wrong < MaxWrong
    /\ guards' = now /\ wrong' = wrong + 1
    /\ barred' = Barring(p, now)
    /\ guesses' = IF LockedOut(now.all) THEN 0 ELSE guesses + 1
    /\ Served(c, Off)
    /\ UNCHANGED holders

JudgesNothing(c) ==
    /\ clients[c].at = "pin" /\ Locked(clients[c].peer)
    /\ Replied(c)

Less(n) == IF n = 0 THEN 0 ELSE n - 1

Tick ==
    /\ guards' = [all |-> [guards.all EXCEPT !.locked = Less(@)],
                  peers |-> [q \in DOMAIN guards.peers |->
                                [guards.peers[q] EXCEPT !.locked = Less(@)]]]
    /\ barred' = [q \in Peer |-> Less(barred[q])]
    /\ guards' # guards
    /\ UNCHANGED <<publicationVars, door, clients, wrong, holders, guesses>>

FrontNext ==
    \/ StartStream \/ OpensDoor \/ StartsPipeline \/ StopStream
    \/ SeesCancel \/ PipelineEnds \/ Closes \/ ElementComesUp
    \/ LoopEnds \/ Tick
    \/ \E c \in Conn :
        \/ Accepts(c) \/ Leaves(c) \/ AsksPin(c) \/ AsksWhep(c) \/ Forwards(c)
        \/ JudgesRight(c) \/ JudgesWrong(c) \/ JudgesNothing(c)

FrontSpec == FrontInit /\ [][FrontNext]_frontVars

(***************************************************************************)
(* The runtime runs every ready task; the calls of Session::start return.  *)
(***************************************************************************)
DoorFairness ==
    /\ WF_frontVars(OpensDoor) /\ WF_frontVars(StartsPipeline)
    /\ WF_frontVars(SeesCancel) /\ WF_frontVars(Closes) /\ WF_frontVars(LoopEnds)

FrontFairSpec == FrontSpec /\ DoorFairness

(***************************************************************************)
(* Properties.                                                             *)
(***************************************************************************)
DoorTypeOK ==
    /\ publication \in {"idle", "opening", "streaming", "closing"}
    /\ access \in BOOLEAN /\ cancel \in BOOLEAN
    /\ door \in {"none", "open", "stopped"}
    /\ element \in {"off", "starting", "up"}
    /\ \A c \in Conn : clients[c].at \in {"off", "request", "pin", "upstream"}
    /\ DOMAIN guards.peers \subseteq Peer
    /\ holders \subseteq Peer /\ guesses \in Nat

\* A wrong PIN from an address that was locked out is not judged before its
\* lockout has passed, whatever else the guards forgot meanwhile and however
\* slowly the request was sent.
NoGuessWhileBarred ==
    [][\A p \in Peer :
        barred[p] > 0 /\ door = "open" =>
            /\ p \in holders' => p \in holders
            /\ \A c \in Conn : clients[c].peer = p => ~JudgesWrong(c)]_frontVars

\* However many addresses guess, and whoever knows the PIN joins between,
\* all of them together are locked out after PIN_ATTEMPTS_ALL wrong ones.
GuessesBounded == guesses < PinAttemptsAll

\* A stop ends the publication with every connection its door had taken.
StopEmptiesDoor ==
    cancel /\ publication # "idle"
        ~> publication = "idle" /\ door = "none" /\ Open = {}

\* The address is shown only while there is a door behind it.
AccessHasDoor == access => door = "open"

\* The PIN stands against each address and against all of them together, the
\* address shown has a door behind it, and a stop closes every connection
\* (server.rs, PinGuards; lib.rs, publish).
DoorHolds ==
    /\ []GuessesBounded /\ []AccessHasDoor
    /\ NoGuessWhileBarred /\ StopEmptiesDoor
=============================================================================
