---------------------------- MODULE ServiceLife ----------------------------
(***************************************************************************)
(* How long the session service lives and whose files it plays:            *)
(* idle_after, which ends a service nobody needs, and the player calls of  *)
(* dbus.rs, whose owner may leave the bus at any moment.  The engine       *)
(* (SessionEngine.tla) is reduced to the session it publishes, which stays *)
(* published until it has ended.                                           *)
(*                                                                         *)
(* Time is a tick, the window's heartbeat period; the grace is counted in  *)
(* ticks, and everything else the service does takes less than one.        *)
(***************************************************************************)
EXTENDS Integers

CONSTANTS
    Player,          \* a D-Bus connection that starts files
    NoOwner,
    Grace,           \* IDLE_GRACE over the heartbeat: 180 s over 60 s
    MaxStarts        \* bound: services started and sessions cast

ASSUME GraceAssumption == Grace \in Nat \ {0}
ASSUME NoOwnerAssumption == NoOwner # Player

VARIABLES
    alive,     \* the process: off, up, closing (Shutdown sent)
    work,      \* what the engine runs
    idle,      \* idle_after
    lease,     \* ticks until last_client_activity is older than the grace
    heartbeat, \* a window's heartbeats: it is open, one is due, one is sent
    client,    \* the player: its one start, is it on the bus, is that it
               \* left still to be forwarded
    starts

lifeVars == <<alive, work, idle, lease, heartbeat, client, starts>>

AtRest == [kind |-> "idle", owner |-> NoOwner, stopping |-> FALSE]
Fresh == [at |-> "waiting", left |-> Grace, unseen |-> TRUE, renewed |-> FALSE]

LifeInit ==
    /\ alive = "off" /\ work = AtRest /\ idle = Fresh /\ lease = 0
    /\ heartbeat = [open |-> FALSE, due |-> FALSE, sent |-> FALSE]
    /\ client = [at |-> "none", alive |-> TRUE, gone |-> FALSE]
    /\ starts = 0

Running == alive # "off"

(***************************************************************************)
(* Engine::publish: watchers wake when the snapshot moved.                 *)
(***************************************************************************)
Publish(s) ==
    /\ work' = s
    /\ idle' = [idle EXCEPT !.unseen = @ \/ s # work]

Stopped(s) == IF s = AtRest THEN s ELSE [s EXCEPT !.stopping = TRUE]

(***************************************************************************)
(* D-Bus activation: any call to a name nobody owns starts the service.    *)
(***************************************************************************)
Activated ==
    /\ alive = "off" /\ starts < MaxStarts
    /\ alive' = "up" /\ starts' = starts + 1
    /\ UNCHANGED <<work, idle, lease, heartbeat, client>>

CastArrives ==
    /\ Running /\ work = AtRest /\ starts < MaxStarts
    /\ starts' = starts + 1
    /\ Publish([AtRest EXCEPT !.kind = "cast"])
    /\ UNCHANGED <<alive, lease, heartbeat, client>>

StopArrives ==
    /\ Running
    /\ Publish(Stopped(work))
    /\ UNCHANGED <<alive, lease, heartbeat, client, starts>>

SessionEnds ==
    /\ Running /\ work # AtRest
    /\ Publish(AtRest)
    /\ UNCHANGED <<alive, lease, heartbeat, client, starts>>

\* Receivers appear and vanish the whole time a machine is idle.
ReceiversChange ==
    /\ Running
    /\ idle' = [idle EXCEPT !.unseen = TRUE]
    /\ UNCHANGED <<alive, work, lease, heartbeat, client, starts>>

(***************************************************************************)
(* The window's lease: a heartbeat a tick, the first at once.              *)
(***************************************************************************)
WindowOpens ==
    /\ Running /\ ~heartbeat.open
    /\ heartbeat' = [heartbeat EXCEPT !.open = TRUE, !.due = TRUE]
    /\ UNCHANGED <<alive, work, idle, lease, client, starts>>

WindowCloses ==
    /\ heartbeat.open
    /\ heartbeat' = [heartbeat EXCEPT !.open = FALSE, !.due = FALSE]
    /\ UNCHANGED <<alive, work, idle, lease, client, starts>>

Beats ==
    /\ heartbeat.due
    /\ heartbeat' = [heartbeat EXCEPT !.due = FALSE, !.sent = TRUE]
    /\ UNCHANGED <<alive, work, idle, lease, client, starts>>

KeepAliveArrives ==
    /\ Running /\ heartbeat.sent
    /\ heartbeat' = [heartbeat EXCEPT !.sent = FALSE]
    /\ lease' = Grace
    /\ idle' = [idle EXCEPT !.unseen = TRUE, !.renewed = TRUE]
    /\ UNCHANGED <<alive, work, client, starts>>

(***************************************************************************)
(* idle_after.  It waits while something runs, then counts; a keepalive    *)
(* moves the deadline, any other change does not.                          *)
(***************************************************************************)
Later(a, b) == IF a > b THEN a ELSE b

Turn(deadline) ==
    /\ alive = "up" /\ idle.unseen
    /\ idle' = [idle EXCEPT !.unseen = FALSE, !.renewed = FALSE,
                            !.at = IF work = AtRest THEN "counting" ELSE "waiting",
                            !.left = IF work # AtRest THEN @
                                     ELSE IF idle.at = "waiting" THEN Grace
                                     ELSE deadline]
    /\ UNCHANGED <<alive, work, lease, heartbeat, client, starts>>

IdleTurn_EveryChange == Turn(Grace)
IdleTurn_NoLease == Turn(idle.left)
IdleTurn == Turn(Later(idle.left, lease))

IdleDeadline ==
    /\ alive = "up" /\ idle.at = "counting" /\ idle.left = 0
    /\ IF work = AtRest
       THEN alive' = "closing" /\ UNCHANGED idle
       ELSE idle' = [idle EXCEPT !.at = "waiting", !.unseen = TRUE] /\ UNCHANGED alive
    /\ UNCHANGED <<work, lease, heartbeat, client, starts>>

Less(n) == IF n = 0 THEN 0 ELSE n - 1

Tick ==
    /\ alive = "up" /\ ~heartbeat.due /\ ~heartbeat.sent /\ ~idle.renewed
    /\ idle.at = "counting" => idle.left > 0
    /\ idle' = IF idle.at = "counting" THEN [idle EXCEPT !.left = @ - 1] ELSE idle
    /\ lease' = Less(lease)
    /\ heartbeat' = [heartbeat EXCEPT !.due = @ \/ heartbeat.open]
    /\ UNCHANGED <<alive, work, client, starts>>

\* SIGTERM, Ctrl+C, the bus gone, or another service on the name.
Terminated ==
    /\ alive = "up" /\ starts < MaxStarts
    /\ alive' = "closing" /\ starts' = starts + 1
    /\ UNCHANGED <<work, idle, lease, heartbeat, client>>

(***************************************************************************)
(* The engine took Shutdown, ended what ran and returned; the process      *)
(* leaves the bus, which fails the calls it had not answered.              *)
(***************************************************************************)
Exits ==
    /\ alive = "closing"
    /\ alive' = "off" /\ work' = AtRest /\ idle' = Fresh /\ lease' = 0
    /\ heartbeat' = [open |-> FALSE, due |-> FALSE, sent |-> FALSE]
    /\ client' = [client EXCEPT !.gone = FALSE,
                                !.at = IF @ = "none" THEN "none" ELSE "done"]
    /\ UNCHANGED starts

(***************************************************************************)
(* A player's start: the files are inspected, the engine starts them,      *)
(* records the owner and answers, and only then is the caller looked for   *)
(* on the bus.                                                             *)
(***************************************************************************)
PlayerCalls ==
    /\ alive = "up" /\ client.at = "none" /\ client.alive
    /\ client' = [client EXCEPT !.at = "inspecting"]
    /\ UNCHANGED <<alive, work, idle, lease, heartbeat, starts>>

PlayerStarts ==
    /\ Running /\ client.at = "inspecting"
    /\ IF work = AtRest
       THEN /\ Publish([kind |-> "files", owner |-> Player, stopping |-> FALSE])
            /\ client' = [client EXCEPT !.at = "started"]
       ELSE /\ client' = [client EXCEPT !.at = "done"]
            /\ UNCHANGED <<work, idle>>
    /\ UNCHANGED <<alive, lease, heartbeat, starts>>

OwnersSessionStops == IF work.owner = Player THEN Stopped(work) ELSE work

PlayerLookedUp_Not ==
    /\ Running /\ client.at = "started"
    /\ client' = [client EXCEPT !.at = "done"]
    /\ UNCHANGED <<alive, work, idle, lease, heartbeat, starts>>

PlayerLookedUp ==
    /\ Running /\ client.at = "started"
    /\ client' = [client EXCEPT !.at = "done"]
    /\ Publish(IF client.alive THEN work ELSE OwnersSessionStops)
    /\ UNCHANGED <<alive, lease, heartbeat, starts>>

\* control_player obeys the connection that owns the work, and no other.
PlayerStops ==
    /\ Running /\ client.alive /\ client.at = "done"
    /\ Publish(OwnersSessionStops)
    /\ UNCHANGED <<alive, lease, heartbeat, client, starts>>

\* Its connection leaves the bus; forward_disconnects hears of it later.
PlayerLeaves ==
    /\ client.alive
    /\ client' = [client EXCEPT !.alive = FALSE, !.gone = Running]
    /\ UNCHANGED <<alive, work, idle, lease, heartbeat, starts>>

PlayerGone ==
    /\ Running /\ client.gone
    /\ client' = [client EXCEPT !.gone = FALSE]
    /\ Publish(OwnersSessionStops)
    /\ UNCHANGED <<alive, lease, heartbeat, starts>>

LifeNext ==
    \/ Activated \/ CastArrives \/ StopArrives \/ SessionEnds \/ ReceiversChange
    \/ WindowOpens \/ WindowCloses \/ Beats \/ KeepAliveArrives
    \/ IdleTurn \/ IdleDeadline \/ Tick \/ Terminated \/ Exits
    \/ PlayerCalls \/ PlayerStarts \/ PlayerLookedUp \/ PlayerStops \/ PlayerLeaves
    \/ PlayerGone

(***************************************************************************)
(* Fairness: the service's tasks run, a stopped session ends, time passes. *)
(***************************************************************************)
StoppedEnds == SessionEnds /\ work.stopping

LifeFairness ==
    /\ WF_lifeVars(KeepAliveArrives) /\ WF_lifeVars(Beats)
    /\ WF_lifeVars(IdleTurn) /\ WF_lifeVars(IdleDeadline) /\ WF_lifeVars(Tick)
    /\ WF_lifeVars(Exits) /\ WF_lifeVars(StoppedEnds)
    /\ WF_lifeVars(PlayerStarts) /\ WF_lifeVars(PlayerLookedUp) /\ WF_lifeVars(PlayerGone)

LifeTypeOK ==
    /\ alive \in {"off", "up", "closing"}
    /\ work \in [kind : {"idle", "cast", "files"}, owner : {NoOwner, Player},
                    stopping : BOOLEAN]
    /\ idle \in [at : {"waiting", "counting"}, left : 0..Grace,
                 unseen : BOOLEAN, renewed : BOOLEAN]
    /\ lease \in 0..Grace
    /\ heartbeat \in [open : BOOLEAN, due : BOOLEAN, sent : BOOLEAN]
    /\ client \in [at : {"none", "inspecting", "started", "done"},
                   alive : BOOLEAN, gone : BOOLEAN]
    /\ starts \in 0..MaxStarts

(***************************************************************************)
(* A service that an open window keeps alive does not leave for being      *)
(* idle, once idle_after has taken note of the window's last heartbeat.    *)
(***************************************************************************)
Leased == heartbeat.open /\ ~heartbeat.due /\ ~heartbeat.sent /\ ~idle.renewed
LeaseKeepsService ==
    [][alive = "up" /\ alive' = "closing" /\ starts' = starts => ~Leased]_lifeVars

(***************************************************************************)
(* Started on demand does not mean started for ever: with the window       *)
(* closed and nothing running the service leaves, however often receivers  *)
(* come and go meanwhile (idle_after).                                     *)
(***************************************************************************)
Needless == ~heartbeat.open /\ work = AtRest
IdleLeaves == Needless ~> (alive = "off" \/ ~Needless)

(***************************************************************************)
(* A client that started files and left the bus does not leave them        *)
(* playing: whatever it owned ends, even when it left before the engine    *)
(* had recorded it as the owner (start_items, forward_disconnects).        *)
(***************************************************************************)
OwnerlessEnds == (~client.alive) ~> (work.owner # Player)
=============================================================================
