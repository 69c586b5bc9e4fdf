------------------------------- MODULE Window -------------------------------
(***************************************************************************)
(* The window and its link to the session service.  The service publishes  *)
(* one snapshot; one of its tasks tells the bus which properties changed.  *)
(* In the window one task follows the service: it subscribes, reads every  *)
(* property, then applies signals, and reconnects when the service goes.   *)
(* What it learns reaches the model as commands in a channel, behind which *)
(* the person's clicks are handled at once: a click acts on what the       *)
(* window last saw.                                                        *)
(*                                                                         *)
(* The engine (SessionEngine.tla) is reduced to the session it publishes.  *)
(***************************************************************************)
EXTENDS Integers, Sequences, FiniteSets

CONSTANTS
    Flicker,         \* a property may change and change back unseen by the
                     \* emitter
    MaxBus,          \* bound: signals under way
    MaxMail,         \* bound: commands under way to the model
    MaxLosses,       \* bound: services terminated and links that failed
    MaxAsks          \* bound: receivers the person picks, files others send

VARIABLES
    daemon,    \* the process: off, early (it answers calls, the emitter has
               \* not subscribed), up, closing (Shutdown sent)
    session,   \* what the engine runs: nothing, a cast or files, stopping
    news,      \* a property the window only redraws changed since the last
               \* pass of the emitter
    told,      \* the emitter's `previous`
    owed,      \* the properties this pass still has to signal
    bus,       \* signals for the window, in order
    lost,      \* NameOwnerChanged for the service's name, for the window
    calls,     \* the window's calls the engine has not handled
    link,      \* the follower: down, listening, reading, up, closed
    read,      \* its ServiceState
    readEarly, \* that state was read from a service whose emitter had not begun
    mail,      \* AppCmds for the model, in order
    service,   \* AppModel.service is Some
    view,      \* AppModel.state
    dialog,    \* switch_to holds a receiver and the dialog asks
    pending,   \* pending_cast
    asks, losses

serviceVars == <<daemon, session, news, told, owed>>
appVars == <<service, view, dialog, pending>>
windowVars == <<daemon, session, news, told, owed, bus, lost, calls, link, read,
                readEarly, mail, service, view, dialog, pending, asks, losses>>

(***************************************************************************)
(* The snapshot, as far as the window's decisions go: is a cast published, *)
(* are files.  A stopping session stays published until it has ended.      *)
(***************************************************************************)
Shown == {"session", "media"}
Idle == [kind |-> "idle", stopping |-> FALSE]
Published(s) == [session |-> s.kind = "cast", media |-> s.kind = "files"]
Busy(v) == v.session \/ v.media
Blank == [session |-> FALSE, media |-> FALSE]

WindowInit ==
    /\ daemon = "off" /\ session = Idle /\ news = FALSE /\ told = Blank
    /\ owed = {} /\ bus = <<>> /\ lost = FALSE /\ calls = {}
    /\ link = "down" /\ read = Blank /\ readEarly = FALSE
    /\ mail = <<>> /\ service = FALSE /\ view = Blank
    /\ dialog = FALSE /\ pending = FALSE /\ asks = 0 /\ losses = 0

Up == daemon # "off"

(***************************************************************************)
(* Engine::publish.  Unless Flicker is allowed, a property does not go     *)
(* back to what the emitter last saw before the emitter has looked again:  *)
(* it is awake within microseconds, a session lasts seconds.               *)
(***************************************************************************)
Steady(s) ==
    Flicker \/ \A p \in Shown :
        Published(s)[p] # Published(session)[p] => Published(s)[p] # told[p]

Publishes(s) == Steady(s) /\ session' = s

(***************************************************************************)
(* The engine's side of a call: begin_cast, which refuses while anything   *)
(* runs, and stop_everything.                                              *)
(***************************************************************************)
CastCalled ==
    /\ Up /\ "cast" \in calls
    /\ calls' = calls \ {"cast"}
    /\ Publishes(IF session = Idle THEN [Idle EXCEPT !.kind = "cast"] ELSE session)
    /\ UNCHANGED <<daemon, news, told, owed, bus, lost, link, read, readEarly, mail,
                   appVars, asks, losses>>

StopCalled ==
    /\ Up /\ "stop" \in calls
    /\ calls' = calls \ {"stop"}
    /\ Publishes(IF session = Idle THEN Idle ELSE [session EXCEPT !.stopping = TRUE])
    /\ UNCHANGED <<daemon, news, told, owed, bus, lost, link, read, readEarly, mail,
                   appVars, asks, losses>>

ScreensCalled ==
    /\ Up /\ "screens" \in calls /\ link # "closed" /\ Len(mail) < MaxMail
    /\ calls' = calls \ {"screens"}
    /\ mail' = Append(mail, [kind |-> "screens", state |-> Blank])
    /\ UNCHANGED <<serviceVars, bus, lost, link, read, readEarly, appVars, asks, losses>>

\* Another client sends files.
OthersSend ==
    /\ Up /\ session = Idle /\ asks < MaxAsks
    /\ Publishes([Idle EXCEPT !.kind = "files"])
    /\ asks' = asks + 1
    /\ UNCHANGED <<daemon, news, told, owed, bus, lost, calls, link, read, readEarly, mail,
                   appVars, losses>>

SessionOver ==
    /\ Up /\ session # Idle
    /\ Publishes(Idle)
    /\ UNCHANGED <<daemon, news, told, owed, bus, lost, calls, link, read, readEarly, mail,
                   appVars, asks, losses>>

ReceiversMove ==
    /\ Up /\ ~news /\ owed = {}
    /\ news' = TRUE
    /\ UNCHANGED <<daemon, session, told, owed, bus, lost, calls, link, read, readEarly, mail,
                   appVars, asks, losses>>

(***************************************************************************)
(* emit_property_changes.  A pass compares two snapshots; each signal then *)
(* carries the property as it is when it is sent, because the generated    *)
(* emitter calls the getter.                                               *)
(***************************************************************************)
EmitterStarts ==
    /\ daemon = "early"
    /\ daemon' = "up"
    /\ told' = Published(session) /\ news' = FALSE
    /\ UNCHANGED <<session, owed, bus, lost, calls, link, read, readEarly, mail, appVars,
                   asks, losses>>

EmitterPass ==
    /\ daemon \in {"up", "closing"} /\ owed = {}
    /\ news \/ told # Published(session)
    /\ owed' = {p \in Shown : told[p] # Published(session)[p]}
               \cup (IF news THEN {"receivers"} ELSE {})
    /\ told' = Published(session) /\ news' = FALSE
    /\ UNCHANGED <<daemon, session, bus, lost, calls, link, read, readEarly, mail, appVars,
                   asks, losses>>

FirstOwed == IF "receivers" \in owed THEN "receivers"
             ELSE IF "session" \in owed THEN "session" ELSE "media"

Listening_OnceRead == link = "up"
Listening == link \in {"listening", "reading", "up"}

EmitterSignals ==
    /\ owed # {} /\ Len(bus) < MaxBus
    /\ owed' = owed \ {FirstOwed}
    /\ bus' = IF ~Listening THEN bus
              ELSE Append(bus, [property |-> FirstOwed,
                                value |-> IF FirstOwed \in Shown
                                          THEN Published(session)[FirstOwed] ELSE FALSE])
    /\ UNCHANGED <<daemon, session, news, told, lost, calls, link, read, readEarly, mail,
                   appVars, asks, losses>>

(***************************************************************************)
(* The service is told to stop or finds itself idle (ServiceLife.tla),     *)
(* ends what ran and leaves the bus.                                       *)
(***************************************************************************)
ShutDown ==
    /\ daemon \in {"early", "up"} /\ losses < MaxLosses
    /\ daemon' = "closing" /\ losses' = losses + 1
    /\ UNCHANGED <<session, news, told, owed, bus, lost, calls, link, read, readEarly, mail,
                   appVars, asks>>

Departs ==
    /\ daemon = "closing"
    /\ daemon' = "off" /\ session' = Idle /\ news' = FALSE /\ told' = Blank
    /\ owed' = {} /\ calls' = {}
    /\ lost' = Listening
    /\ UNCHANGED <<bus, link, read, readEarly, mail, appVars, asks, losses>>

(***************************************************************************)
(* follow_the_service.                                                     *)
(***************************************************************************)
MailRoom(n) == Len(mail) + n <= MaxMail
Connected == [kind |-> "connected", state |-> Blank]
State(s) == [kind |-> "state", state |-> s]
Unreachable == [kind |-> "unreachable", state |-> Blank]

Subscribes ==
    /\ link = "down"
    /\ link' = "listening" /\ bus' = <<>> /\ lost' = FALSE
    /\ UNCHANGED <<serviceVars, calls, read, readEarly, mail, appVars, asks, losses>>

\* GetAll on a name nobody owns starts the service.
Activates ==
    /\ link = "listening" /\ daemon = "off"
    /\ daemon' = "early"
    /\ UNCHANGED <<session, news, told, owed, bus, lost, calls, link, read, readEarly, mail,
                   appVars, asks, losses>>

FollowerReads ==
    /\ link = "listening" /\ Up
    /\ link' = "reading"
    /\ read' = Published(session) /\ readEarly' = (daemon = "early")
    /\ UNCHANGED <<serviceVars, bus, lost, calls, mail, appVars, asks, losses>>

Connects ==
    /\ link = "reading" /\ MailRoom(2)
    /\ link' = "up"
    /\ mail' = mail \o <<Connected, State(read)>>
    /\ UNCHANGED <<serviceVars, bus, lost, calls, read, readEarly, appVars, asks, losses>>

Applied(s, signal) ==
    IF signal.property \in Shown THEN [s EXCEPT ![signal.property] = signal.value] ELSE s

Changes ==
    /\ link = "up" /\ bus # <<>> /\ MailRoom(1)
    /\ read' = Applied(read, Head(bus))
    /\ bus' = Tail(bus)
    /\ mail' = Append(mail, State(read'))
    /\ UNCHANGED <<serviceVars, lost, calls, link, readEarly, appVars, asks, losses>>

Disconnects ==
    /\ MailRoom(1)
    /\ link' = "down" /\ bus' = <<>> /\ lost' = FALSE
    /\ mail' = Append(mail, Unreachable)
    /\ UNCHANGED <<serviceVars, calls, read, readEarly, appVars, asks>>

OwnerLost == link = "up" /\ lost /\ Disconnects /\ UNCHANGED losses

\* A read or a heartbeat that is not answered within five seconds, or a bus
\* error; the service may well be alive.
LinkFails ==
    /\ link \in {"listening", "reading", "up"} /\ losses < MaxLosses
    /\ Disconnects /\ losses' = losses + 1

(***************************************************************************)
(* AppModel::call and begin_cast.  Without a proxy the answer is made up   *)
(* on the spot, and arrives through the same channel.  The screens are     *)
(* asked for first, unless a window or a virtual screen is shared.         *)
(***************************************************************************)
Call(name, queue) ==
    IF service
    THEN /\ calls' = IF Up THEN calls \cup {name} ELSE calls
         /\ mail' = queue
    ELSE /\ Len(queue) < MaxMail
         /\ mail' = Append(queue, Unreachable)
         /\ calls' = calls

BeginsCast(queue) == \E first \in {"screens", "cast"} : Call(first, queue)

UserPicks ==
    /\ link # "closed" /\ asks < MaxAsks /\ ~dialog
    /\ asks' = asks + 1
    /\ IF Busy(view) THEN dialog' = TRUE /\ UNCHANGED <<calls, mail>>
                     ELSE UNCHANGED dialog /\ BeginsCast(mail)
    /\ UNCHANGED <<serviceVars, bus, lost, link, read, readEarly, service, view, pending,
                   losses>>

UserSwitches ==
    /\ link # "closed" /\ dialog
    /\ dialog' = FALSE /\ pending' = TRUE
    /\ Call("stop", mail)
    /\ UNCHANGED <<serviceVars, bus, lost, link, read, readEarly, service, view, asks, losses>>

UserKeeps ==
    /\ dialog
    /\ dialog' = FALSE
    /\ UNCHANGED <<serviceVars, bus, lost, calls, link, read, readEarly, mail, service, view,
                   pending, asks, losses>>

UserStops ==
    /\ link # "closed" /\ Busy(view) /\ ~dialog
    /\ Call("stop", mail)
    /\ UNCHANGED <<serviceVars, bus, lost, link, read, readEarly, appVars, asks, losses>>

\* CloseRequested with nothing left to save.
UserCloses ==
    /\ link # "closed"
    /\ link' = "closed" /\ bus' = <<>> /\ lost' = FALSE /\ mail' = <<>>
    /\ service' = FALSE /\ view' = Blank /\ read' = Blank /\ readEarly' = FALSE
    /\ dialog' = FALSE /\ pending' = FALSE
    /\ UNCHANGED <<serviceVars, calls, asks, losses>>

(***************************************************************************)
(* update_cmd_with_view: one command of the channel.                       *)
(***************************************************************************)
IsConnected ==
    /\ Head(mail).kind = "connected"
    /\ service' = TRUE /\ mail' = Tail(mail)
    /\ UNCHANGED <<view, pending, calls>>

IsUnreachable ==
    /\ Head(mail).kind = "unreachable"
    /\ service' = FALSE /\ view' = Blank /\ mail' = Tail(mail)
    /\ UNCHANGED <<pending, calls>>

IsScreens ==
    /\ Head(mail).kind = "screens"
    /\ Call("cast", Tail(mail))
    /\ UNCHANGED <<service, view, pending>>

\* apply_state.
IsState ==
    /\ Head(mail).kind = "state"
    /\ view' = Head(mail).state
    /\ IF ~Busy(view') /\ pending
       THEN pending' = FALSE /\ BeginsCast(Tail(mail))
       ELSE mail' = Tail(mail) /\ UNCHANGED <<pending, calls>>
    /\ UNCHANGED service

Handles ==
    /\ link # "closed" /\ mail # <<>>
    /\ IsConnected \/ IsUnreachable \/ IsScreens \/ IsState
    /\ UNCHANGED <<serviceVars, bus, lost, link, read, readEarly, dialog, asks, losses>>

Emits == EmitterStarts \/ EmitterPass \/ EmitterSignals
Follows == Subscribes \/ Activates \/ FollowerReads \/ Connects \/ Changes \/ OwnerLost

WindowNext ==
    \/ CastCalled \/ StopCalled \/ ScreensCalled \/ OthersSend \/ SessionOver
    \/ ReceiversMove \/ Emits \/ ShutDown \/ Departs
    \/ Follows \/ LinkFails \/ Handles
    \/ UserPicks \/ UserSwitches \/ UserKeeps \/ UserStops \/ UserCloses

(***************************************************************************)
(* Fairness: the service's tasks, the follower and the window's main loop  *)
(* run, and a stopped session ends.                                        *)
(***************************************************************************)
StoppedOver == SessionOver /\ session.stopping

WindowFairness ==
    /\ WF_windowVars(CastCalled) /\ WF_windowVars(StopCalled)
    /\ WF_windowVars(ScreensCalled) /\ WF_windowVars(StoppedOver)
    /\ WF_windowVars(Emits) /\ WF_windowVars(Departs)
    /\ WF_windowVars(Follows) /\ WF_windowVars(Handles)

WindowSpec == WindowInit /\ [][WindowNext]_windowVars /\ WindowFairness

WindowTypeOK ==
    /\ daemon \in {"off", "early", "up", "closing"}
    /\ session \in [kind : {"idle", "cast", "files"}, stopping : BOOLEAN]
    /\ news \in BOOLEAN /\ lost \in BOOLEAN
    /\ told \in [Shown -> BOOLEAN] /\ read \in [Shown -> BOOLEAN]
    /\ view \in [Shown -> BOOLEAN]
    /\ owed \subseteq Shown \cup {"receivers"}
    /\ bus \in Seq([property : Shown \cup {"receivers"}, value : BOOLEAN])
    /\ mail \in Seq([kind : {"connected", "state", "unreachable", "screens"},
                     state : [Shown -> BOOLEAN]])
    /\ calls \subseteq {"cast", "stop", "screens"}
    /\ link \in {"down", "listening", "reading", "up", "closed"}
    /\ readEarly \in BOOLEAN /\ service \in BOOLEAN
    /\ dialog \in BOOLEAN /\ pending \in BOOLEAN

(***************************************************************************)
(* Once everything under way has arrived, a window that has its proxy      *)
(* draws what the service publishes: subscribing before reading misses no  *)
(* change, and applying a change older than what was read does no lasting  *)
(* harm.  Except that nothing tells a change made between the answer and   *)
(* the emitter's first look, in a service that has just been started.      *)
(***************************************************************************)
Arrived == link = "up" /\ ~lost /\ bus = <<>> /\ mail = <<>>
DaemonSettled == daemon = "up" /\ owed = {} /\ told = Published(session)
ViewIsCurrent ==
    Arrived /\ DaemonSettled /\ service /\ ~readEarly => view = Published(session)

(***************************************************************************)
(* "The session service, once it has answered.  None while connecting, or  *)
(* after it could not be reached": a connected follower whose commands     *)
(* were all handled has left the window a proxy to call.                   *)
(***************************************************************************)
ConnectedIsCallable == Arrived => service

(***************************************************************************)
(* "Stop the running session, then start the one asked for meanwhile":     *)
(* a confirmed switch is carried out while the link holds.                 *)
(***************************************************************************)
SwitchHappens == (pending /\ link = "up") ~> (~pending \/ link # "up")
=============================================================================
