------------------------------ MODULE Capture ------------------------------
(***************************************************************************)
(* Capturing a screen: nd-capture's three backends and the use cast.rs     *)
(* makes of one.  A cast opens a backend, is cancelled at any await of     *)
(* that or runs, and closes the backend; opening is a line of requests to  *)
(* the compositor, each of which may fail, and what it has opened so far   *)
(* is recorded for the close.                                              *)
(*                                                                         *)
(* Mutter's virtual screen takes two sessions and a pipeline that holds    *)
(* the screen open, and rearranges the desktop twice.  GNOME's display     *)
(* configuration is as display_config.rs reads and writes it: whenever the *)
(* set of monitors changes, Mutter lays the desktop out by its own         *)
(* defaults; the program keeps a snapshot of what the user had and asks    *)
(* for it again.                                                           *)
(*                                                                         *)
(* An arrangement is a number: 0 is Mutter's default, n the nth the user   *)
(* made.  A snapshot is the arrangement with the monitors it covers; modes,*)
(* scales and positions are what the number stands for.                    *)
(***************************************************************************)
EXTENDS Naturals

CONSTANTS
    Panel,           \* the connector of the monitor that is always there
    Beamer,          \* one the user plugs in and out
    Extra,           \* the connector Mutter gives the virtual screen
    Missing,         \* Option::None
    RestoreAttempts, \* RESTORE_ATTEMPTS
    MaxEdits,        \* bound: arrangements the user makes
    MaxPlugs,        \* bound: times the user plugs the beamer in or out
    MaxCasts         \* bound: casts

ASSUME ConnectorAssumption ==
    Panel # Beamer /\ Panel # Extra /\ Beamer # Extra
ASSUME AttemptsAssumption == RestoreAttempts \in Nat \ {0}

VARIABLES
    (* GNOME's display configuration. *)
    outputs,         \* the connectors attached
    desk,            \* the arrangement in force
    chosen,          \* the user's last arrangement
    fresh,           \* nothing changed since the program last read the serial
    plugs,
    (* The capture. *)
    desktop,         \* what the session runs: gnome, kwin, other
    at,              \* where the cast is
    source,          \* SourceType
    backend,         \* the backend in use: none, mutter, kwin, portal
    undoing,         \* the close under way is start's own, after a failure
    active,          \* MutterBackend.active
    taken,           \* what stop took from it
    layout,          \* MutterBackend.layout
    before,          \* open_virtual's layout_before
    known,           \* open_virtual's connectors_before
    found,           \* the connector wait_for_virtual_connector returned
    tries,           \* restore's attempt
    sessions,        \* the sessions the compositor holds for this process
    keepAlive,       \* the fakesink pipeline of the capture is playing
    recorded,        \* PortalBackend.session or KWinBackend.active is set
    orphan,          \* a cancelled open_screen still runs on its thread
    tokens,          \* the source kinds with a restore token on disk
    asking,          \* what SelectSources said: fresh, restorable, offered
    casts,
    asked,           \* history: the user's arrangement the cast owes back
    replugged,       \* history: a monitor came or went in this cast
    unkept,          \* history: a request about the layout failed, or the portal
                     \* made the screen, whose layout nobody keeps
    cutShort,        \* history: start's own close was cancelled
    unanswered,      \* history: a CreateSession was cancelled unanswered
    stray            \* history: a keep-alive pipeline was dropped while playing

-----------------------------------------------------------------------------
(* The display configuration. *)

displayVars == <<outputs, desk, chosen, fresh, plugs>>

Snapshot == [desk : Nat, monitors : SUBSET {Panel, Beamer, Extra}]
ASSUME MissingAssumption == Missing \notin {Panel, Beamer, Extra} \cup Snapshot

DisplaysInit ==
    /\ outputs = {Panel} /\ desk = 1 /\ chosen = 1
    /\ fresh = FALSE /\ plugs = 0

Captured == [desk |-> desk, monitors |-> outputs]

Without(snapshot, connector) ==
    LET left == snapshot.monitors \ {connector} IN
    IF left = {} THEN Missing ELSE [snapshot EXCEPT !.monitors = left]

\* GetCurrentState: the serial the next request is based on.
SerialRead == fresh' = TRUE /\ UNCHANGED <<outputs, desk, chosen, plugs>>

\* ApplyMonitorsConfig takes a configuration that names attached monitors,
\* on the current serial, and that Mutter finds valid.
Accepted(wanted, monitors) ==
    /\ fresh /\ monitors \subseteq outputs
    /\ desk' = wanted /\ fresh' = FALSE
    /\ UNCHANGED <<outputs, chosen, plugs>>

Refused == UNCHANGED displayVars

(***************************************************************************)
(* What happens to the desktop.                                            *)
(***************************************************************************)
Relaid(now) ==
    /\ outputs' = now /\ desk' = 0 /\ fresh' = FALSE

ExtraAppears == Extra \notin outputs /\ Relaid(outputs \cup {Extra})
                /\ UNCHANGED <<chosen, plugs>>

ExtraGoes == Extra \in outputs /\ Relaid(outputs \ {Extra})
             /\ UNCHANGED <<chosen, plugs>>

Hotplug ==
    /\ plugs < MaxPlugs
    /\ plugs' = plugs + 1
    /\ Relaid(IF Beamer \in outputs THEN outputs \ {Beamer}
              ELSE outputs \cup {Beamer})
    /\ UNCHANGED chosen

Rearranged ==
    /\ chosen < MaxEdits
    /\ chosen' = chosen + 1 /\ desk' = chosen' /\ fresh' = FALSE
    /\ UNCHANGED <<outputs, plugs>>

-----------------------------------------------------------------------------
(* The capture. *)

SourceKinds == {"monitor", "virtual", "window"}
Absent == [session |-> "none", second |-> FALSE, connector |-> Missing]

mutterVars == <<active, taken, layout, before, known, found, tries, keepAlive>>
portalVars == <<recorded, orphan, tokens, asking>>
history == <<asked, replugged, unkept, cutShort, unanswered, stray>>
castVars == <<desktop, source, casts>>
captureVars == <<displayVars, desktop, at, source, backend, undoing, mutterVars,
          sessions, portalVars, casts, history>>

CaptureInit ==
    /\ DisplaysInit
    /\ desktop \in {"gnome", "kwin", "other"}
    /\ at = "idle" /\ source = "monitor" /\ backend = "none"
    /\ undoing = FALSE /\ active = Absent /\ taken = Absent
    /\ layout = Missing /\ before = Missing /\ known = {} /\ found = Missing
    /\ tries = 0 /\ sessions = {} /\ keepAlive = FALSE
    /\ recorded = FALSE /\ orphan = FALSE /\ tokens = {}
    /\ asking = "fresh" /\ casts = 0
    /\ asked = 1 /\ replugged = FALSE /\ unkept = FALSE
    /\ cutShort = FALSE /\ unanswered = FALSE /\ stray = FALSE

(***************************************************************************)
(* select_backend_for.                                                     *)
(***************************************************************************)
MutterAvailable == desktop = "gnome"
KWinAvailable == desktop = "kwin"

BackendFor(kind, forced) ==
    IF forced = "portal" THEN "portal"
    ELSE IF forced = "mutter" /\ MutterAvailable THEN "mutter"
    ELSE IF kind = "virtual" /\ MutterAvailable THEN "mutter"
    ELSE IF kind \in {"virtual", "monitor"} /\ KWinAvailable THEN "kwin"
    ELSE "portal"

Opening(chosenBackend, kind) ==
    CASE chosenBackend = "mutter" /\ kind = "virtual" -> "snapshot"
      [] chosenBackend = "mutter" /\ kind = "monitor" -> "primary"
      [] chosenBackend = "mutter" -> "refuse"
      [] chosenBackend = "kwin" -> "kwin"
      [] OTHER -> "create portal"

Begin ==
    /\ at = "idle" /\ casts < MaxCasts
    /\ ~orphan /\ Extra \notin outputs    \* bound: the last cast is quite gone
    /\ \E kind \in SourceKinds, forced \in {"", "mutter", "portal"} :
        /\ source' = kind
        /\ backend' = BackendFor(kind, forced)
        /\ at' = Opening(backend', kind)
    /\ casts' = casts + 1
    /\ layout' = Missing /\ active' = Absent
    /\ asked' = desk /\ replugged' = FALSE /\ unkept' = FALSE
    /\ cutShort' = FALSE
    /\ UNCHANGED <<displayVars, desktop, undoing, taken, before, known, found,
                   tries, keepAlive, sessions, portalVars, unanswered, stray>>

(***************************************************************************)
(* MutterBackend::open_virtual.  Fails leads to start's own stop.          *)
(***************************************************************************)
Stays == UNCHANGED <<castVars, backend>>
Fails == at' = "take" /\ undoing' = TRUE
Goes(next) == at' = next /\ UNCHANGED undoing

\* History: the layout could not be read or set.
Unkept == unkept' = TRUE
          /\ UNCHANGED <<asked, replugged, cutShort, unanswered, stray>>

\* Without a snapshot nothing is arranged, nor put back after a failure.
Snapshots ==
    /\ at = "snapshot" /\ Goes("connectors") /\ Stays
    /\ \/ before' = Captured /\ UNCHANGED history
       \/ before' = Missing /\ Unkept
    /\ UNCHANGED <<displayVars, active, taken, layout, known, found, tries,
                   keepAlive, sessions, portalVars>>

ListsConnectors ==
    /\ at = "connectors" /\ Goes("create") /\ Stays
    /\ \/ known' = outputs /\ UNCHANGED history
       \/ known' = {} /\ Unkept
    /\ UNCHANGED <<displayVars, active, taken, layout, before, found, tries,
                   keepAlive, sessions, portalVars>>

CreatesSession ==
    /\ at = "create" /\ Stays
    /\ \/ Fails /\ UNCHANGED <<active, sessions>>
       \/ /\ Goes("record virtual")
          /\ sessions' = sessions \cup {"virtual"}
          /\ active' = [Absent EXCEPT !.session = "virtual"]
    /\ UNCHANGED <<displayVars, taken, layout, before, known, found, tries,
                   keepAlive, portalVars, history>>

\* record_virtual, Start and the node: a failure leaves layout unset.
RecordsVirtual ==
    /\ at = "record virtual" /\ Stays
    /\ \/ Fails /\ UNCHANGED layout
       \/ Goes("keep alive") /\ layout' = before
    /\ UNCHANGED <<displayVars, active, taken, before, known, found, tries,
                   keepAlive, sessions, portalVars, history>>

KeepsAlive ==
    /\ at = "keep alive" /\ Stays
    /\ \/ Fails /\ UNCHANGED keepAlive
       \/ Goes("wait") /\ keepAlive' = TRUE
    /\ UNCHANGED <<displayVars, active, taken, layout, before, known, found,
                   tries, sessions, portalVars, history>>

\* By elimination: the first connector that was not there before, or none
\* read within VIRTUAL_MONITOR_TIMEOUT.
NewConnectors == outputs \ known

FindsConnector ==
    /\ at = "wait" /\ Stays
    /\ \/ /\ NewConnectors # {}
          /\ found' \in NewConnectors
          /\ Goes(IF before = Missing THEN "create monitor" ELSE "arrange")
       \/ Fails /\ UNCHANGED found
    /\ UNCHANGED <<displayVars, active, taken, layout, before, known, tries,
                   keepAlive, sessions, portalVars, history>>

\* arrange_virtual_screen: nothing without a preferred mode.
Arranges ==
    /\ at = "arrange" /\ Stays
    /\ \/ found \in outputs /\ SerialRead /\ Goes("apply") /\ UNCHANGED history
       \/ Goes("create monitor") /\ Unkept /\ UNCHANGED displayVars
    /\ UNCHANGED <<mutterVars, sessions, portalVars>>

\* extend_with asks once; a refusal is logged and the cast goes on.
Applies ==
    /\ at = "apply" /\ Stays /\ Goes("create monitor")
    /\ \/ Accepted(before.desk, before.monitors \cup {found}) /\ UNCHANGED history
       \/ Refused /\ Unkept
    /\ UNCHANGED <<mutterVars, sessions, portalVars>>

(***************************************************************************)
(* open: the primary monitor; then open_monitor, for both kinds.           *)
(***************************************************************************)
NamesPrimary ==
    /\ at = "primary" /\ Stays
    /\ \/ Goes("create monitor") /\ found' \in outputs
       \/ Fails /\ UNCHANGED found
    /\ UNCHANGED <<displayVars, active, taken, layout, before, known, tries,
                   keepAlive, sessions, portalVars, history>>

CreatesMonitor ==
    /\ at = "create monitor" /\ Stays
    /\ \/ Fails /\ UNCHANGED sessions
       \/ Goes("record monitor") /\ sessions' = sessions \cup {"monitor"}
    /\ UNCHANGED <<displayVars, mutterVars, portalVars, history>>

\* Recorded in active only once it streams; it stops itself on a failure.
RecordsMonitor ==
    /\ at = "record monitor" /\ Stays
    /\ \/ Fails /\ sessions' = sessions \ {"monitor"} /\ UNCHANGED active
       \/ /\ found \in outputs
          /\ Goes("streaming")
          /\ active' = IF source = "virtual"
                       THEN [session |-> "monitor", second |-> TRUE,
                             connector |-> found]
                       ELSE [Absent EXCEPT !.session = "monitor"]
          /\ UNCHANGED sessions
    /\ UNCHANGED <<displayVars, taken, layout, before, known, found, tries,
                   keepAlive, portalVars, history>>

RefusesWindow ==
    /\ at = "refuse" /\ Stays
    /\ backend = "mutter" /\ source = "window"
    /\ Fails
    /\ UNCHANGED <<displayVars, mutterVars, sessions, portalVars, history>>

(***************************************************************************)
(* MutterBackend::stop.                                                    *)
(***************************************************************************)
\* With nothing active there is nothing to stop, whatever layout holds.
Takes ==
    /\ at = "take" /\ Stays
    /\ taken' = active /\ active' = Absent
    /\ at' = IF backend = "mutter" /\ active # Absent THEN "recapture"
             ELSE "stopped"
    /\ UNCHANGED <<displayVars, undoing, layout, before, known, found, tries,
                   keepAlive, sessions, portalVars, history>>

Recaptures_Never ==
    /\ at = "recapture" /\ Stays /\ Goes("stop session")
    /\ UNCHANGED <<displayVars, mutterVars, sessions, portalVars, history>>

\* The layout the user may have changed meanwhile; where it cannot be read
\* the one of the start is put back, which is then what the cast owes.
Recaptures ==
    /\ at = "recapture" /\ Stays /\ Goes("stop session")
    /\ \/ taken.connector = Missing /\ UNCHANGED <<layout, asked>>
       \/ /\ taken.connector # Missing
          /\ layout' = Without(Captured, taken.connector) /\ UNCHANGED asked
       \/ /\ taken.connector # Missing /\ UNCHANGED layout
          /\ asked' = IF layout = Missing THEN asked ELSE layout.desk
    /\ UNCHANGED <<displayVars, active, taken, before, known, found, tries,
                   keepAlive, sessions, portalVars, replugged, unkept,
                   cutShort, unanswered, stray>>

\* Stop fails only on a session that is gone already.
StopsSession_VirtualFirst ==
    /\ at = "stop session" /\ Stays /\ Goes("stop keep alive")
    /\ sessions' = sessions \ {"virtual"}
    /\ UNCHANGED <<displayVars, mutterVars, portalVars, history>>

StopsSession ==
    /\ at = "stop session" /\ Stays /\ Goes("stop keep alive")
    /\ sessions' = sessions \ {taken.session}
    /\ UNCHANGED <<displayVars, mutterVars, portalVars, history>>

StopsKeepAlive ==
    /\ at = "stop keep alive" /\ Stays /\ Goes("stop virtual")
    /\ keepAlive' = FALSE
    /\ UNCHANGED <<displayVars, active, taken, layout, before, known, found,
                   tries, sessions, portalVars, history>>

StopsVirtual ==
    /\ at = "stop virtual" /\ Stays
    /\ Goes(IF layout = Missing THEN "stopped" ELSE "restore")
    /\ sessions' = IF taken.second THEN sessions \ {"virtual"} ELSE sessions
    /\ tries' = 1
    /\ UNCHANGED <<displayVars, active, taken, layout, before, known, found,
                   keepAlive, portalVars, history>>

(***************************************************************************)
(* LayoutSnapshot::restore.  Mutter removes the extra screen within the    *)
(* attempts, RESTORE_RETRY_DELAY apart: the last of them waits for it.     *)
(***************************************************************************)
Settled == tries = RestoreAttempts => Extra \notin outputs

TriesAgain == tries < RestoreAttempts /\ tries' = tries + 1
              /\ Goes("restore") /\ UNCHANGED layout
GivesUp == Goes("stopped") /\ layout' = Missing /\ UNCHANGED tries

ChecksTopology ==
    /\ at = "restore" /\ Stays
    /\ \/ /\ Settled /\ outputs # layout.monitors
          /\ TriesAgain \/ (tries = RestoreAttempts /\ GivesUp)
          /\ UNCHANGED <<displayVars, history>>
       \/ /\ Settled /\ outputs = layout.monitors
          /\ SerialRead /\ Goes("reapply") /\ UNCHANGED <<layout, tries, history>>
       \/ GivesUp /\ Unkept /\ UNCHANGED displayVars
    /\ UNCHANGED <<active, taken, before, known, found, keepAlive, sessions,
                   portalVars>>

\* Refused on an old serial, or for a reason of Mutter's.
Reapplies ==
    /\ at = "reapply" /\ Stays
    /\ \/ Accepted(layout.desk, layout.monitors) /\ GivesUp /\ UNCHANGED history
       \/ Refused /\ TriesAgain /\ UNCHANGED history
       \/ /\ Refused /\ tries = RestoreAttempts /\ GivesUp
          /\ IF fresh THEN Unkept ELSE UNCHANGED history
    /\ UNCHANGED <<active, taken, before, known, found, keepAlive, sessions,
                   portalVars>>

\* The connection goes with the session: Mutter drops what it held for it.
OnConnection == {"virtual", "monitor"}

\* After a failed start the Mutter backend turns to the portal for good; a
\* failed portal start, and a KWin one, returns to the cast, which stops.
BackendStopped ==
    /\ at = "stopped"
    /\ undoing' = FALSE
    /\ IF undoing /\ backend = "mutter"
       THEN backend' = "portal" /\ at' = "create portal"
       ELSE backend' = "none" /\ at' = "idle"
    /\ sessions' = (sessions \ OnConnection)
                   \ (IF recorded THEN {"portal", "kwin"} ELSE {})
    /\ recorded' = FALSE
    /\ taken' = Absent /\ before' = Missing /\ known' = {}
    /\ found' = Missing /\ tries' = 0
    /\ UNCHANGED <<displayVars, castVars, active, layout, keepAlive, orphan,
                   tokens, asking, history>>

(***************************************************************************)
(* KWinBackend: open_screen and open_virtual_screen run on a thread of     *)
(* their own; what they opened closes when their result is dropped.        *)
(***************************************************************************)
KWinOpens ==
    /\ at = "kwin" /\ Stays
    /\ \/ Goes("kwin opened") /\ sessions' = sessions \cup {"kwin"}
       \/ Goes("take") /\ UNCHANGED sessions
    /\ UNCHANGED <<displayVars, mutterVars, portalVars, history>>

\* wait_for_target: the node, a refusal, or CREATE_TIMEOUT.
KWinAnswers ==
    /\ at = "kwin opened" /\ Stays
    /\ \/ Goes("streaming") /\ recorded' = TRUE /\ UNCHANGED sessions
       \/ /\ Goes("take") /\ sessions' = sessions \ {"kwin"}
          /\ UNCHANGED recorded
    /\ UNCHANGED <<displayVars, mutterVars, orphan, tokens, asking, history>>

(* What a cancelled cast left on its thread opens the stream all the same. *)
OrphanOpens ==
    /\ orphan /\ "kwin" \notin sessions
    /\ sessions' = sessions \cup {"kwin"}
    /\ UNCHANGED <<displayVars, castVars, at, backend, undoing, mutterVars,
                   portalVars, history>>

OrphanEnds ==
    /\ orphan
    /\ orphan' = FALSE /\ sessions' = sessions \ {"kwin"}
    /\ UNCHANGED <<displayVars, castVars, at, backend, undoing, mutterVars,
                   recorded, tokens, asking, history>>

(***************************************************************************)
(* PortalBackend::open.                                                    *)
(***************************************************************************)
CreatesPortal_Unrecorded ==
    /\ at = "create portal" /\ Stays
    /\ \/ Fails /\ UNCHANGED <<sessions, recorded>>
       \/ /\ Goes("select") /\ recorded' = FALSE
          /\ sessions' = sessions \cup {"portal"}
    /\ UNCHANGED <<displayVars, mutterVars, orphan, tokens, asking, history>>

CreatesPortal ==
    /\ at = "create portal" /\ Stays
    /\ \/ Fails /\ UNCHANGED <<sessions, recorded>>
       \/ /\ Goes("select") /\ recorded' = TRUE
          /\ sessions' = sessions \cup {"portal"}
    /\ UNCHANGED <<displayVars, mutterVars, orphan, tokens, asking, history>>

\* monitor_count answers on GNOME alone.
LogicalMonitors == IF outputs = {Panel} THEN 1 ELSE 2

Restorable ==
    \/ source = "virtual"
    \/ source = "monitor" /\ (desktop = "gnome" => LogicalMonitors < 2)

SelectsSources ==
    /\ at = "select" /\ Stays
    /\ asking' = IF ~Restorable THEN "fresh"
                 ELSE IF source \in tokens THEN "offered" ELSE "restorable"
    /\ \/ Fails
       \/ Goes("start")
    /\ UNCHANGED <<displayVars, mutterVars, sessions, recorded, orphan, tokens,
                   history>>

PortalScreen == desktop = "gnome" /\ backend = "portal" /\ source = "virtual"

\* A token the portal rejects is discarded; a new one is kept.
StartsPortal ==
    /\ at = "start" /\ Stays
    /\ \/ /\ Fails /\ UNCHANGED history
          /\ tokens' = IF asking = "offered" THEN tokens \ {source} ELSE tokens
       \/ /\ Goes("remote")
          /\ IF PortalScreen THEN Unkept ELSE UNCHANGED history
          /\ tokens' \in IF asking = "fresh" THEN {tokens}
                         ELSE {tokens, tokens \cup {source}}
    /\ UNCHANGED <<displayVars, mutterVars, sessions, recorded, orphan, asking>>

OpensRemote ==
    /\ at = "remote" /\ Stays
    /\ \/ Fails
       \/ Goes("streaming")
    /\ UNCHANGED <<displayVars, mutterVars, sessions, portalVars, history>>

(***************************************************************************)
(* cast.rs's run: the cast ends, or is cancelled while it opens.  Dropping *)
(* the start drops what only it held: before active is set, the connection *)
(* to Mutter.  A close that start itself had begun is dropped with it; a   *)
(* keep-alive pipeline it had taken is dropped while it plays, and its     *)
(* elements run on.  A thread that opens a KWin stream goes on.            *)
(***************************************************************************)
CloseSteps == {"take", "recapture", "stop session", "stop keep alive",
               "stop virtual", "restore", "reapply", "stopped"}
OpenSteps == {"snapshot", "connectors", "create", "record virtual",
              "keep alive", "wait", "arrange", "apply", "primary",
              "create monitor", "record monitor", "kwin", "kwin opened",
              "create portal", "select", "start", "remote"}

RunEnds ==
    /\ at = "streaming" /\ Stays /\ Goes("take")
    /\ UNCHANGED <<displayVars, mutterVars, sessions, portalVars, history>>

Cancelled ==
    /\ at \in OpenSteps \/ (at \in CloseSteps /\ undoing)
    /\ at' = "take" /\ undoing' = FALSE /\ Stays
    /\ orphan' = (at = "kwin" \/ at = "kwin opened")
    /\ unanswered' \in {unanswered, unanswered \/ at = "create portal"}
    /\ sessions' = (IF active = Absent THEN sessions \ OnConnection ELSE sessions)
                   \cup (IF unanswered' # unanswered THEN {"portal"} ELSE {})
    /\ cutShort' = (cutShort \/ taken # Absent)
    /\ keepAlive' = (keepAlive /\ taken = Absent)
    /\ stray' = (stray \/ (keepAlive /\ taken # Absent))
    /\ taken' = Absent /\ before' = Missing /\ known' = {}
    /\ found' = Missing /\ tries' = 0
    /\ UNCHANGED <<displayVars, active, layout, recorded, tokens,
                   asking, asked, replugged, unkept>>

(***************************************************************************)
(* The desktop.                                                            *)
(***************************************************************************)
AtRest == at = "idle" /\ Extra \notin outputs

KeptAlive == "virtual" \in sessions /\ keepAlive

\* The portal's screen is there while the cast reads it.
Held == KeptAlive \/ (PortalScreen /\ at = "streaming")

MutterDisplays ==
    /\ \/ Held /\ ExtraAppears
       \/ ~Held /\ ExtraGoes
    /\ UNCHANGED <<castVars, at, backend, undoing, mutterVars, sessions,
                   portalVars, history>>

UserPlugs ==
    /\ desktop = "gnome" /\ at # "idle" /\ Hotplug
    /\ replugged' = TRUE
    /\ UNCHANGED <<castVars, at, backend, undoing, mutterVars, sessions,
                   portalVars, asked, unkept, cutShort, unanswered, stray>>

UserRearranges ==
    /\ desktop = "gnome" /\ Rearranged
    /\ asked' = IF at = "streaming" \/ AtRest THEN desk' ELSE asked
    /\ UNCHANGED <<castVars, at, backend, undoing, mutterVars, sessions,
                   portalVars, replugged, unkept, cutShort, unanswered, stray>>

OpenVirtual ==
    \/ Snapshots \/ ListsConnectors \/ CreatesSession \/ RecordsVirtual
    \/ KeepsAlive \/ FindsConnector \/ Arranges \/ Applies

MutterStop ==
    \/ Recaptures \/ StopsSession \/ StopsKeepAlive \/ StopsVirtual
    \/ ChecksTopology \/ Reapplies

Program ==
    \/ Begin \/ OpenVirtual \/ NamesPrimary \/ CreatesMonitor \/ RecordsMonitor
    \/ RefusesWindow \/ KWinOpens \/ KWinAnswers \/ OrphanOpens \/ OrphanEnds
    \/ CreatesPortal \/ SelectsSources \/ StartsPortal \/ OpensRemote
    \/ Takes \/ MutterStop \/ BackendStopped \/ RunEnds \/ Cancelled

CaptureNext == Program \/ MutterDisplays \/ UserPlugs \/ UserRearranges

CaptureSpec == CaptureInit /\ [][CaptureNext]_captureVars

(***************************************************************************)
(* Properties.                                                             *)
(***************************************************************************)
\* A cast gives the desktop back: the arrangement it was begun under or the last
\* the user made while it streamed, never Mutter's default, wherever it was
\* cancelled, failed or ended (mutter.rs: "Restoring puts the user's own screen
\* back exactly as they had it").  Not where the monitors themselves changed,
\* where Mutter refused to read or set the layout, under the portal's screen,
\* which nobody lays out, or where start's own close was cancelled: what that
\* close had taken is dropped with it, and nobody restores the layout.
LayoutKept == AtRest /\ ~replugged /\ ~unkept /\ ~cutShort => desk >= asked

\* Nothing of a cast outlives it in the compositor, wherever it was cancelled
\* or failed: no session, no virtual screen and no pipeline that holds one.
\* What a dropped call still has under way closes by itself; a pipeline that a
\* cancelled close drops holds no screen, but plays on (stray).
NothingLeftOpen ==
    at = "idle" =>
        /\ sessions \subseteq (IF orphan THEN {"kwin"} ELSE {})
                              \cup (IF unanswered THEN {"portal"} ELSE {})
        /\ ~keepAlive

\* The extra screen is not taken away while the session the pipeline reads
\* still records it (mutter.rs: "dropping them first would remove the screen
\* out from under the session that was recording it").
ScreenOutlivesRecording ==
    \A held \in {active, taken} :
        held.connector = Extra /\ "monitor" \in sessions
            => Extra \in outputs

\* The stream a cast of the extra screen gets is the extra screen's, as long as
\* nothing is plugged in while it is being created and the connectors could be
\* read (display_config.rs: "it is found by elimination: the one that was not
\* there before").
StreamsTheExtraScreen ==
    at = "streaming" /\ backend = "mutter" /\ source = "virtual" /\ ~replugged
            /\ ~unkept
        => active.connector = Extra

\* A cast gives the desktop back: its layout and everything that was opened, the
\* extra screen, which is the one it streams, never before the session that
\* records it (mutter.rs, portal_start.rs).
DesktopIsReturned ==
    LayoutKept /\ NothingLeftOpen /\ ScreenOutlivesRecording /\ StreamsTheExtraScreen

=============================================================================
