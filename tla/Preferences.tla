----------------------------- MODULE Preferences -----------------------------
(***************************************************************************)
(* The preferences file between the two processes that cache it            *)
(* (nd-core/settings.rs): the window edits and saves them and tells the    *)
(* service, whose bus handlers re-read the file beside an engine that acts *)
(* on what changed, starts casts and saves a toggle of its own.            *)
(*                                                                         *)
(* Preferences are the automatic discovery toggle, which the service also  *)
(* changes, and everything else, which only the window does: the number of *)
(* its last edit.  Each edit changes what discovery depends on.            *)
(***************************************************************************)
EXTENDS Naturals, Sequences

CONSTANTS
    Jobs,        \* the window's calls under way at once
    MaxEdits,    \* bound: edits in the window
    MaxToggles,  \* bound: SetAutoDiscovery calls from other clients
    MaxCasts,    \* bound: casts started in the window
    None

ASSUME BoundsAssumption ==
    MaxEdits \in Nat /\ MaxToggles \in Nat /\ MaxCasts \in Nat

VARIABLES
    file,      \* settings.conf
    window,    \* CURRENT in the window's process, its save timer and failure
    writer,    \* the job that holds the window's WRITER lock, or None
    job,       \* the window's calls, in its process and then the service's
    cache,     \* CURRENT in the service's process, or None
    engine,    \* the engine: its command, its settings
    queue,     \* commands on their way to it
    discovery, \* the preferences discovery was last started or stopped under;
               \* history: whether a cast took others over since
    toggles,   \* SetAutoDiscovery calls so far
    casts      \* casts pressed so far

vars == <<file, window, writer, job, cache, engine, queue, discovery, toggles,
          casts>>

Settings == [auto : BOOLEAN, edit : 0..MaxEdits]
Cached == Settings \cup {None}
Discoveries == [under : Settings, missed : BOOLEAN]
Commands ==
    [type : {"apply"}, settings : Settings, job : Jobs]
    \cup [type : {"cast"}, job : Jobs] \cup [type : {"toggle"}]

TypeOK ==
    /\ file \in Settings
    /\ window \in [settings : Settings, armed : BOOLEAN, failed : BOOLEAN]
    /\ writer \in Jobs \cup {None}
    /\ job \in [Jobs -> [pc : {"idle", "save", "write", "clear", "check", "read",
                               "store", "sent", "answered"},
                         then : {"cast", "nothing"}, pressed : 0..MaxEdits,
                         got : Cached]]
    /\ cache \in Cached
    /\ engine \in [pc : {"loop", "check", "read", "store", "persist", "fallback",
                         "save"},
                   settings : Settings, got : Cached, job : Jobs \cup {None}]
    /\ queue \in Seq(Commands)
    /\ discovery \in Discoveries
    /\ toggles \in 0..MaxToggles
    /\ casts \in 0..MaxCasts

Init ==
    \E s \in {[auto |-> a, edit |-> 0] : a \in BOOLEAN} :
      /\ file = s /\ cache = s
      /\ discovery = [under |-> s, missed |-> FALSE]
      /\ window = [settings |-> s, armed |-> FALSE, failed |-> FALSE]
      /\ writer = None
      /\ job = [j \in Jobs |-> [pc |-> "idle", then |-> "nothing", pressed |-> 0,
                                got |-> None]]
      /\ engine = [pc |-> "loop", settings |-> s, got |-> None, job |-> None]
      /\ queue = <<>>
      /\ toggles = 0 /\ casts = 0

-----------------------------------------------------------------------------
(* The window. *)

(* A control of the settings page: in force at once, saved when the        *)
(* controls settle (schedule_write).                                       *)
Edit ==
    /\ window.settings.edit < MaxEdits
    /\ \E auto \in BOOLEAN :
         window' = [settings |-> [auto |-> auto, edit |-> window.settings.edit + 1],
                    armed |-> TRUE, failed |-> FALSE]
    /\ UNCHANGED <<file, writer, job, cache, engine, queue, discovery, toggles,
                   casts>>

Started(then, pc) ==
    [pc |-> pc, then |-> then, pressed |-> window.settings.edit, got |-> None]

(* SAVE_DELAY after the last edit. *)
TimerFires(j) ==
    /\ window.armed /\ job[j].pc = "idle"
    /\ window' = [window EXCEPT !.armed = FALSE]
    /\ job' = [job EXCEPT ![j] = Started("nothing", "save")]
    /\ UNCHANGED <<file, writer, cache, engine, queue, discovery, toggles, casts>>

(* A receiver is chosen (call_with_settings): changed preferences are      *)
(* saved, the service reloads, and only then it is asked to cast.          *)
Press(j) ==
    /\ casts < MaxCasts /\ job[j].pc = "idle"
    /\ casts' = casts + 1
    /\ job' = [job EXCEPT ![j] =
                 Started("cast", IF window.settings.edit = 0 THEN "clear" ELSE "save")]
    /\ UNCHANGED <<file, window, writer, cache, engine, queue, discovery, toggles>>

\* Mutant: the values to save are taken before the lock.
TakesLock_ValuesFirst(j) ==
    /\ job[j].pc = "save"
    /\ \/ /\ job[j].got = None
          /\ job' = [job EXCEPT ![j].got = window.settings]
          /\ UNCHANGED writer
       \/ /\ job[j].got # None /\ writer = None /\ writer' = j
          /\ job' = [job EXCEPT ![j].pc = "write"]
    /\ UNCHANGED <<file, window, cache, engine, queue, discovery, toggles, casts>>

(* persist: the latest values, read under the WRITER lock. *)
TakesLock(j) ==
    /\ job[j].pc = "save" /\ writer = None
    /\ writer' = j
    /\ job' = [job EXCEPT ![j].pc = "write", ![j].got = window.settings]
    /\ UNCHANGED <<file, window, cache, engine, queue, discovery, toggles, casts>>

\* Mutant: the service is not told.
Saves_Unannounced(j) ==
    /\ job[j].pc = "write"
    /\ file' = job[j].got
    /\ writer' = None
    /\ job' = [job EXCEPT ![j].pc = "idle", ![j].got = None]
    /\ UNCHANGED <<window, cache, engine, queue, discovery, toggles, casts>>

(* ... replace the file; then ReloadSettings. *)
Saves(j) ==
    /\ job[j].pc = "write"
    /\ file' = job[j].got
    /\ writer' = None
    /\ job' = [job EXCEPT ![j].pc = "clear", ![j].got = None]
    /\ UNCHANGED <<window, cache, engine, queue, discovery, toggles, casts>>

\* Mutant: the failure is not shown.
SaveFails_Silent(j) ==
    /\ job[j].pc = "write"
    /\ writer' = None
    /\ job' = [job EXCEPT ![j].pc = "idle", ![j].got = None]
    /\ UNCHANGED <<file, window, cache, engine, queue, discovery, toggles, casts>>

SaveFails(j) ==
    /\ job[j].pc = "write"
    /\ writer' = None
    /\ window' = [window EXCEPT !.failed = TRUE]
    /\ job' = [job EXCEPT ![j].pc = "idle", ![j].got = None]
    /\ UNCHANGED <<file, cache, engine, queue, discovery, toggles, casts>>

-----------------------------------------------------------------------------
(* ReloadSettings in the service, one task a call: settings::reload, step  *)
(* by step, then ApplySettings.                                            *)

Sends(j, s) ==
    /\ job' = [job EXCEPT ![j].pc = "sent", ![j].got = None]
    /\ queue' = Append(queue, [type |-> "apply", settings |-> s, job |-> j])

Clears(j) ==
    /\ job[j].pc = "clear"
    /\ cache' = None
    /\ job' = [job EXCEPT ![j].pc = "check"]
    /\ UNCHANGED <<file, window, writer, engine, queue, discovery, toggles, casts>>

Checks(j) ==
    /\ job[j].pc = "check"
    /\ IF cache = None
       THEN job' = [job EXCEPT ![j].pc = "read"] /\ UNCHANGED queue
       ELSE Sends(j, cache)
    /\ UNCHANGED <<file, window, writer, cache, engine, discovery, toggles, casts>>

Reads(j) ==
    /\ job[j].pc = "read"
    /\ job' = [job EXCEPT ![j].pc = "store", ![j].got = file]
    /\ UNCHANGED <<file, window, writer, cache, engine, queue, discovery, toggles,
                   casts>>

Stores(j) ==
    /\ job[j].pc = "store"
    /\ cache' = job[j].got
    /\ Sends(j, job[j].got)
    /\ UNCHANGED <<file, window, writer, engine, discovery, toggles, casts>>

(* The window heard that the reload was applied. *)
AsksCast(j) ==
    /\ job[j].pc = "answered"
    /\ job' = [job EXCEPT ![j].pc = "sent"]
    /\ queue' = Append(queue, [type |-> "cast", job |-> j])
    /\ UNCHANGED <<file, window, writer, cache, engine, discovery, toggles, casts>>

(* Another client toggles automatic discovery. *)
AsksToggle ==
    /\ toggles < MaxToggles
    /\ toggles' = toggles + 1
    /\ queue' = Append(queue, [type |-> "toggle"])
    /\ UNCHANGED <<file, window, writer, job, cache, engine, discovery, casts>>

-----------------------------------------------------------------------------
(* The engine, one command at a time. *)

(* The command of this type is the engine's next. *)
Takes(type) == queue # <<>> /\ Head(queue).type = type /\ engine.pc = "loop"

\* Mutant: only the toggle restarts discovery.
Rediscovers_ToggleOnly(new) == new.auto # engine.settings.auto

(* Discovery restarts, or stops, when what it depends on changed. *)
Rediscovers(new) == new # engine.settings

Restarted(s) == [under |-> s, missed |-> FALSE]

(* apply_settings. *)
Applies ==
    /\ Takes("apply")
    /\ LET new == Head(queue).settings
       IN  /\ engine' = [engine EXCEPT !.settings = new]
           /\ cache' = new
           /\ discovery' = IF Rediscovers(new) THEN Restarted(new) ELSE discovery
    /\ queue' = Tail(queue)
    /\ job' = [job EXCEPT ![Head(queue).job].pc =
                 IF job[Head(queue).job].then = "cast" THEN "answered" ELSE "idle"]
    /\ UNCHANGED <<file, window, writer, toggles, casts>>

(* begin_cast and send_media reload too, on the engine's own task, and take *)
(* what they read without looking at what changed.                         *)
CastBegins ==
    /\ Takes("cast")
    /\ cache' = None
    /\ engine' = [engine EXCEPT !.pc = "check", !.job = Head(queue).job]
    /\ queue' = Tail(queue)
    /\ UNCHANGED <<file, window, writer, job, discovery, toggles, casts>>

CastStarts(s) ==
    /\ engine' = [pc |-> "loop", settings |-> s, got |-> None, job |-> None]
    /\ job' = [job EXCEPT ![engine.job].pc = "idle"]
    /\ discovery' = [discovery EXCEPT !.missed = @ \/ s # engine.settings]

CastChecks ==
    /\ engine.pc = "check"
    /\ IF cache = None
       THEN engine' = [engine EXCEPT !.pc = "read"] /\ UNCHANGED <<job, discovery>>
       ELSE CastStarts(cache)
    /\ UNCHANGED <<file, window, writer, cache, queue, toggles, casts>>

CastReads ==
    /\ engine.pc = "read"
    /\ engine' = [engine EXCEPT !.pc = "store", !.got = file]
    /\ UNCHANGED <<file, window, writer, job, cache, queue, discovery, toggles,
                   casts>>

CastStores ==
    /\ engine.pc = "store"
    /\ cache' = engine.got
    /\ CastStarts(engine.got)
    /\ UNCHANGED <<file, window, writer, queue, toggles, casts>>

(* set_auto_discovery, and persist on a blocking thread while it waits. *)
Toggles ==
    /\ Takes("toggle")
    /\ LET new == [engine.settings EXCEPT !.auto = ~@]
       IN  engine' = [engine EXCEPT !.pc = "persist", !.settings = new]
           /\ cache' = new
    /\ queue' = Tail(queue)
    /\ UNCHANGED <<file, window, writer, job, discovery, toggles, casts>>

\* Mutant: the cache as it is, cleared or not.
ToggleReads_NoFallback ==
    /\ engine.pc = "persist"
    /\ engine' = [engine EXCEPT !.pc = "save", !.got = cache]
    /\ UNCHANGED <<file, window, writer, job, cache, queue, discovery, toggles,
                   casts>>

(* persist reads current, which falls back on the file if a reload has     *)
(* just cleared the cache.                                                 *)
ToggleReads ==
    /\ engine.pc = "persist"
    /\ engine' = IF cache = None THEN [engine EXCEPT !.pc = "fallback"]
                 ELSE [engine EXCEPT !.pc = "save", !.got = cache]
    /\ UNCHANGED <<file, window, writer, job, cache, queue, discovery, toggles,
                   casts>>

ToggleFallsBack ==
    /\ engine.pc = "fallback"
    /\ IF engine.got = None
       THEN engine' = [engine EXCEPT !.got = file] /\ UNCHANGED cache
       ELSE engine' = [engine EXCEPT !.pc = "save"] /\ cache' = engine.got
    /\ UNCHANGED <<file, window, writer, job, queue, discovery, toggles, casts>>

ToggleSaved ==
    /\ engine.pc = "save"
    /\ file' = engine.got
    /\ engine' = [engine EXCEPT !.pc = "loop", !.got = None]
    /\ discovery' = Restarted(engine.settings)
    /\ UNCHANGED <<window, writer, job, cache, queue, toggles, casts>>

Handled(j) ==
    \/ TakesLock(j) \/ Saves(j) \/ SaveFails(j)
    \/ Clears(j) \/ Checks(j) \/ Reads(j) \/ Stores(j) \/ AsksCast(j)

Engine ==
    \/ Applies
    \/ CastBegins \/ CastChecks \/ CastReads \/ CastStores
    \/ Toggles \/ ToggleReads \/ ToggleFallsBack \/ ToggleSaved

Next ==
    \/ Edit
    \/ \E j \in Jobs : TimerFires(j) \/ Press(j) \/ Handled(j)
    \/ AsksToggle
    \/ Engine

Spec == Init /\ [][Next]_vars

(* Threads, timers and the engine's loop go on. *)
FairSpec ==
    /\ Spec
    /\ WF_vars(Engine)
    /\ \A j \in Jobs : WF_vars(Handled(j)) /\ WF_vars(TimerFires(j))

-----------------------------------------------------------------------------
(* Safety. *)

(* The window's own saves never bring back what a later one replaced,      *)
(* however its writers are scheduled and whatever the service saves        *)
(* between them (persist).                                                 *)
WindowSavesInOrder ==
    [][writer # None /\ writer' = None => file'.edit >= file.edit]_<<file, writer>>

(* No save brings back what a later save replaced, the service's included  *)
(* ("an older delayed save cannot restore stale preferences").             *)
SavesInOrder == [][file'.edit >= file.edit]_file

(* A transmission starts with every edit made before it was asked for      *)
(* ("Starting a transmission waits for publication and service reload").   *)
CastSeesEdits ==
    [][\A j \in Jobs :
          (engine.job = j /\ engine'.job = None) =>
              engine'.settings.edit >= job[j].pressed]_engine

(* Nothing under way, nothing reported. *)
Settled ==
    /\ ~window.armed /\ ~window.failed
    /\ \A j \in Jobs : job[j].pc = "idle"
    /\ queue = <<>> /\ engine.pc = "loop"

(* When all is quiet the window, the file and the service agree, or the    *)
(* window says that a save failed.                                         *)
SettledAgrees ==
    Settled => /\ file = window.settings
               /\ engine.settings = file /\ cache = file

(* When all is quiet discovery runs under the preferences in force, however *)
(* reloads, toggles and casts cross: a changed protocol or toggle restarted *)
(* it (apply_settings), unless a cast had taken the change over from the    *)
(* file before its reload was handled (begin_cast), and then until the next *)
(* change that is handled.                                                  *)
DiscoveryFollows ==
    Settled => discovery.missed \/ discovery.under = engine.settings

(* Liveness, under FairSpec: an edit reaches the engine, or the window     *)
(* says that a save failed.                                                *)
EditsReachEngine ==
    \A n \in 1..MaxEdits :
        window.settings.edit = n ~> engine.settings.edit >= n \/ window.failed
=============================================================================
