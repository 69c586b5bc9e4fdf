--------------------------- MODULE Desktop_proofs ---------------------------
(***************************************************************************)
(* Proofs about what meets on the session bus: Preferences, for any number *)
(* of calls under way, edits, toggles and casts; OptionsPanel, for any     *)
(* values of a setting, any picks and any lengths of the inboxes;          *)
(* ServiceLife, for any grace and any number of services; Window, for any  *)
(* number of signals, commands, lost links and clicks.                     *)
(***************************************************************************)
EXTENDS Preferences, OptionsPanel, ServiceLife, Window, TLAPS

-----------------------------------------------------------------------------
(* The type invariant in parts, with what it takes to be inductive: what   *)
(* is about to be stored or written was read.                              *)

Job == [pc : {"idle", "save", "write", "clear", "check", "read", "store", "sent",
              "answered"},
        then : {"cast", "nothing"}, pressed : 0..MaxEdits, got : Cached]

EngineState ==
    [pc : {"loop", "check", "read", "store", "persist", "fallback", "save"},
     settings : Settings, got : Cached, job : Jobs \cup {None}]

JobHasRead(r) == r.pc \in {"write", "store"} => r.got \in Settings

JobsOK == job \in [Jobs -> Job] /\ \A j \in Jobs : JobHasRead(job[j])

EngineOK ==
    /\ engine \in EngineState
    /\ engine.pc \in {"store", "save"} => engine.got \in Settings
    /\ engine.pc \in {"check", "read", "store"} => engine.job \in Jobs

FileOK == file \in Settings /\ cache \in Cached /\ discovery \in Discoveries

WindowOK ==
    /\ window \in [settings : Settings, armed : BOOLEAN, failed : BOOLEAN]
    /\ writer \in Jobs \cup {None}
    /\ toggles \in 0..MaxToggles /\ casts \in 0..MaxCasts

QueueOK == queue \in Seq(Commands)

PrefsInv == JobsOK /\ EngineOK /\ FileOK /\ WindowOK /\ QueueOK

LEMMA PrefsInvTypes == PrefsInv => TypeOK
BY DEF PrefsInv, JobsOK, EngineOK, FileOK, WindowOK, QueueOK, TypeOK, Job, EngineState

LEMMA JobMoves ==
    ASSUME JobsOK, NEW j \in Jobs, NEW r \in Job, JobHasRead(r),
           job' = [job EXCEPT ![j] = r]
    PROVE  JobsOK'
BY DEF JobsOK, JobHasRead

(* The job reaches a place where it holds nothing yet. *)
LEMMA JobGoes ==
    ASSUME JobsOK, NEW j \in Jobs,
           NEW pc \in {"idle", "save", "clear", "check", "read", "sent", "answered"},
           job' = [job EXCEPT ![j].pc = pc]
    PROVE  JobsOK'
<1>1. job[j] \in Job
  BY DEF JobsOK
<1>2. [job[j] EXCEPT !.pc = pc] \in Job /\ [job[j] EXCEPT !.pc = pc].pc = pc
  BY <1>1 DEF Job
<1>3. job' = [job EXCEPT ![j] = [job[j] EXCEPT !.pc = pc]]
  BY DEF JobsOK
<1>4. QED
  BY <1>2, <1>3, JobMoves DEF JobHasRead

(* ... or where it holds this. *)
LEMMA JobGoesWith ==
    ASSUME JobsOK, NEW j \in Jobs,
           NEW pc \in {"idle", "save", "write", "clear", "check", "read", "store",
                       "sent", "answered"},
           NEW got \in Cached, pc \in {"write", "store"} => got \in Settings,
           job' = [job EXCEPT ![j].pc = pc, ![j].got = got]
    PROVE  JobsOK'
<1>1. job[j] \in Job
  BY DEF JobsOK
<1>2. /\ [job[j] EXCEPT !.pc = pc, !.got = got] \in Job
      /\ [job[j] EXCEPT !.pc = pc, !.got = got].pc = pc
      /\ [job[j] EXCEPT !.pc = pc, !.got = got].got = got
  BY <1>1 DEF Job
<1>3. job' = [job EXCEPT ![j] = [job[j] EXCEPT !.pc = pc, !.got = got]]
  BY DEF JobsOK
<1>4. QED
  BY <1>2, <1>3, JobMoves DEF JobHasRead

LEMMA JobStarts ==
    ASSUME JobsOK, WindowOK, NEW j \in Jobs, NEW then \in {"cast", "nothing"},
           NEW pc \in {"save", "clear"},
           job' = [job EXCEPT ![j] = Started(then, pc)]
    PROVE  JobsOK'
<1>1. Started(then, pc) \in Job /\ JobHasRead(Started(then, pc))
  BY DEF WindowOK, Started, Job, JobHasRead, Cached, Settings
<1>2. QED
  BY <1>1, JobMoves

LEMMA CommandSent ==
    ASSUME QueueOK, NEW c \in Commands, queue' = Append(queue, c)
    PROVE  QueueOK'
BY DEF QueueOK

LEMMA CommandTaken ==
    ASSUME QueueOK, NEW type, Takes(type), queue' = Tail(queue)
    PROVE  QueueOK' /\ Head(queue) \in Commands /\ Head(queue).type = type
BY DEF QueueOK, Takes

LEMMA CommandsMade ==
    ASSUME NEW s \in Settings, NEW j \in Jobs
    PROVE  /\ [type |-> "apply", settings |-> s, job |-> j] \in Commands
           /\ [type |-> "cast", job |-> j] \in Commands
BY DEF Commands

LEMMA ApplyTyped ==
    ASSUME NEW c \in Commands, c.type = "apply"
    PROVE  c.settings \in Settings /\ c.job \in Jobs
BY DEF Commands

LEMMA CastTyped ==
    ASSUME NEW c \in Commands, c.type = "cast"
    PROVE  c.job \in Jobs
BY DEF Commands

-----------------------------------------------------------------------------
(* The invariant holds at first and is kept by every action. *)

LEMMA InitPrefsInv == Init => PrefsInv
<1> SUFFICES ASSUME Init
             PROVE  PrefsInv
  OBVIOUS
<1>1. PICK s \in {[auto |-> a, edit |-> 0] : a \in BOOLEAN} :
         /\ file = s /\ cache = s
         /\ discovery = [under |-> s, missed |-> FALSE]
         /\ window = [settings |-> s, armed |-> FALSE, failed |-> FALSE]
         /\ engine = [pc |-> "loop", settings |-> s, got |-> None, job |-> None]
  BY DEF Init
<1>2. s \in Settings
  BY <1>1, BoundsAssumption DEF Settings
<1>3. JobsOK
  BY BoundsAssumption DEF Init, JobsOK, Job, JobHasRead, Cached
<1>4. EngineOK
  BY <1>1, <1>2 DEF EngineOK, EngineState, Cached
<1>5. FileOK /\ WindowOK /\ QueueOK
  BY <1>1, <1>2, BoundsAssumption DEF Init, FileOK, WindowOK, QueueOK, Cached,
     Discoveries
<1>6. QED
  BY <1>3, <1>4, <1>5 DEF PrefsInv

LEMMA EditKeepsInv ==
    ASSUME PrefsInv, Edit
    PROVE  PrefsInv'
<1>1. JobsOK'
  BY DEF Edit, PrefsInv, JobsOK
<1>2. EngineOK'
  BY DEF Edit, PrefsInv, EngineOK
<1>3. FileOK'
  BY DEF Edit, PrefsInv, FileOK
<1>4. WindowOK'
  BY BoundsAssumption DEF Edit, PrefsInv, WindowOK, Settings
<1>5. QueueOK'
  BY DEF Edit, PrefsInv, QueueOK
<1>6. QED
  BY <1>1, <1>2, <1>3, <1>4, <1>5 DEF PrefsInv

LEMMA TimerFiresKeepsInv ==
    ASSUME PrefsInv, NEW j \in Jobs, TimerFires(j)
    PROVE  PrefsInv'
<1>1. JobsOK'
  BY JobStarts DEF TimerFires, PrefsInv
<1>2. EngineOK'
  BY DEF TimerFires, PrefsInv, EngineOK
<1>3. FileOK'
  BY DEF TimerFires, PrefsInv, FileOK
<1>4. WindowOK'
  BY DEF TimerFires, PrefsInv, WindowOK
<1>5. QueueOK'
  BY DEF TimerFires, PrefsInv, QueueOK
<1>6. QED
  BY <1>1, <1>2, <1>3, <1>4, <1>5 DEF PrefsInv

LEMMA PressKeepsInv ==
    ASSUME PrefsInv, NEW j \in Jobs, Press(j)
    PROVE  PrefsInv'
<1>1. JobsOK'
  BY JobStarts DEF Press, PrefsInv
<1>2. EngineOK'
  BY DEF Press, PrefsInv, EngineOK
<1>3. FileOK'
  BY DEF Press, PrefsInv, FileOK
<1>4. WindowOK'
  BY BoundsAssumption DEF Press, PrefsInv, WindowOK
<1>5. QueueOK'
  BY DEF Press, PrefsInv, QueueOK
<1>6. QED
  BY <1>1, <1>2, <1>3, <1>4, <1>5 DEF PrefsInv

LEMMA TakesLockKeepsInv ==
    ASSUME PrefsInv, NEW j \in Jobs, TakesLock(j)
    PROVE  PrefsInv'
<1>1. window.settings \in Settings /\ window.settings \in Cached
  BY DEF PrefsInv, WindowOK, Cached
<1>2. JobsOK'
  BY <1>1, JobGoesWith DEF TakesLock, PrefsInv
<1>3. EngineOK'
  BY DEF TakesLock, PrefsInv, EngineOK
<1>4. FileOK'
  BY DEF TakesLock, PrefsInv, FileOK
<1>5. WindowOK'
  BY DEF TakesLock, PrefsInv, WindowOK
<1>6. QueueOK'
  BY DEF TakesLock, PrefsInv, QueueOK
<1>7. QED
  BY <1>2, <1>3, <1>4, <1>5, <1>6 DEF PrefsInv

LEMMA SavesKeepsInv ==
    ASSUME PrefsInv, NEW j \in Jobs, Saves(j)
    PROVE  PrefsInv'
<1>1. job[j].got \in Settings /\ None \in Cached
  BY DEF Saves, PrefsInv, JobsOK, JobHasRead, Cached
<1>2. JobsOK'
  BY <1>1, JobGoesWith DEF Saves, PrefsInv
<1>3. EngineOK'
  BY DEF Saves, PrefsInv, EngineOK
<1>4. FileOK'
  BY <1>1 DEF Saves, PrefsInv, FileOK
<1>5. WindowOK'
  BY DEF Saves, PrefsInv, WindowOK
<1>6. QueueOK'
  BY DEF Saves, PrefsInv, QueueOK
<1>7. QED
  BY <1>2, <1>3, <1>4, <1>5, <1>6 DEF PrefsInv

LEMMA SaveFailsKeepsInv ==
    ASSUME PrefsInv, NEW j \in Jobs, SaveFails(j)
    PROVE  PrefsInv'
<1>1. JobsOK'
  BY JobGoesWith DEF SaveFails, PrefsInv, Cached
<1>2. EngineOK'
  BY DEF SaveFails, PrefsInv, EngineOK
<1>3. FileOK'
  BY DEF SaveFails, PrefsInv, FileOK
<1>4. WindowOK'
  BY DEF SaveFails, PrefsInv, WindowOK
<1>5. QueueOK'
  BY DEF SaveFails, PrefsInv, QueueOK
<1>6. QED
  BY <1>1, <1>2, <1>3, <1>4, <1>5 DEF PrefsInv

LEMMA ClearsKeepsInv ==
    ASSUME PrefsInv, NEW j \in Jobs, Clears(j)
    PROVE  PrefsInv'
<1>1. JobsOK'
  BY JobGoes DEF Clears, PrefsInv
<1>2. EngineOK'
  BY DEF Clears, PrefsInv, EngineOK
<1>3. FileOK'
  BY DEF Clears, PrefsInv, FileOK, Cached
<1>4. WindowOK'
  BY DEF Clears, PrefsInv, WindowOK
<1>5. QueueOK'
  BY DEF Clears, PrefsInv, QueueOK
<1>6. QED
  BY <1>1, <1>2, <1>3, <1>4, <1>5 DEF PrefsInv

LEMMA ChecksKeepsInv ==
    ASSUME PrefsInv, NEW j \in Jobs, Checks(j)
    PROVE  PrefsInv'
<1>1. CASE cache = None
  <2>1. JobsOK'
    BY <1>1, JobGoes DEF Checks, PrefsInv
  <2>2. UNCHANGED queue
    BY <1>1 DEF Checks
  <2>3. QED
    BY <2>1, <2>2 DEF Checks, PrefsInv, EngineOK, FileOK, WindowOK, QueueOK
<1>2. CASE cache # None
  <2>1. cache \in Settings
    BY <1>2 DEF PrefsInv, FileOK, Cached
  <2>2. /\ job' = [job EXCEPT ![j].pc = "sent", ![j].got = None]
        /\ queue' = Append(queue, [type |-> "apply", settings |-> cache, job |-> j])
    BY <1>2 DEF Checks, Sends
  <2>3. JobsOK'
    BY <2>2, JobGoesWith DEF PrefsInv, Cached
  <2>4. QueueOK'
    BY <2>1, <2>2, CommandsMade, CommandSent DEF PrefsInv
  <2>5. QED
    BY <2>3, <2>4 DEF Checks, PrefsInv, EngineOK, FileOK, WindowOK
<1>3. QED
  BY <1>1, <1>2

LEMMA ReadsKeepsInv ==
    ASSUME PrefsInv, NEW j \in Jobs, Reads(j)
    PROVE  PrefsInv'
<1>1. JobsOK'
  BY JobGoesWith DEF Reads, PrefsInv, FileOK, Cached
<1>2. EngineOK'
  BY DEF Reads, PrefsInv, EngineOK
<1>3. FileOK'
  BY DEF Reads, PrefsInv, FileOK
<1>4. WindowOK'
  BY DEF Reads, PrefsInv, WindowOK
<1>5. QueueOK'
  BY DEF Reads, PrefsInv, QueueOK
<1>6. QED
  BY <1>1, <1>2, <1>3, <1>4, <1>5 DEF PrefsInv

LEMMA StoresKeepsInv ==
    ASSUME PrefsInv, NEW j \in Jobs, Stores(j)
    PROVE  PrefsInv'
<1>1. job[j].got \in Settings
  BY DEF Stores, PrefsInv, JobsOK, JobHasRead
<1>2. /\ job' = [job EXCEPT ![j].pc = "sent", ![j].got = None]
      /\ queue' = Append(queue, [type |-> "apply", settings |-> job[j].got, job |-> j])
      /\ cache' = job[j].got
  BY DEF Stores, Sends
<1>3. JobsOK'
  BY <1>2, JobGoesWith DEF PrefsInv, Cached
<1>4. EngineOK'
  BY DEF Stores, PrefsInv, EngineOK
<1>5. FileOK'
  BY <1>1, <1>2 DEF Stores, PrefsInv, FileOK, Cached
<1>6. WindowOK'
  BY DEF Stores, PrefsInv, WindowOK
<1>7. QueueOK'
  BY <1>1, <1>2, CommandsMade, CommandSent DEF PrefsInv
<1>8. QED
  BY <1>3, <1>4, <1>5, <1>6, <1>7 DEF PrefsInv

LEMMA AsksCastKeepsInv ==
    ASSUME PrefsInv, NEW j \in Jobs, AsksCast(j)
    PROVE  PrefsInv'
<1>1. [type |-> "cast", job |-> j] \in Commands
  BY DEF Commands
<1>2. JobsOK'
  BY JobGoes DEF AsksCast, PrefsInv
<1>3. EngineOK'
  BY DEF AsksCast, PrefsInv, EngineOK
<1>4. FileOK'
  BY DEF AsksCast, PrefsInv, FileOK
<1>5. WindowOK'
  BY DEF AsksCast, PrefsInv, WindowOK
<1>6. QueueOK'
  BY <1>1, CommandSent DEF AsksCast, PrefsInv
<1>7. QED
  BY <1>2, <1>3, <1>4, <1>5, <1>6 DEF PrefsInv

LEMMA AsksToggleKeepsInv ==
    ASSUME PrefsInv, AsksToggle
    PROVE  PrefsInv'
<1>1. [type |-> "toggle"] \in Commands
  BY DEF Commands
<1>2. JobsOK'
  BY DEF AsksToggle, PrefsInv, JobsOK
<1>3. EngineOK'
  BY DEF AsksToggle, PrefsInv, EngineOK
<1>4. FileOK'
  BY DEF AsksToggle, PrefsInv, FileOK
<1>5. WindowOK'
  BY BoundsAssumption DEF AsksToggle, PrefsInv, WindowOK
<1>6. QueueOK'
  BY <1>1, CommandSent DEF AsksToggle, PrefsInv
<1>7. QED
  BY <1>2, <1>3, <1>4, <1>5, <1>6 DEF PrefsInv

LEMMA AppliesKeepsInv ==
    ASSUME PrefsInv, Applies
    PROVE  PrefsInv'
<1>1. Head(queue) \in Commands /\ Head(queue).type = "apply" /\ QueueOK'
  BY CommandTaken DEF Applies, PrefsInv
<1>2. Head(queue).settings \in Settings /\ Head(queue).job \in Jobs
  BY <1>1, ApplyTyped
<1>3. JobsOK'
  BY <1>2, JobGoes DEF Applies, PrefsInv
<1>4. EngineOK'
  BY <1>2 DEF Applies, Takes, PrefsInv, EngineOK, EngineState
<1>5. FileOK'
  BY <1>2 DEF Applies, PrefsInv, FileOK, Cached, Restarted, Discoveries
<1>6. WindowOK'
  BY DEF Applies, PrefsInv, WindowOK
<1>7. QueueOK'
  BY <1>1
<1>8. QED
  BY <1>3, <1>4, <1>5, <1>6, <1>7 DEF PrefsInv

LEMMA CastBeginsKeepsInv ==
    ASSUME PrefsInv, CastBegins
    PROVE  PrefsInv'
<1>1. Head(queue) \in Commands /\ Head(queue).type = "cast" /\ QueueOK'
  BY CommandTaken DEF CastBegins, PrefsInv
<1>2. Head(queue).job \in Jobs
  BY <1>1, CastTyped
<1>3. JobsOK'
  BY DEF CastBegins, PrefsInv, JobsOK
<1>4. EngineOK'
  BY <1>2 DEF CastBegins, PrefsInv, EngineOK, EngineState
<1>5. FileOK'
  BY DEF CastBegins, PrefsInv, FileOK, Cached
<1>6. WindowOK'
  BY DEF CastBegins, PrefsInv, WindowOK
<1>7. QueueOK'
  BY <1>1
<1>8. QED
  BY <1>3, <1>4, <1>5, <1>6, <1>7 DEF PrefsInv

LEMMA CastStarted ==
    ASSUME PrefsInv, NEW s \in Settings, engine.job \in Jobs, CastStarts(s)
    PROVE  JobsOK' /\ EngineOK' /\ discovery' \in Discoveries
<1>1. JobsOK'
  BY JobGoes DEF CastStarts, PrefsInv
<1>2. EngineOK'
  BY DEF CastStarts, EngineOK, EngineState, Cached
<1>3. discovery' \in Discoveries
  <2>1. PICK b \in BOOLEAN : discovery' = [discovery EXCEPT !.missed = b]
    BY DEF CastStarts, PrefsInv, FileOK, Discoveries
  <2>2. QED
    BY <2>1 DEF PrefsInv, FileOK, Discoveries
<1>4. QED
  BY <1>1, <1>2, <1>3

LEMMA CastChecksKeepsInv ==
    ASSUME PrefsInv, CastChecks
    PROVE  PrefsInv'
<1>1. engine.pc = "check" /\ engine.job \in Jobs
  BY DEF CastChecks, PrefsInv, EngineOK
<1>2. UNCHANGED <<file, cache>> /\ WindowOK' /\ QueueOK'
  BY DEF CastChecks, PrefsInv, WindowOK, QueueOK
<1>3. CASE cache = None
  <2>1. engine' = [engine EXCEPT !.pc = "read"] /\ UNCHANGED <<job, discovery>>
    BY <1>3 DEF CastChecks
  <2>2. EngineOK'
    BY <1>1, <2>1 DEF PrefsInv, EngineOK, EngineState
  <2>3. JobsOK'
    BY <2>1 DEF PrefsInv, JobsOK
  <2>4. QED
    BY <1>2, <2>1, <2>2, <2>3 DEF PrefsInv, FileOK
<1>4. CASE cache # None
  <2>1. cache \in Settings /\ CastStarts(cache)
    BY <1>4 DEF CastChecks, PrefsInv, FileOK, Cached
  <2>2. QED
    BY <1>1, <1>2, <2>1, CastStarted DEF PrefsInv, FileOK
<1>5. QED
  BY <1>3, <1>4

LEMMA CastReadsKeepsInv ==
    ASSUME PrefsInv, CastReads
    PROVE  PrefsInv'
<1>1. JobsOK'
  BY DEF CastReads, PrefsInv, JobsOK
<1>2. EngineOK'
  BY DEF CastReads, PrefsInv, FileOK, EngineOK, EngineState, Cached
<1>3. FileOK'
  BY DEF CastReads, PrefsInv, FileOK
<1>4. WindowOK'
  BY DEF CastReads, PrefsInv, WindowOK
<1>5. QueueOK'
  BY DEF CastReads, PrefsInv, QueueOK
<1>6. QED
  BY <1>1, <1>2, <1>3, <1>4, <1>5 DEF PrefsInv

LEMMA CastStoresKeepsInv ==
    ASSUME PrefsInv, CastStores
    PROVE  PrefsInv'
<1>1. engine.got \in Settings /\ engine.job \in Jobs /\ CastStarts(engine.got)
  BY DEF CastStores, PrefsInv, EngineOK
<1>2. file' = file /\ cache' \in Cached /\ WindowOK' /\ QueueOK'
  BY <1>1 DEF CastStores, PrefsInv, WindowOK, QueueOK, Cached
<1>3. QED
  BY <1>1, <1>2, CastStarted DEF PrefsInv, FileOK

LEMMA TogglesKeepsInv ==
    ASSUME PrefsInv, Toggles
    PROVE  PrefsInv'
<1>1. engine.settings \in Settings /\ [engine.settings EXCEPT !.auto = ~@] \in Settings
  BY DEF PrefsInv, EngineOK, EngineState, Settings
<1>2. QueueOK'
  BY CommandTaken DEF Toggles, PrefsInv
<1>3. JobsOK'
  BY DEF Toggles, PrefsInv, JobsOK
<1>4. EngineOK'
  BY <1>1 DEF Toggles, PrefsInv, EngineOK, EngineState
<1>5. FileOK'
  BY <1>1 DEF Toggles, PrefsInv, FileOK, Cached
<1>6. WindowOK'
  BY DEF Toggles, PrefsInv, WindowOK
<1>7. QueueOK'
  BY <1>2
<1>8. QED
  BY <1>3, <1>4, <1>5, <1>6, <1>7 DEF PrefsInv

LEMMA ToggleReadsKeepsInv ==
    ASSUME PrefsInv, ToggleReads
    PROVE  PrefsInv'
<1>1. JobsOK'
  BY DEF ToggleReads, PrefsInv, JobsOK
<1>2. EngineOK'
  BY DEF ToggleReads, PrefsInv, FileOK, EngineOK, EngineState, Cached
<1>3. FileOK'
  BY DEF ToggleReads, PrefsInv, FileOK
<1>4. WindowOK'
  BY DEF ToggleReads, PrefsInv, WindowOK
<1>5. QueueOK'
  BY DEF ToggleReads, PrefsInv, QueueOK
<1>6. QED
  BY <1>1, <1>2, <1>3, <1>4, <1>5 DEF PrefsInv

LEMMA ToggleFallsBackKeepsInv ==
    ASSUME PrefsInv, ToggleFallsBack
    PROVE  PrefsInv'
<1>1. JobsOK' /\ WindowOK' /\ QueueOK'
  BY DEF ToggleFallsBack, PrefsInv, JobsOK, WindowOK, QueueOK
<1>2. engine \in EngineState /\ engine.pc = "fallback" /\ file \in Settings
  BY DEF ToggleFallsBack, PrefsInv, EngineOK, FileOK
<1>3. CASE engine.got = None
  <2>1. engine' = [engine EXCEPT !.got = file] /\ UNCHANGED <<file, cache, discovery>>
    BY <1>3 DEF ToggleFallsBack
  <2>2. EngineOK'
    BY <1>2, <2>1 DEF EngineOK, EngineState, Cached
  <2>3. QED
    BY <1>1, <2>1, <2>2 DEF PrefsInv, FileOK
<1>4. CASE engine.got # None
  <2>1. engine.got \in Settings
    BY <1>2, <1>4 DEF EngineState, Cached
  <2>2. /\ engine' = [engine EXCEPT !.pc = "save"] /\ cache' = engine.got
        /\ UNCHANGED <<file, discovery>>
    BY <1>4 DEF ToggleFallsBack
  <2>3. EngineOK'
    BY <1>2, <2>1, <2>2 DEF EngineOK, EngineState
  <2>4. QED
    BY <1>1, <2>1, <2>2, <2>3 DEF PrefsInv, FileOK, Cached
<1>5. QED
  BY <1>3, <1>4

LEMMA ToggleSavedKeepsInv ==
    ASSUME PrefsInv, ToggleSaved
    PROVE  PrefsInv'
<1>1. JobsOK'
  BY DEF ToggleSaved, PrefsInv, JobsOK
<1>2. EngineOK'
  BY DEF ToggleSaved, PrefsInv, EngineOK, EngineState, Cached
<1>3. FileOK'
  BY DEF ToggleSaved, PrefsInv, FileOK, EngineOK, EngineState, Restarted, Discoveries
<1>4. WindowOK'
  BY DEF ToggleSaved, PrefsInv, WindowOK
<1>5. QueueOK'
  BY DEF ToggleSaved, PrefsInv, QueueOK
<1>6. QED
  BY <1>1, <1>2, <1>3, <1>4, <1>5 DEF PrefsInv

LEMMA NextKeepsPrefsInv ==
    ASSUME PrefsInv, [Next]_vars
    PROVE  PrefsInv'
<1>1. CASE Edit \/ AsksToggle
  BY <1>1, EditKeepsInv, AsksToggleKeepsInv
<1>2. ASSUME NEW j \in Jobs, TimerFires(j) \/ Press(j) \/ Handled(j)
      PROVE  PrefsInv'
  BY <1>2, TimerFiresKeepsInv, PressKeepsInv, TakesLockKeepsInv, SavesKeepsInv,
     SaveFailsKeepsInv, ClearsKeepsInv, ChecksKeepsInv, ReadsKeepsInv,
     StoresKeepsInv, AsksCastKeepsInv DEF Handled
<1>3. CASE Engine
  BY <1>3, AppliesKeepsInv, CastBeginsKeepsInv, CastChecksKeepsInv,
     CastReadsKeepsInv, CastStoresKeepsInv, TogglesKeepsInv, ToggleReadsKeepsInv,
     ToggleFallsBackKeepsInv, ToggleSavedKeepsInv DEF Engine
<1>4. CASE UNCHANGED vars
  BY <1>4 DEF vars, PrefsInv, JobsOK, EngineOK, FileOK, WindowOK, QueueOK
<1>5. QED
  BY <1>1, <1>2, <1>3, <1>4 DEF Next

(* Every state is typed, and nothing is stored or saved that was not read. *)
THEOREM PrefsInvariant == Spec => []PrefsInv
<1>1. PrefsInv /\ [Next]_vars => PrefsInv'
  BY NextKeepsPrefsInv
<1>2. QED
  BY <1>1, InitPrefsInv, PTL DEF Spec

(* The service never saves a cleared cache, whenever a reload interferes.  *)
THEOREM TypeCorrect == Spec => []TypeOK
<1>1. PrefsInv => TypeOK
  BY PrefsInvTypes
<1>2. QED
  BY <1>1, PrefsInvariant, PTL

-----------------------------------------------------------------------------
(***************************************************************************)
(* Saves.  Nothing outside the window is newer than the window, nor, while *)
(* a job holds the lock and is about to write, than what it took: what the *)
(* service reads, sends, stores or saves meanwhile is older.               *)
(***************************************************************************)
Within(s, n) == s # None => s.edit <= n

CeilingJobs(n) == \A j \in Jobs : job[j].pc = "store" => Within(job[j].got, n)

CeilingQueue(n) ==
    \A i \in 1..Len(queue) :
        queue[i].type = "apply" => Within(queue[i].settings, n)

CeilingEngine(n) == engine.settings.edit <= n /\ Within(engine.got, n)

CeilingFile(n) == file.edit <= n /\ Within(cache, n)

Ceiling(n) == CeilingJobs(n) /\ CeilingQueue(n) /\ CeilingEngine(n) /\ CeilingFile(n)

Writing(j) ==
    /\ writer = j
    /\ job[j].got.edit <= window.settings.edit
    /\ Ceiling(job[j].got.edit)

SaveInv ==
    /\ Ceiling(window.settings.edit)
    /\ \A j \in Jobs : job[j].pc = "write" => Writing(j)

(* Jobs that do not come to the write leave the others there. *)
JobsApart == \A k \in Jobs : job'[k] = job[k] \/ job'[k].pc # "write"

(* The step puts nothing newer than n outside the window. *)
Kept(n) == Ceiling(n) => Ceiling(n)'

LEMMA CeilingSame ==
    ASSUME NEW n \in Nat, UNCHANGED <<file, cache, engine, queue>>,
           \A k \in Jobs : job'[k] = job[k] \/ job'[k].pc # "store"
    PROVE  Kept(n)
BY DEF Kept, Ceiling, CeilingJobs, CeilingQueue, CeilingEngine, CeilingFile, Within

LEMMA QueueGrows ==
    ASSUME PrefsInv, NEW n \in Nat, NEW c \in Commands,
           queue' = Append(queue, c), CeilingQueue(n),
           c.type = "apply" => Within(c.settings, n)
    PROVE  CeilingQueue(n)'
<1>1. queue \in Seq(Commands)
  BY DEF PrefsInv, QueueOK
<1>2. ASSUME NEW i \in 1..Len(queue'), queue'[i].type = "apply"
      PROVE  Within(queue'[i].settings, n)
  <2>1. CASE i = Len(queue) + 1
    BY <1>1, <1>2, <2>1
  <2>2. CASE i # Len(queue) + 1
    <3>1. i \in 1..Len(queue) /\ queue'[i] = queue[i]
      BY <1>1, <2>2
    <3>2. QED
      BY <1>2, <3>1 DEF CeilingQueue
  <2>3. QED
    BY <2>1, <2>2
<1>3. QED
  BY <1>2 DEF CeilingQueue, Within

LEMMA QueueShrinks ==
    ASSUME PrefsInv, NEW n \in Nat, queue # <<>>, CeilingQueue(n)
    PROVE  /\ queue' = Tail(queue) => CeilingQueue(n)'
           /\ Head(queue).type = "apply" => Within(Head(queue).settings, n)
<1>1. queue \in Seq(Commands)
  BY DEF PrefsInv, QueueOK
<1>2. Head(queue) = queue[1] /\ 1 \in 1..Len(queue)
  BY <1>1
<1>3. ASSUME queue' = Tail(queue)
      PROVE  CeilingQueue(n)'
  <2>1. ASSUME NEW i \in 1..Len(queue')
        PROVE  queue'[i] = queue[i + 1] /\ i + 1 \in 1..Len(queue)
    BY <1>1, <1>3
  <2>2. QED
    BY <2>1 DEF CeilingQueue, Within
<1>4. QED
  BY <1>2, <1>3 DEF CeilingQueue

LEMMA SendsKeeps ==
    ASSUME PrefsInv, NEW j \in Jobs, NEW s \in Settings, Sends(j, s),
           NEW n \in Nat, Ceiling(n), Within(s, n)
    PROVE  CeilingQueue(n)' /\ CeilingJobs(n)'
<1>1. [type |-> "apply", settings |-> s, job |-> j] \in Commands
  BY CommandsMade
<1>2. CeilingQueue(n)'
  BY <1>1, QueueGrows DEF Sends, Ceiling
<1>3. job \in [Jobs -> Job]
  BY DEF PrefsInv, JobsOK
<1>4. \A k \in Jobs : job'[k] = job[k] \/ job'[k].pc = "sent"
  BY <1>3 DEF Sends, Job
<1>5. QED
  BY <1>2, <1>4 DEF Ceiling, CeilingJobs, Within

(* The bus handlers. *)
LEMMA HandlersKeep ==
    ASSUME PrefsInv, NEW n \in Nat, NEW j \in Jobs, None \notin Settings,
           Clears(j) \/ Checks(j) \/ Reads(j) \/ Stores(j) \/ AsksCast(j)
    PROVE  Kept(n)
<1> SUFFICES ASSUME Ceiling(n)
             PROVE  Ceiling(n)'
  BY DEF Kept
<1>1. job \in [Jobs -> Job] /\ file \in Settings /\ cache \in Cached
  BY DEF PrefsInv, JobsOK, FileOK
<1>2. CASE Clears(j)
  BY <1>1, <1>2 DEF Clears, Job, Ceiling, CeilingJobs, CeilingQueue, CeilingEngine,
     CeilingFile, Within
<1>3. CASE Checks(j) /\ cache = None
  BY <1>1, <1>3 DEF Checks, Job, Ceiling, CeilingJobs, CeilingQueue, CeilingEngine,
     CeilingFile, Within
<1>4. CASE Checks(j) /\ cache # None
  <2>1. Sends(j, cache) /\ cache \in Settings /\ Within(cache, n)
    BY <1>1, <1>4 DEF Checks, Cached, Ceiling, CeilingFile
  <2>2. CeilingQueue(n)' /\ CeilingJobs(n)'
    BY <2>1, SendsKeeps
  <2>3. UNCHANGED <<file, cache, engine>>
    BY <1>4 DEF Checks
  <2>4. QED
    BY <2>2, <2>3 DEF Ceiling, CeilingEngine, CeilingFile, Within
<1>5. CASE Reads(j)
  <2>1. /\ job' = [job EXCEPT ![j].pc = "store", ![j].got = file]
        /\ UNCHANGED <<file, cache, engine, queue>>
    BY <1>5 DEF Reads
  <2>2. job'[j].got = file /\ \A k \in Jobs \ {j} : job'[k] = job[k]
    BY <1>1, <2>1 DEF Job
  <2>3. CeilingJobs(n)'
    BY <2>2 DEF Ceiling, CeilingJobs, CeilingFile, Within
  <2>4. QED
    BY <2>1, <2>3 DEF Ceiling, CeilingQueue, CeilingEngine, CeilingFile, Within
<1>6. CASE Stores(j)
  <2>1. Sends(j, job[j].got) /\ job[j].got \in Settings /\ Within(job[j].got, n)
    BY <1>6 DEF Stores, PrefsInv, JobsOK, JobHasRead, Ceiling, CeilingJobs
  <2>2. CeilingQueue(n)' /\ CeilingJobs(n)'
    BY <2>1, SendsKeeps
  <2>3. UNCHANGED <<file, engine>> /\ cache' = job[j].got
    BY <1>6 DEF Stores
  <2>4. QED
    BY <2>1, <2>2, <2>3 DEF Ceiling, CeilingEngine, CeilingFile, Within
<1>7. CASE AsksCast(j)
  <2>1. [type |-> "cast", job |-> j] \in Commands
    BY DEF Commands
  <2>2. CeilingQueue(n)'
    BY <1>7, <2>1, QueueGrows DEF AsksCast, Ceiling
  <2>3. /\ UNCHANGED <<file, cache, engine>>
        /\ \A k \in Jobs : job'[k] = job[k] \/ job'[k].pc = "sent"
    BY <1>1, <1>7 DEF AsksCast, Job
  <2>4. QED
    BY <2>2, <2>3 DEF Ceiling, CeilingJobs, CeilingEngine, CeilingFile, Within
<1>8. QED
  BY <1>2, <1>3, <1>4, <1>5, <1>6, <1>7 DEF Checks

(* The engine. *)
LEMMA EngineJobsKeep ==
    ASSUME PrefsInv, NEW n \in Nat, Ceiling(n), AsksToggle \/ Engine
    PROVE  CeilingJobs(n)'
<1>1. job \in [Jobs -> Job]
  BY DEF PrefsInv, JobsOK
<1>2. \A k \in Jobs : job'[k] = job[k] \/ job'[k].pc \in {"answered", "idle"}
  BY <1>1 DEF AsksToggle, Engine, Applies, CastBegins, CastChecks, CastReads, CastStores,
     CastStarts, Toggles, ToggleReads, ToggleFallsBack, ToggleSaved, Job
<1>3. QED
  BY <1>2 DEF Ceiling, CeilingJobs, Within

LEMMA EngineKeeps ==
    ASSUME PrefsInv, NEW n \in Nat, None \notin Settings, AsksToggle \/ Engine
    PROVE  Kept(n)
<1> SUFFICES ASSUME Ceiling(n)
             PROVE  Ceiling(n)'
  BY DEF Kept
<1>1. CeilingJobs(n)'
  BY EngineJobsKeep
<1>2. engine \in EngineState /\ file \in Settings /\ cache \in Cached
  BY DEF PrefsInv, EngineOK, FileOK
<1>3. CASE AsksToggle
  <2>1. [type |-> "toggle"] \in Commands
    BY DEF Commands
  <2>2. CeilingQueue(n)'
    BY <1>3, <2>1, QueueGrows DEF AsksToggle, Ceiling
  <2>3. QED
    BY <1>1, <1>3, <2>2 DEF AsksToggle, Ceiling, CeilingEngine, CeilingFile, Within
<1>4. CASE Applies
  <2>1. CeilingQueue(n)' /\ Within(Head(queue).settings, n)
    BY <1>4, QueueShrinks DEF Applies, Takes, Ceiling
  <2>2. Head(queue).settings \in Settings
    BY <1>4, CommandTaken, ApplyTyped DEF Applies, Takes, PrefsInv, QueueOK
  <2>3. /\ file' = file /\ cache' = Head(queue).settings
        /\ engine' = [engine EXCEPT !.settings = Head(queue).settings]
    BY <1>4 DEF Applies
  <2>4. engine'.settings = Head(queue).settings /\ engine'.got = engine.got
    BY <1>2, <2>3 DEF EngineState
  <2>5. QED
    BY <1>1, <2>1, <2>2, <2>3, <2>4 DEF Ceiling, CeilingEngine, CeilingFile, Within
<1>5. CASE CastBegins
  <2>1. CeilingQueue(n)'
    BY <1>5, QueueShrinks DEF CastBegins, Takes, Ceiling
  <2>2. /\ file' = file /\ cache' = None
        /\ engine'.settings = engine.settings /\ engine'.got = engine.got
    BY <1>2, <1>5 DEF CastBegins, EngineState
  <2>3. QED
    BY <1>1, <2>1, <2>2 DEF Ceiling, CeilingEngine, CeilingFile, Within
<1>6. CASE Toggles
  <2>1. CeilingQueue(n)'
    BY <1>6, QueueShrinks DEF Toggles, Takes, Ceiling
  <2>2. PICK new : /\ new = [engine.settings EXCEPT !.auto = ~@]
                   /\ engine' = [engine EXCEPT !.pc = "persist", !.settings = new]
                   /\ cache' = new /\ file' = file
    BY <1>6 DEF Toggles
  <2>3. new.edit = engine.settings.edit
    BY <1>2, <2>2 DEF EngineState, Settings
  <2>4. engine'.settings = new /\ engine'.got = engine.got
    BY <1>2, <2>2 DEF EngineState
  <2>5. QED
    BY <1>1, <2>1, <2>2, <2>3, <2>4 DEF Ceiling, CeilingEngine, CeilingFile, Within
<1>7. CASE CastChecks \/ CastReads \/ CastStores
  <2>1. UNCHANGED <<queue, file>>
    BY <1>7 DEF CastChecks, CastReads, CastStores
  <2>2. CeilingEngine(n)' /\ CeilingFile(n)'
    <3>1. CASE CastChecks
      BY <1>2, <3>1 DEF CastChecks, CastStarts, EngineState, Ceiling, CeilingEngine,
         CeilingFile, Within
    <3>2. CASE CastReads
      BY <1>2, <3>2 DEF CastReads, EngineState, Ceiling, CeilingEngine, CeilingFile,
         Within
    <3>3. CASE CastStores
      <4>1. engine.got \in Settings
        BY <3>3 DEF CastStores, PrefsInv, EngineOK
      <4>2. QED
        BY <3>3, <4>1 DEF CastStores, CastStarts, Ceiling, CeilingEngine, CeilingFile,
           Within
    <3>4. QED
      BY <1>7, <3>1, <3>2, <3>3
  <2>3. QED
    BY <1>1, <2>1, <2>2 DEF Ceiling, CeilingQueue, Within
<1>8. CASE ToggleReads \/ ToggleFallsBack \/ ToggleSaved
  <2>1. UNCHANGED queue
    BY <1>8 DEF ToggleReads, ToggleFallsBack, ToggleSaved
  <2>2. CeilingEngine(n)' /\ CeilingFile(n)'
    <3>1. CASE ToggleReads
      BY <1>2, <3>1 DEF ToggleReads, EngineState, Ceiling, CeilingEngine, CeilingFile,
         Within
    <3>2. CASE ToggleFallsBack
      BY <1>2, <3>2 DEF ToggleFallsBack, EngineState, Ceiling, CeilingEngine,
         CeilingFile, Within
    <3>3. CASE ToggleSaved
      <4>1. engine.got \in Settings
        BY <3>3 DEF ToggleSaved, PrefsInv, EngineOK
      <4>2. QED
        BY <1>2, <3>3, <4>1 DEF ToggleSaved, EngineState, Ceiling, CeilingEngine,
           CeilingFile, Within
    <3>4. QED
      BY <1>8, <3>1, <3>2, <3>3
  <2>3. QED
    BY <1>1, <2>1, <2>2 DEF Ceiling, CeilingQueue, Within
<1>9. QED
  BY <1>3, <1>4, <1>5, <1>6, <1>7, <1>8 DEF Engine

LEMMA CeilingGrows ==
    ASSUME PrefsInv, NEW m \in Nat, NEW n \in Nat, m <= n, Ceiling(m)
    PROVE  Ceiling(n)
<1>1. \A s \in Cached : Within(s, m) => Within(s, n)
  BY DEF Cached, Settings, Within
<1>2. CeilingJobs(n)
  BY <1>1 DEF Ceiling, CeilingJobs, PrefsInv, JobsOK, Job
<1>3. CeilingQueue(n)
  <2>1. queue \in Seq(Commands)
    BY DEF PrefsInv, QueueOK
  <2>2. ASSUME NEW i \in 1..Len(queue), queue[i].type = "apply"
        PROVE  queue[i].settings \in Cached
    <3>1. queue[i] \in Commands
      BY <2>1
    <3>2. QED
      BY <2>2, <3>1, ApplyTyped DEF Cached
  <2>3. QED
    BY <1>1, <2>2 DEF Ceiling, CeilingQueue
<1>4. CeilingEngine(n) /\ CeilingFile(n)
  <2>1. /\ engine.got \in Cached /\ cache \in Cached
        /\ engine.settings.edit \in Nat /\ file.edit \in Nat
    BY DEF PrefsInv, EngineOK, EngineState, FileOK, Settings
  <2>2. QED
    BY <1>1, <2>1 DEF Ceiling, CeilingEngine, CeilingFile
<1>5. QED
  BY <1>2, <1>3, <1>4 DEF Ceiling

(* What is known of the edits' numbers. *)
LEMMA EditsAreNumbers ==
    ASSUME PrefsInv
    PROVE  /\ window.settings.edit \in Nat /\ file.edit \in Nat
           /\ \A j \in Jobs : job[j].pc = "write" => job[j].got.edit \in Nat
BY DEF PrefsInv, WindowOK, FileOK, JobsOK, JobHasRead, Settings

LEMMA SaveInvApart ==
    ASSUME PrefsInv, SaveInv, JobsApart, UNCHANGED writer,
           window'.settings = window.settings, \A n \in Nat : Kept(n)
    PROVE  SaveInv'
<1>1. Ceiling(window.settings.edit)'
  <2>1. \A n \in Nat : Ceiling(n) => Ceiling(n)'
    BY DEF Kept
  <2>2. QED
    BY <2>1, EditsAreNumbers DEF SaveInv, Ceiling, CeilingJobs, CeilingQueue,
       CeilingEngine, CeilingFile, Within
<1>2. ASSUME NEW j \in Jobs, job'[j].pc = "write"
      PROVE  Writing(j)'
  <2>1. job'[j] = job[j] /\ job[j].pc = "write"
    BY <1>2 DEF JobsApart
  <2>2. Writing(j) /\ job[j].got.edit \in Nat
    BY <2>1, EditsAreNumbers DEF SaveInv
  <2>3. \A n \in Nat : Ceiling(n) => Ceiling(n)'
    BY DEF Kept
  <2>4. QED
    BY <2>1, <2>2, <2>3 DEF Writing, Ceiling, CeilingJobs, CeilingQueue, CeilingEngine,
       CeilingFile, Within
<1>3. QED
  BY <1>1, <1>2 DEF SaveInv

LEMMA EditKeepsSaveInv ==
    ASSUME PrefsInv, SaveInv, Edit
    PROVE  SaveInv'
<1>1. /\ UNCHANGED <<file, writer, job, cache, engine, queue>>
      /\ window'.settings.edit = window.settings.edit + 1
  BY DEF Edit
<1>2. Ceiling(window.settings.edit + 1)
  BY EditsAreNumbers, CeilingGrows DEF SaveInv
<1>3. Ceiling(window.settings.edit)'
  BY <1>1, <1>2 DEF Ceiling, CeilingJobs, CeilingQueue, CeilingEngine, CeilingFile, Within
<1>4. ASSUME NEW j \in Jobs, job'[j].pc = "write"
      PROVE  Writing(j)'
  BY <1>1, <1>4, EditsAreNumbers DEF SaveInv, Writing, Ceiling, CeilingJobs, CeilingQueue,
     CeilingEngine, CeilingFile, Within
<1>5. QED
  BY <1>3, <1>4 DEF SaveInv

LEMMA TakesLockKeepsSaveInv ==
    ASSUME PrefsInv, SaveInv, NEW j \in Jobs, TakesLock(j), None \notin Jobs
    PROVE  SaveInv'
<1>1. /\ writer = None /\ writer' = j
      /\ UNCHANGED <<file, window, cache, engine, queue>>
      /\ job' = [job EXCEPT ![j].pc = "write", ![j].got = window.settings]
  BY DEF TakesLock
<1>2. job \in [Jobs -> Job] /\ window.settings.edit \in Nat
  BY DEF PrefsInv, JobsOK, WindowOK, Settings
<1>3. job'[j].pc = "write" /\ job'[j].got = window.settings
  BY <1>1, <1>2 DEF Job
<1>4. ASSUME NEW k \in Jobs, k # j
      PROVE  job'[k] = job[k] /\ job[k].pc # "write"
  <2>1. job'[k] = job[k]
    BY <1>1, <1>2, <1>4
  <2>2. job[k].pc = "write" => writer = k
    BY DEF SaveInv, Writing
  <2>3. QED
    BY <1>1, <2>1, <2>2
<1>5. Ceiling(window.settings.edit)'
  BY <1>1, <1>3, <1>4 DEF SaveInv, Ceiling, CeilingJobs, CeilingQueue, CeilingEngine,
     CeilingFile, Within
<1>6. Ceiling(job[j].got.edit)'
  BY <1>1, <1>3, <1>5 DEF Ceiling, CeilingJobs, CeilingQueue, CeilingEngine, CeilingFile,
     Within
<1>7. Writing(j)'
  BY <1>1, <1>2, <1>3, <1>6 DEF Writing
<1>8. QED
  BY <1>4, <1>5, <1>7 DEF SaveInv

(* Whoever writes is the only one there. *)
LEMMA OneWriter ==
    ASSUME PrefsInv, SaveInv, NEW j \in Jobs, job[j].pc = "write",
           NEW pc, NEW got, pc # "write",
           job' = [job EXCEPT ![j].pc = pc, ![j].got = got]
    PROVE  /\ job'[j].pc = pc
           /\ \A k \in Jobs : job'[k].pc # "write"
           /\ \A k \in Jobs : k # j => job'[k] = job[k]
<1>1. job \in [Jobs -> Job] /\ writer = j
  BY DEF PrefsInv, JobsOK, SaveInv, Writing
<1>2. ASSUME NEW k \in Jobs, k # j
      PROVE  job'[k] = job[k] /\ job[k].pc # "write"
  <2>1. job'[k] = job[k]
    BY <1>1, <1>2
  <2>2. job[k].pc = "write" => writer = k
    BY DEF SaveInv, Writing
  <2>3. QED
    BY <1>1, <1>2, <2>1, <2>2
<1>3. job'[j].pc = pc
  BY <1>1 DEF Job
<1>4. QED
  BY <1>2, <1>3

LEMMA WritesKeepSaveInv ==
    ASSUME PrefsInv, SaveInv, NEW j \in Jobs, Saves(j) \/ SaveFails(j)
    PROVE  SaveInv' /\ file'.edit >= file.edit
<1>1. /\ job[j].pc = "write" /\ window'.settings = window.settings
      /\ UNCHANGED <<cache, engine, queue>>
      /\ file' = job[j].got \/ file' = file
      /\ \E pc \in {"clear", "idle"} :
            job' = [job EXCEPT ![j].pc = pc, ![j].got = None]
  BY DEF Saves, SaveFails, PrefsInv, WindowOK
<1>2. /\ job'[j].pc \in {"clear", "idle"}
      /\ \A k \in Jobs : job'[k].pc # "write"
      /\ \A k \in Jobs : k # j => job'[k] = job[k]
  <2>1. PICK pc \in {"clear", "idle"} :
            job' = [job EXCEPT ![j].pc = pc, ![j].got = None]
    BY <1>1
  <2>2. pc # "write"
    OBVIOUS
  <2>3. QED
    BY <1>1, <2>1, <2>2, OneWriter
<1>3. /\ job[j].got.edit <= window.settings.edit
      /\ Ceiling(job[j].got.edit) /\ Ceiling(window.settings.edit)
  BY <1>1 DEF SaveInv, Writing
<1>4. /\ file.edit \in Nat /\ job[j].got.edit \in Nat
      /\ window.settings.edit \in Nat
  BY <1>1, EditsAreNumbers
<1>5. file'.edit <= window.settings.edit /\ file'.edit >= file.edit
  <2>1. CASE file' = job[j].got
    BY <1>3, <1>4, <2>1 DEF Ceiling, CeilingFile
  <2>2. CASE file' = file
    BY <1>3, <1>4, <2>2 DEF Ceiling, CeilingFile
  <2>3. QED
    BY <1>1, <2>1, <2>2
<1>6. Ceiling(window.settings.edit)'
  <2>1. CeilingJobs(window.settings.edit)'
    BY <1>1, <1>2, <1>3 DEF Ceiling, CeilingJobs, Within
  <2>2. QED
    BY <1>1, <1>3, <1>5, <2>1 DEF Ceiling, CeilingQueue, CeilingEngine, CeilingFile, Within
<1>7. QED
  BY <1>2, <1>5, <1>6 DEF SaveInv

(* What is not the window's to save leaves the lock, and the writer's      *)
(* values above everything else.                                           *)
LEMMA OthersKeepSaveInv ==
    ASSUME PrefsInv, SaveInv, None \notin Settings,
           \/ \E j \in Jobs : TimerFires(j) \/ Press(j)
           \/ \E j \in Jobs : Clears(j) \/ Checks(j) \/ Reads(j) \/ Stores(j) \/ AsksCast(j)
           \/ AsksToggle \/ Engine
    PROVE  SaveInv' /\ UNCHANGED writer
<1>1. job \in [Jobs -> Job]
  BY DEF PrefsInv, JobsOK
<1>2. ASSUME NEW j \in Jobs, TimerFires(j) \/ Press(j)
      PROVE  SaveInv' /\ UNCHANGED writer
  <2>1. \A k \in Jobs : job'[k] = job[k] \/ job'[k].pc \in {"save", "clear"}
    BY <1>1, <1>2 DEF TimerFires, Press, Started
  <2>2. /\ UNCHANGED <<file, writer, cache, engine, queue>>
        /\ window'.settings = window.settings
    BY <1>2 DEF TimerFires, Press, PrefsInv, WindowOK
  <2>3. JobsApart
    BY <2>1 DEF JobsApart
  <2>4. \A n \in Nat : Kept(n)
    BY <2>1, <2>2, CeilingSame
  <2>5. QED
    BY <2>2, <2>3, <2>4, SaveInvApart
<1>3. ASSUME NEW j \in Jobs, Clears(j) \/ Checks(j) \/ Reads(j) \/ Stores(j) \/ AsksCast(j)
      PROVE  SaveInv' /\ UNCHANGED writer
  <2>1. JobsApart
    BY <1>1, <1>3 DEF Clears, Checks, Reads, Stores, AsksCast, Sends, JobsApart, Job
  <2>2. UNCHANGED <<writer, window>>
    BY <1>3 DEF Clears, Checks, Reads, Stores, AsksCast
  <2>3. \A n \in Nat : Kept(n)
    BY <1>3, HandlersKeep
  <2>4. QED
    BY <2>1, <2>2, <2>3, SaveInvApart
<1>4. CASE AsksToggle \/ Engine
  <2>1. JobsApart
    BY <1>1, <1>4 DEF AsksToggle, Engine, Applies, CastBegins, CastChecks, CastReads,
       CastStores, CastStarts, Toggles, ToggleReads, ToggleFallsBack, ToggleSaved,
       JobsApart, Job
  <2>2. UNCHANGED <<writer, window>>
    BY <1>4 DEF AsksToggle, Engine, Applies, CastBegins, CastChecks, CastReads,
       CastStores, Toggles, ToggleReads, ToggleFallsBack, ToggleSaved
  <2>3. \A n \in Nat : Kept(n)
    BY <1>4, EngineKeeps
  <2>4. QED
    BY <2>1, <2>2, <2>3, SaveInvApart
<1>5. QED
  BY <1>2, <1>3, <1>4

(* A step that lets the lock go is the end of a save. *)
ReleaseInOrder == writer # None /\ writer' = None => file'.edit >= file.edit

LEMMA SaveInvKept ==
    ASSUME PrefsInv, SaveInv, Next, None \notin Jobs, None \notin Settings
    PROVE  SaveInv' /\ ReleaseInOrder
<1>1. CASE Edit
  BY <1>1, EditKeepsSaveInv DEF Edit, ReleaseInOrder
<1>2. ASSUME NEW j \in Jobs, TakesLock(j)
      PROVE  SaveInv' /\ ReleaseInOrder
  BY <1>2, TakesLockKeepsSaveInv DEF TakesLock, ReleaseInOrder
<1>3. ASSUME NEW j \in Jobs, Saves(j) \/ SaveFails(j)
      PROVE  SaveInv' /\ ReleaseInOrder
  BY <1>3, WritesKeepSaveInv DEF ReleaseInOrder
<1>4. CASE \/ \E j \in Jobs : TimerFires(j) \/ Press(j)
           \/ \E j \in Jobs : Clears(j) \/ Checks(j) \/ Reads(j) \/ Stores(j) \/ AsksCast(j)
           \/ AsksToggle \/ Engine
  BY <1>4, OthersKeepSaveInv DEF ReleaseInOrder
<1>5. QED
  BY <1>1, <1>2, <1>3, <1>4 DEF Next, Handled

(* No save of the window's, however delayed, brings an older value back,   *)
(* whatever the service reads, stores and saves meanwhile (persist's       *)
(* WRITER lock and the read under it).                                     *)
THEOREM SavesNeverGoBack ==
    ASSUME None \notin Jobs, None \notin Settings
    PROVE  Spec => WindowSavesInOrder
<1> DEFINE Inv == PrefsInv /\ SaveInv
<1>1. Init => Inv
  <2> SUFFICES ASSUME Init
               PROVE  Inv
    OBVIOUS
  <2>1. PrefsInv
    BY InitPrefsInv
  <2>2. PICK a \in BOOLEAN : LET s == [auto |-> a, edit |-> 0] IN
          /\ file = s /\ cache = s /\ window.settings = s
          /\ engine.settings = s /\ engine.got = None /\ queue = <<>>
          /\ \A j \in Jobs : job[j].pc = "idle"
    BY DEF Init
  <2>3. SaveInv
    BY <2>2 DEF SaveInv, Ceiling, CeilingJobs, CeilingQueue, CeilingEngine, CeilingFile,
       Within
  <2>4. QED
    BY <2>1, <2>3
<1>2. Inv /\ [Next]_vars => Inv' /\ [ReleaseInOrder]_<<file, writer>>
  <2> SUFFICES ASSUME Inv, [Next]_vars
               PROVE  Inv' /\ [ReleaseInOrder]_<<file, writer>>
    OBVIOUS
  <2>1. PrefsInv'
    BY NextKeepsPrefsInv
  <2>2. CASE Next
    BY <2>1, <2>2, SaveInvKept
  <2>3. CASE UNCHANGED vars
    BY <2>1, <2>3 DEF vars, SaveInv, Writing, Ceiling, CeilingJobs, CeilingQueue,
       CeilingEngine, CeilingFile, Within
  <2>4. QED
    BY <2>2, <2>3
<1> HIDE DEF Inv
<1>3. QED
  BY <1>1, <1>2, PTL DEF Spec, WindowSavesInOrder, ReleaseInOrder

-----------------------------------------------------------------------------
(***************************************************************************)
(* Discovery.  Every handler that changes the engine's preferences either  *)
(* compares them with what was in force, restarts discovery at its end, or *)
(* is a cast, which leaves its change unacted on.                          *)
(***************************************************************************)
DiscoveryInv ==
    engine.pc \in {"loop", "check", "read", "store"} =>
        discovery.missed \/ discovery.under = engine.settings

LEMMA CastTakesOver ==
    ASSUME PrefsInv, DiscoveryInv, NEW s, CastStarts(s),
           engine.pc \in {"check", "store"}
    PROVE  DiscoveryInv'
<1>1. engine'.settings = s
  BY DEF CastStarts
<1>2. /\ discovery'.under = discovery.under
      /\ discovery'.missed <=> discovery.missed \/ s # engine.settings
  BY DEF CastStarts, PrefsInv, FileOK, Discoveries
<1>3. discovery.missed \/ discovery.under = engine.settings
  BY DEF DiscoveryInv
<1>4. QED
  BY <1>1, <1>2, <1>3 DEF DiscoveryInv

LEMMA DiscoveryInvKept ==
    ASSUME PrefsInv, DiscoveryInv, Next
    PROVE  DiscoveryInv'
<1>1. engine \in EngineState
  BY DEF PrefsInv, EngineOK
<1>2. CASE UNCHANGED <<engine, discovery>>
  BY <1>2 DEF DiscoveryInv
<1>3. CASE Applies
  <2>1. engine.pc = "loop" /\ engine'.settings = Head(queue).settings
    BY <1>1, <1>3 DEF Applies, Takes, EngineState
  <2>2. discovery' = IF Head(queue).settings # engine.settings
                     THEN [under |-> Head(queue).settings, missed |-> FALSE]
                     ELSE discovery
    BY <1>3 DEF Applies, Rediscovers, Restarted
  <2>3. QED
    BY <2>1, <2>2 DEF DiscoveryInv
<1>4. CASE CastBegins
  BY <1>1, <1>4 DEF CastBegins, Takes, DiscoveryInv, EngineState
<1>5. CASE CastChecks
  <2>1. CASE cache = None
    BY <1>1, <1>5, <2>1 DEF CastChecks, DiscoveryInv, EngineState
  <2>2. CASE cache # None
    BY <1>5, <2>2, CastTakesOver DEF CastChecks
  <2>3. QED
    BY <2>1, <2>2
<1>6. CASE CastReads
  BY <1>1, <1>6 DEF CastReads, DiscoveryInv, EngineState
<1>7. CASE CastStores
  BY <1>7, CastTakesOver DEF CastStores
<1>8. CASE Toggles
  BY <1>1, <1>8 DEF Toggles, DiscoveryInv, EngineState
<1>9. CASE ToggleReads
  BY <1>1, <1>9 DEF ToggleReads, DiscoveryInv, EngineState
<1>10. CASE ToggleFallsBack
  BY <1>1, <1>10 DEF ToggleFallsBack, DiscoveryInv, EngineState
<1>11. CASE ToggleSaved
  BY <1>1, <1>11 DEF ToggleSaved, Restarted, DiscoveryInv, EngineState
<1>12. QED
  BY <1>2, <1>3, <1>4, <1>5, <1>6, <1>7, <1>8, <1>9, <1>10, <1>11
     DEF Next, Engine, Handled, Edit, TimerFires, Press, TakesLock, Saves, SaveFails,
         Clears, Checks, Reads, Stores, AsksCast, AsksToggle

(* However many reloads, toggles and casts cross, discovery is left running *)
(* under the preferences in force, unless a cast has taken a change over    *)
(* from the file and no change was handled since.                           *)
THEOREM DiscoveryKeepsUp == Spec => []DiscoveryFollows
<1> DEFINE Inv == PrefsInv /\ DiscoveryInv
<1>1. Init => Inv
  <2> SUFFICES ASSUME Init
               PROVE  Inv
    OBVIOUS
  <2>1. PICK s \in {[auto |-> a, edit |-> 0] : a \in BOOLEAN} :
           /\ discovery = [under |-> s, missed |-> FALSE]
           /\ engine = [pc |-> "loop", settings |-> s, got |-> None, job |-> None]
    BY DEF Init
  <2>2. DiscoveryInv
    BY <2>1 DEF DiscoveryInv
  <2>3. QED
    BY <2>2, InitPrefsInv
<1>2. Inv /\ [Next]_vars => Inv'
  <2> SUFFICES ASSUME Inv, [Next]_vars
               PROVE  Inv'
    OBVIOUS
  <2>1. PrefsInv'
    BY NextKeepsPrefsInv
  <2>2. CASE Next
    BY <2>1, <2>2, DiscoveryInvKept
  <2>3. CASE UNCHANGED vars
    BY <2>1, <2>3 DEF vars, DiscoveryInv
  <2>4. QED
    BY <2>2, <2>3
<1>3. Inv => DiscoveryFollows
  BY DEF DiscoveryInv, DiscoveryFollows, Settled
<1> HIDE DEF Inv
<1>4. QED
  BY <1>1, <1>2, <1>3, PTL DEF Spec

-----------------------------------------------------------------------------
(* OptionsPanel: what is on its way to a component leads it to where its   *)
(* sender already is.                                                      *)

Values == Shares \cup Choice \cup {Default} \cup BOOLEAN
Notes ==
    [kind : {"share", "choice", "settings", "options", "replace"}, value : Values,
     echo : BOOLEAN]
    \cup [kind : {"extra"}, value : BOOLEAN, echo : BOOLEAN]

OptionTypes ==
    /\ tile \in [share : Values, choice : Values]
    /\ panel \in [share : Values, choice : Values, extra : BOOLEAN]
    /\ shell \in [share : Values, source : Values, extra : BOOLEAN]
    /\ page \in Values
    /\ panelInbox \in Seq(Notes) /\ windowInbox \in Seq(Notes) /\ pageInbox \in Seq(Notes)

NoneOf(q, k) == \A i \in 1..Len(q) : q[i].kind # k
LastIs(q, k, v) ==
    \E i \in 1..Len(q) :
        /\ q[i].kind = k /\ q[i].value = v
        /\ \A j \in (i + 1)..Len(q) : q[j].kind # k
Leads(q, k, now, v) == (NoneOf(q, k) /\ now = v) \/ LastIs(q, k, v)
SameOf(q, r, k) ==
    (NoneOf(q, k) <=> NoneOf(r, k)) /\ \A v : LastIs(q, k, v) <=> LastIs(r, k, v)
HasOther(q) == \E i \in 1..Len(q) : q[i].kind = "share" /\ q[i].value # "extra"

TilesLead ==
    /\ Leads(panelInbox, "share", panel.share, tile.share)
    /\ Leads(panelInbox, "choice", panel.choice, tile.choice)

WindowLeads ==
    /\ Leads(windowInbox, "share", shell.share, panel.share)
    /\ Leads(panelInbox, "extra", panel.extra, shell.extra)
    /\ filesShown = (shell.share = "files")
    /\ shell.share # "files" => shell.source = shell.share

(* A choice goes round by the settings page; once none is on its way       *)
(* there, the way back leads to what the page has in force.                *)
PageLeads ==
    NoneOf(windowInbox, "options") /\ pageInbox = <<>> =>
        \/ LastIs(windowInbox, "settings", page)
        \/ /\ NoneOf(windowInbox, "settings")
           /\ Leads(panelInbox, "settings", panel.choice, page)

(* A share that cannot be honoured is about to be left.                    *)
ExtraLeaves ==
    ~panel.extra =>
        /\ tile.share = "extra" => panel.share = "extra"
        /\ panel.share = "extra" => HasOther(panelInbox)

OptionsInv == OptionTypes /\ TilesLead /\ WindowLeads /\ PageLeads /\ ExtraLeaves

-----------------------------------------------------------------------------
(* An inbox with one message more, and with one less. *)

LEMMA NoteAdded ==
    ASSUME NEW q \in Seq(Notes), NEW m \in Notes, NEW k
    PROVE  /\ m.kind # k => SameOf(Append(q, m), q, k)
           /\ m.kind = k => LastIs(Append(q, m), k, m.value) /\ ~NoneOf(Append(q, m), k)
           /\ HasOther(q) => HasOther(Append(q, m))
           /\ m.kind = "share" /\ m.value # "extra" => HasOther(Append(q, m))
<1>. DEFINE e == Append(q, m)
<1>1. /\ Len(e) = Len(q) + 1 /\ e[Len(q) + 1] = m /\ Len(q) \in Nat
      /\ \A i \in 1..Len(q) : e[i] = q[i]
  OBVIOUS
<1>. HIDE DEF e
<1>2. Len(q) + 1 \in 1..Len(e) /\ \A i \in 1..Len(e) : i \in 1..Len(q) \/ i = Len(q) + 1
  BY <1>1
<1>3. ASSUME m.kind # k
      PROVE  SameOf(e, q, k)
  <2>1. NoneOf(e, k) <=> NoneOf(q, k)
    BY <1>1, <1>2, <1>3 DEF NoneOf
  <2>2. ASSUME NEW v, LastIs(e, k, v)
        PROVE  LastIs(q, k, v)
    <3>1. PICK i \in 1..Len(e) : /\ e[i].kind = k /\ e[i].value = v
                                 /\ \A j \in (i + 1)..Len(e) : e[j].kind # k
      BY <2>2 DEF LastIs
    <3>2. i \in 1..Len(q)
      BY <1>1, <1>2, <1>3, <3>1
    <3>3. \A j \in (i + 1)..Len(q) : q[j].kind # k
      BY <1>1, <3>1, <3>2
    <3>. QED
      BY <1>1, <3>1, <3>2, <3>3 DEF LastIs
  <2>3. ASSUME NEW v, LastIs(q, k, v)
        PROVE  LastIs(e, k, v)
    <3>1. PICK i \in 1..Len(q) : /\ q[i].kind = k /\ q[i].value = v
                                 /\ \A j \in (i + 1)..Len(q) : q[j].kind # k
      BY <2>3 DEF LastIs
    <3>2. \A j \in (i + 1)..Len(e) : e[j].kind # k
      <4>. SUFFICES ASSUME NEW j \in (i + 1)..Len(e) PROVE e[j].kind # k
        OBVIOUS
      <4>1. CASE j = Len(q) + 1
        BY <1>1, <1>3, <4>1
      <4>2. CASE j # Len(q) + 1
        <5>1. j \in (i + 1)..Len(q)
          BY <1>1, <4>2
        <5>. QED
          BY <1>1, <3>1, <5>1
      <4>. QED
        BY <4>1, <4>2
    <3>. QED
      BY <1>1, <3>1, <3>2 DEF LastIs
  <2>. QED
    BY <2>1, <2>2, <2>3 DEF SameOf
<1>4. ASSUME m.kind = k
      PROVE  LastIs(e, k, m.value) /\ ~NoneOf(e, k)
  BY <1>1, <1>2, <1>4 DEF LastIs, NoneOf
<1>5. HasOther(q) => HasOther(e)
  BY <1>1 DEF HasOther
<1>6. m.kind = "share" /\ m.value # "extra" => HasOther(e)
  BY <1>1, <1>2 DEF HasOther
<1>. QED
  BY <1>3, <1>4, <1>5, <1>6 DEF e

LEMMA NoteTaken ==
    ASSUME NEW q \in Seq(Notes), q # <<>>, NEW k
    PROVE  /\ Head(q).kind # k => SameOf(Tail(q), q, k)
           /\ Head(q).kind = k => ~NoneOf(q, k)
           /\ Head(q).kind = k =>
                  \A v : LastIs(q, k, v) => Leads(Tail(q), k, Head(q).value, v)
           /\ HasOther(q) /\ ~(Head(q).kind = "share" /\ Head(q).value # "extra") =>
                  HasOther(Tail(q))
<1>. DEFINE t == Tail(q)
            h == Head(q)
<1>1. /\ Len(q) \in Nat \ {0} /\ Len(t) = Len(q) - 1 /\ h = q[1]
      /\ \A i \in 1..Len(t) : t[i] = q[i + 1]
  OBVIOUS
<1>. HIDE DEF t, h
<1>2. /\ \A i \in 2..Len(q) : i - 1 \in 1..Len(t) /\ t[i - 1] = q[i]
      /\ \A i \in 1..Len(q) : i = 1 \/ i \in 2..Len(q)
      /\ 1 \in 1..Len(q) /\ \A i \in 1..Len(t) : i + 1 \in 1..Len(q)
  BY <1>1
<1>3. ASSUME NEW v, NEW i \in 2..Len(q), q[i].kind = k, q[i].value = v,
             \A j \in (i + 1)..Len(q) : q[j].kind # k
      PROVE  LastIs(t, k, v)
  <2>1. i - 1 \in 1..Len(t) /\ t[i - 1] = q[i]
    BY <1>2
  <2>2. ASSUME NEW j \in ((i - 1) + 1)..Len(t)
        PROVE  t[j].kind # k
    <3>1. j + 1 \in (i + 1)..Len(q) /\ t[j] = q[j + 1]
      BY <1>1
    <3>. QED
      BY <1>3, <3>1
  <2>. QED
    BY <1>3, <2>1, <2>2 DEF LastIs
<1>4. ASSUME h.kind # k
      PROVE  SameOf(t, q, k)
  <2>1. NoneOf(t, k) <=> NoneOf(q, k)
    BY <1>1, <1>2, <1>4 DEF NoneOf
  <2>2. ASSUME NEW v, LastIs(q, k, v)
        PROVE  LastIs(t, k, v)
    <3>1. PICK i \in 1..Len(q) : /\ q[i].kind = k /\ q[i].value = v
                                 /\ \A j \in (i + 1)..Len(q) : q[j].kind # k
      BY <2>2 DEF LastIs
    <3>2. i \in 2..Len(q)
      BY <1>1, <1>2, <1>4, <3>1
    <3>. QED
      BY <1>3, <3>1, <3>2
  <2>3. ASSUME NEW v, LastIs(t, k, v)
        PROVE  LastIs(q, k, v)
    <3>1. PICK i \in 1..Len(t) : /\ t[i].kind = k /\ t[i].value = v
                                 /\ \A j \in (i + 1)..Len(t) : t[j].kind # k
      BY <2>3 DEF LastIs
    <3>2. i + 1 \in 1..Len(q) /\ q[i + 1] = t[i]
      BY <1>1
    <3>3. ASSUME NEW j \in ((i + 1) + 1)..Len(q)
          PROVE  q[j].kind # k
      <4>1. j - 1 \in (i + 1)..Len(t) /\ t[j - 1] = q[j]
        BY <1>1, <1>2
      <4>. QED
        BY <3>1, <4>1
    <3>. QED
      BY <3>1, <3>2, <3>3 DEF LastIs
  <2>. QED
    BY <2>1, <2>2, <2>3 DEF SameOf
<1>5. h.kind = k => ~NoneOf(q, k)
  BY <1>1, <1>2 DEF NoneOf
<1>6. ASSUME h.kind = k, NEW v, LastIs(q, k, v)
      PROVE  Leads(t, k, h.value, v)
  <2>1. PICK i \in 1..Len(q) : /\ q[i].kind = k /\ q[i].value = v
                               /\ \A j \in (i + 1)..Len(q) : q[j].kind # k
    BY <1>6 DEF LastIs
  <2>2. CASE i \in 2..Len(q)
    BY <1>3, <2>1, <2>2 DEF Leads
  <2>3. CASE i = 1
    <3>1. NoneOf(t, k)
      BY <1>1, <2>1, <2>3 DEF NoneOf
    <3>. QED
      BY <1>1, <2>1, <2>3, <3>1 DEF Leads
  <2>. QED
    BY <1>2, <2>2, <2>3
<1>7. ASSUME HasOther(q), ~(h.kind = "share" /\ h.value # "extra")
      PROVE  HasOther(t)
  <2>1. PICK i \in 1..Len(q) : q[i].kind = "share" /\ q[i].value # "extra"
    BY <1>7 DEF HasOther
  <2>2. i \in 2..Len(q)
    BY <1>1, <1>2, <1>7, <2>1
  <2>. QED
    BY <1>2, <2>1, <2>2 DEF HasOther
<1>. QED
  BY <1>4, <1>5, <1>6, <1>7 DEF t, h

LEMMA SameLeads ==
    \A q, r, k : SameOf(q, r, k) => \A now, v : Leads(q, k, now, v) <=> Leads(r, k, now, v)
BY DEF SameOf, Leads

(* The values go onto the tiles: what the panel holds is what they show    *)
(* or what their echoes lead to.                                           *)
LEMMA ShowLeads ==
    ASSUME NEW share \in Values, NEW choice \in Values, NEW rest \in Seq(Notes),
           tile \in [share : Values, choice : Values], Show(share, choice, rest),
           NEW a, Leads(rest, "share", a, tile.share),
           NEW b, Leads(rest, "choice", b, tile.choice)
    PROVE  /\ tile' = [share |-> share, choice |-> choice]
           /\ panelInbox' \in Seq(Notes)
           /\ Leads(panelInbox', "share", share, tile'.share)
           /\ Leads(panelInbox', "choice", choice, tile'.choice)
           /\ SameOf(panelInbox', rest, "extra") /\ SameOf(panelInbox', rest, "settings")
           /\ HasOther(rest) => HasOther(panelInbox')
<1>. DEFINE s == Echo("share", share)
            c == Echo("choice", choice)
            mid == IF tile.share # share THEN Append(rest, s) ELSE rest
<1>1. s \in Notes /\ s.kind = "share" /\ s.value = share
  BY DEF Echo, Notes
<1>2. c \in Notes /\ c.kind = "choice" /\ c.value = choice
  BY DEF Echo, Notes
<1>3. tile' = [share |-> share, choice |-> choice]
      /\ tile'.share = share /\ tile'.choice = choice
  BY DEF Show
<1>. HIDE DEF s, c
<1>4. mid \in Seq(Notes)
  BY <1>1
<1>5. panelInbox' = IF tile.choice # choice THEN Append(mid, c) ELSE mid
  <2>1. panelInbox' = (rest \o When(tile.share # share, s)) \o When(tile.choice # choice, c)
    BY DEF Show, s, c
  <2>2. rest \o When(tile.share # share, s) = mid
    BY <1>1 DEF When
  <2>. HIDE DEF mid
  <2>3. mid \o When(tile.choice # choice, c) =
          IF tile.choice # choice THEN Append(mid, c) ELSE mid
    BY <1>2, <1>4 DEF When
  <2>. QED
    BY <2>1, <2>2, <2>3
<1>6. /\ Leads(mid, "share", share, share)
      /\ SameOf(mid, rest, "choice") /\ SameOf(mid, rest, "extra")
      /\ SameOf(mid, rest, "settings") /\ (HasOther(rest) => HasOther(mid))
  <2>1. CASE tile.share # share
    <3>1. mid = Append(rest, s)
      BY <2>1
    <3>2. LastIs(mid, "share", share)
      BY <1>1, <3>1, NoteAdded
    <3>. QED
      BY <1>1, <3>1, <3>2, NoteAdded DEF Leads
  <2>2. CASE tile.share = share
    <3>1. mid = rest
      BY <2>2
    <3>2. Leads(rest, "share", share, share)
      BY <2>2 DEF Leads
    <3>. QED
      BY <3>1, <3>2 DEF SameOf
  <2>. QED
    BY <2>1, <2>2
<1>. HIDE DEF mid
<1>7. CASE tile.choice # choice
  <2>1. panelInbox' = Append(mid, c)
    BY <1>5, <1>7
  <2>2. /\ SameOf(panelInbox', mid, "share") /\ SameOf(panelInbox', mid, "extra")
        /\ SameOf(panelInbox', mid, "settings") /\ LastIs(panelInbox', "choice", choice)
        /\ (HasOther(mid) => HasOther(panelInbox')) /\ panelInbox' \in Seq(Notes)
    BY <1>2, <1>4, <2>1, NoteAdded
  <2>. QED
    BY <1>3, <1>6, <2>2 DEF SameOf, Leads
<1>8. CASE tile.choice = choice
  <2>1. panelInbox' = mid
    BY <1>5, <1>8
  <2>2. Leads(mid, "choice", choice, choice)
    BY <1>6, <1>8 DEF SameOf, Leads
  <2>. QED
    BY <1>3, <1>4, <1>6, <2>1, <2>2
<1>. QED
  BY <1>7, <1>8

LEMMA NotesMade ==
    /\ \A s \in Shares : Message("share", s) \in Notes
    /\ \A c \in Values : /\ Message("choice", c) \in Notes /\ Message("settings", c) \in Notes
                         /\ Message("options", c) \in Notes /\ Message("replace", c) \in Notes
                         /\ Message("share", c) \in Notes
    /\ \A b \in BOOLEAN : Message("extra", b) \in Notes
    /\ \A m \in Notes : m.value \in Values /\ (m.kind = "extra" => m.value \in BOOLEAN)
BY DEF Message, Notes, Values

LEMMA MessageSays ==
    \A k, v : Message(k, v).kind = k /\ Message(k, v).value = v
BY DEF Message

LEMMA NothingLeads ==
    \A k, now, v : NoneOf(<<>>, k) /\ ~LastIs(<<>>, k, v) /\ (Leads(<<>>, k, now, v) <=> now = v)
BY DEF NoneOf, LastIs, Leads

-----------------------------------------------------------------------------
(* The person, and the service. *)

LEMMA PicksShareKeeps ==
    ASSUME OptionsInv, NEW share \in Shares, PicksShare(share)
    PROVE  OptionsInv'
<1>. DEFINE m == Message("share", share)
<1>1. /\ m \in Notes /\ m.kind = "share" /\ m.value = share /\ share \in Values
      /\ panelInbox \in Seq(Notes)
  BY NotesMade, MessageSays DEF Values, OptionsInv, OptionTypes
<1>. HIDE DEF m
<1>2. /\ tile' = [tile EXCEPT !.share = share] /\ panelInbox' = Append(panelInbox, m)
      /\ (share = "extra" => panel.extra)
      /\ UNCHANGED <<panel, shell, windowInbox, page, pageInbox, filesShown>>
  BY DEF PicksShare, m
<1>3. OptionTypes'
  <2>1. tile' \in [share : Values, choice : Values]
    BY <1>1, <1>2 DEF OptionsInv, OptionTypes
  <2>2. panelInbox' \in Seq(Notes)
    BY <1>1, <1>2
  <2>. QED
    BY <1>2, <2>1, <2>2 DEF OptionsInv, OptionTypes
<1>4. /\ LastIs(panelInbox', "share", share) /\ SameOf(panelInbox', panelInbox, "choice")
      /\ SameOf(panelInbox', panelInbox, "extra")
      /\ SameOf(panelInbox', panelInbox, "settings")
      /\ (HasOther(panelInbox) => HasOther(panelInbox'))
  BY <1>1, <1>2, NoteAdded
<1>5. tile'.share = share /\ tile'.choice = tile.choice
  BY <1>2 DEF OptionsInv, OptionTypes
<1>6. TilesLead'
  BY <1>2, <1>4, <1>5 DEF OptionsInv, TilesLead, Leads, SameOf
<1>7. WindowLeads' /\ PageLeads'
  BY <1>2, <1>4 DEF OptionsInv, WindowLeads, PageLeads, Leads, SameOf
<1>8. ExtraLeaves'
  BY <1>2, <1>4, <1>5 DEF OptionsInv, ExtraLeaves
<1>. QED
  BY <1>3, <1>6, <1>7, <1>8 DEF OptionsInv

LEMMA PicksChoiceKeeps ==
    ASSUME OptionsInv, NEW c \in Choice, PicksChoice(c)
    PROVE  OptionsInv'
<1>. DEFINE m == Message("choice", c)
<1>1. /\ m \in Notes /\ m.kind = "choice" /\ m.value = c /\ c \in Values
      /\ panelInbox \in Seq(Notes)
  BY NotesMade, MessageSays DEF Values, OptionsInv, OptionTypes
<1>. HIDE DEF m
<1>2. /\ tile' = [tile EXCEPT !.choice = c] /\ panelInbox' = Append(panelInbox, m)
      /\ UNCHANGED <<panel, shell, windowInbox, page, pageInbox, filesShown>>
  BY DEF PicksChoice, m
<1>3. OptionTypes'
  <2>1. tile' \in [share : Values, choice : Values]
    BY <1>1, <1>2 DEF OptionsInv, OptionTypes
  <2>2. panelInbox' \in Seq(Notes)
    BY <1>1, <1>2
  <2>. QED
    BY <1>2, <2>1, <2>2 DEF OptionsInv, OptionTypes
<1>4. /\ LastIs(panelInbox', "choice", c) /\ SameOf(panelInbox', panelInbox, "share")
      /\ SameOf(panelInbox', panelInbox, "extra")
      /\ SameOf(panelInbox', panelInbox, "settings")
      /\ (HasOther(panelInbox) => HasOther(panelInbox'))
  BY <1>1, <1>2, NoteAdded
<1>5. tile'.choice = c /\ tile'.share = tile.share
  BY <1>2 DEF OptionsInv, OptionTypes
<1>6. TilesLead'
  BY <1>2, <1>4, <1>5 DEF OptionsInv, TilesLead, Leads, SameOf
<1>7. WindowLeads' /\ PageLeads'
  BY <1>2, <1>4 DEF OptionsInv, WindowLeads, PageLeads, Leads, SameOf
<1>8. ExtraLeaves'
  BY <1>2, <1>4, <1>5 DEF OptionsInv, ExtraLeaves
<1>. QED
  BY <1>3, <1>6, <1>7, <1>8 DEF OptionsInv

LEMMA RestoresKeeps ==
    ASSUME OptionsInv, Restores
    PROVE  OptionsInv'
<1>. DEFINE m == Message("settings", Default)
<1>1. m \in Notes /\ m.kind = "settings" /\ m.value = Default /\ Default \in Values
  BY NotesMade, MessageSays DEF Values
<1>. HIDE DEF m
<1>2. /\ windowInbox = <<>> /\ page' = Default /\ windowInbox' = Append(windowInbox, m)
      /\ UNCHANGED <<tile, panel, panelInbox, shell, pageInbox, filesShown>>
  <2>1. windowInbox' = <<m>> /\ windowInbox = <<>>
    BY DEF Restores, NothingQueued, m
  <2>. QED
    BY <2>1 DEF Restores
<1>3. windowInbox \in Seq(Notes)
  BY DEF OptionsInv, OptionTypes
<1>4. /\ LastIs(windowInbox', "settings", Default) /\ SameOf(windowInbox', windowInbox, "share")
      /\ windowInbox' \in Seq(Notes)
  <2>1. windowInbox' = Append(windowInbox, m)
    BY <1>2
  <2>2. LastIs(Append(windowInbox, m), "settings", Default)
    BY <1>1, <1>3, NoteAdded
  <2>3. SameOf(Append(windowInbox, m), windowInbox, "share")
    BY <1>1, <1>3, NoteAdded
  <2>4. Append(windowInbox, m) \in Seq(Notes)
    BY <1>1, <1>3
  <2>. QED
    BY <2>1, <2>2, <2>3, <2>4
<1>5. OptionTypes'
  BY <1>1, <1>2, <1>4 DEF OptionsInv, OptionTypes
<1>6. TilesLead' /\ ExtraLeaves'
  BY <1>2 DEF OptionsInv, TilesLead, ExtraLeaves
<1>7. WindowLeads'
  BY <1>2, <1>4 DEF OptionsInv, WindowLeads, Leads, SameOf
<1>8. PageLeads'
  BY <1>2, <1>4 DEF PageLeads
<1>. QED
  BY <1>5, <1>6, <1>7, <1>8 DEF OptionsInv

LEMMA ServiceProbedKeeps ==
    ASSUME OptionsInv, ServiceProbed
    PROVE  OptionsInv'
<1>. DEFINE m == Message("extra", ~ shell.extra)
<1>1. /\ m \in Notes /\ m.kind = "extra" /\ m.value = ~ shell.extra
      /\ panelInbox \in Seq(Notes) /\ shell.extra \in BOOLEAN
  BY NotesMade, MessageSays DEF OptionsInv, OptionTypes
<1>. HIDE DEF m
<1>2. /\ shell' = [shell EXCEPT !.extra = ~ @] /\ panelInbox' = Append(panelInbox, m)
      /\ UNCHANGED <<tile, panel, windowInbox, page, pageInbox, filesShown>>
  BY DEF ServiceProbed, m
<1>3. OptionTypes'
  <2>1. \E b \in BOOLEAN : shell' = [shell EXCEPT !.extra = b]
    BY <1>1, <1>2
  <2>2. shell' \in [share : Values, source : Values, extra : BOOLEAN]
    BY <2>1 DEF OptionsInv, OptionTypes
  <2>3. panelInbox' \in Seq(Notes)
    BY <1>1, <1>2
  <2>. QED
    BY <1>2, <2>2, <2>3 DEF OptionsInv, OptionTypes
<1>4. /\ LastIs(panelInbox', "extra", ~ shell.extra)
      /\ SameOf(panelInbox', panelInbox, "choice")
      /\ SameOf(panelInbox', panelInbox, "share")
      /\ SameOf(panelInbox', panelInbox, "settings")
      /\ (HasOther(panelInbox) => HasOther(panelInbox'))
  BY <1>1, <1>2, NoteAdded
<1>5. shell'.extra = ~ shell.extra /\ shell'.share = shell.share
      /\ shell'.source = shell.source
  BY <1>2 DEF OptionsInv, OptionTypes
<1>6. TilesLead'
  BY <1>2, <1>4 DEF OptionsInv, TilesLead, Leads, SameOf
<1>7. WindowLeads'
  BY <1>2, <1>4, <1>5 DEF OptionsInv, WindowLeads, Leads
<1>8. PageLeads'
  BY <1>2, <1>4 DEF OptionsInv, PageLeads, Leads, SameOf
<1>9. ExtraLeaves'
  BY <1>2, <1>4 DEF OptionsInv, ExtraLeaves
<1>. QED
  BY <1>3, <1>6, <1>7, <1>8, <1>9 DEF OptionsInv

-----------------------------------------------------------------------------
(* The panel. *)

LEMMA PanelTakesSettingsKeeps ==
    ASSUME OptionsInv, PanelTakesSettings
    PROVE  OptionsInv'
<1>. DEFINE q == panelInbox
            t == Tail(panelInbox)
            c == Head(panelInbox).value
<1>1. /\ q \in Seq(Notes) /\ q # <<>> /\ Head(q) \in Notes /\ t \in Seq(Notes)
      /\ Head(q).kind = "settings" /\ c \in Values /\ panel.share \in Values
      /\ tile \in [share : Values, choice : Values]
  BY NotesMade DEF PanelTakesSettings, OptionsInv, OptionTypes
<1>2. /\ panel' = [panel EXCEPT !.choice = c] /\ Show(panel.share, c, t)
      /\ UNCHANGED <<shell, windowInbox, page, pageInbox, filesShown>>
  BY DEF PanelTakesSettings
<1>3. /\ SameOf(t, q, "share") /\ SameOf(t, q, "choice") /\ SameOf(t, q, "extra")
      /\ \A v : LastIs(q, "settings", v) => Leads(t, "settings", c, v)
      /\ ~NoneOf(q, "settings") /\ (HasOther(q) => HasOther(t))
  BY <1>1, NoteTaken
<1>. HIDE DEF t, c
<1>4. Leads(t, "share", panel.share, tile.share) /\ Leads(t, "choice", panel.choice, tile.choice)
  BY <1>3 DEF OptionsInv, TilesLead, SameOf, Leads
<1>5. /\ tile' = [share |-> panel.share, choice |-> c]
      /\ panelInbox' \in Seq(Notes)
      /\ Leads(panelInbox', "share", panel.share, tile'.share)
      /\ Leads(panelInbox', "choice", c, tile'.choice)
      /\ SameOf(panelInbox', t, "extra") /\ SameOf(panelInbox', t, "settings")
      /\ HasOther(t) => HasOther(panelInbox')
  BY <1>1, <1>2, <1>4, ShowLeads
<1>6. panel'.share = panel.share /\ panel'.choice = c /\ panel'.extra = panel.extra
  BY <1>2 DEF OptionsInv, OptionTypes
<1>7. OptionTypes'
  BY <1>1, <1>2, <1>5 DEF OptionsInv, OptionTypes
<1>8. TilesLead'
  BY <1>5, <1>6 DEF TilesLead
<1>9. WindowLeads'
  BY <1>2, <1>3, <1>5, <1>6 DEF OptionsInv, WindowLeads, Leads, SameOf
<1>10. PageLeads'
  BY <1>2, <1>3, <1>5, <1>6 DEF OptionsInv, PageLeads, Leads, SameOf
<1>11. ExtraLeaves'
  <2>1. ASSUME ~panel.extra, panel.share = "extra"
        PROVE  HasOther(panelInbox')
    BY <1>3, <1>5, <2>1 DEF OptionsInv, ExtraLeaves
  <2>. QED
    BY <1>5, <1>6, <2>1 DEF ExtraLeaves
<1>. QED
  BY <1>7, <1>8, <1>9, <1>10, <1>11 DEF OptionsInv

(* A share the desktop cannot honour is left, and the window is told.      *)
LEMMA PanelTakesExtraKeeps ==
    ASSUME OptionsInv, PanelTakesExtra
    PROVE  OptionsInv'
<1>. DEFINE q == panelInbox
            t == Tail(panelInbox)
            available == Head(panelInbox).value
            lost_ == ~ available /\ panel.share = "extra"
            share == IF lost_ THEN "screen" ELSE panel.share
            m == Message("share", share)
<1>1. /\ q \in Seq(Notes) /\ q # <<>> /\ Head(q) \in Notes /\ t \in Seq(Notes)
      /\ Head(q).kind = "extra" /\ available \in BOOLEAN /\ share \in Values
      /\ panel.choice \in Values /\ windowInbox \in Seq(Notes)
      /\ tile \in [share : Values, choice : Values]
  BY NotesMade DEF PanelTakesExtra, OptionsInv, OptionTypes, Values, Shares
<1>2. /\ panel' = [panel EXCEPT !.extra = available, !.share = share]
      /\ windowInbox' = windowInbox \o (IF lost_ THEN <<m>> ELSE <<>>)
      /\ Show(share, panel.choice, t)
      /\ UNCHANGED <<shell, page, pageInbox, filesShown>>
  BY DEF PanelTakesExtra, FallsBack
<1>3. /\ SameOf(t, q, "share") /\ SameOf(t, q, "choice") /\ SameOf(t, q, "settings")
      /\ \A v : LastIs(q, "extra", v) => Leads(t, "extra", available, v)
      /\ ~NoneOf(q, "extra") /\ (HasOther(q) => HasOther(t))
  BY <1>1, NoteTaken
<1>4. m \in Notes /\ m.kind = "share" /\ m.value = share
  BY <1>1, NotesMade, MessageSays
<1>5. windowInbox' = IF lost_ THEN Append(windowInbox, m) ELSE windowInbox
  BY <1>1, <1>2, <1>4
<1>6. ~ available => share # "extra"
  OBVIOUS
<1>7. ~ lost_ => share = panel.share
  OBVIOUS
<1>. HIDE DEF t, available, m, share, lost_
<1>8. /\ Leads(t, "share", panel.share, tile.share)
      /\ Leads(t, "choice", panel.choice, tile.choice)
  BY <1>3 DEF OptionsInv, TilesLead, SameOf, Leads
<1>9. /\ tile' = [share |-> share, choice |-> panel.choice]
      /\ panelInbox' \in Seq(Notes)
      /\ Leads(panelInbox', "share", share, tile'.share)
      /\ Leads(panelInbox', "choice", panel.choice, tile'.choice)
      /\ SameOf(panelInbox', t, "extra") /\ SameOf(panelInbox', t, "settings")
      /\ HasOther(t) => HasOther(panelInbox')
  BY <1>1, <1>2, <1>8, ShowLeads
<1>10. /\ panel'.share = share /\ panel'.choice = panel.choice /\ panel'.extra = available
       /\ tile'.share = share
  BY <1>2, <1>9 DEF OptionsInv, OptionTypes
<1>11. /\ windowInbox' \in Seq(Notes) /\ SameOf(windowInbox', windowInbox, "options")
       /\ SameOf(windowInbox', windowInbox, "settings")
       /\ Leads(windowInbox', "share", shell.share, share)
  <2>1. CASE lost_
    <3>1. windowInbox' = Append(windowInbox, m)
      BY <1>5, <2>1
    <3>. QED
      BY <1>1, <1>4, <3>1, NoteAdded DEF Leads
  <2>2. CASE ~lost_
    BY <1>1, <1>5, <1>7, <2>2 DEF OptionsInv, WindowLeads, SameOf
  <2>. QED
    BY <2>1, <2>2
<1>12. OptionTypes'
  BY <1>1, <1>2, <1>9, <1>11 DEF OptionsInv, OptionTypes
<1>13. TilesLead'
  BY <1>9, <1>10 DEF TilesLead
<1>14. WindowLeads'
  BY <1>2, <1>3, <1>9, <1>10, <1>11 DEF OptionsInv, WindowLeads, Leads, SameOf
<1>15. PageLeads'
  BY <1>2, <1>3, <1>9, <1>10, <1>11 DEF OptionsInv, PageLeads, Leads, SameOf
<1>16. ExtraLeaves'
  BY <1>6, <1>10 DEF ExtraLeaves
<1>. QED
  BY <1>12, <1>13, <1>14, <1>15, <1>16 DEF OptionsInv

LEMMA PanelTakesShareKeeps ==
    ASSUME OptionsInv, PanelTakesShare
    PROVE  OptionsInv'
<1>. DEFINE q == panelInbox
            t == Tail(panelInbox)
            share == Head(panelInbox).value
            m == Message("share", share)
<1>1. /\ q \in Seq(Notes) /\ q # <<>> /\ Head(q) \in Notes /\ t \in Seq(Notes)
      /\ Head(q).kind = "share" /\ share \in Values
      /\ panel.choice \in Values /\ windowInbox \in Seq(Notes)
      /\ tile \in [share : Values, choice : Values]
  BY NotesMade DEF PanelTakesShare, OptionsInv, OptionTypes
<1>2. /\ SameOf(t, q, "extra") /\ SameOf(t, q, "choice") /\ SameOf(t, q, "settings")
      /\ \A v : LastIs(q, "share", v) => Leads(t, "share", share, v)
      /\ ~NoneOf(q, "share") /\ (HasOther(q) /\ share = "extra" => HasOther(t))
  BY <1>1, NoteTaken
<1>3. /\ Leads(t, "share", share, tile.share)
      /\ Leads(t, "choice", panel.choice, tile.choice)
  BY <1>2 DEF OptionsInv, TilesLead, SameOf, Leads
<1>4. UNCHANGED <<shell, page, pageInbox, filesShown>>
  BY DEF PanelTakesShare
<1>5. CASE share = panel.share
  <2>1. panelInbox' = t /\ UNCHANGED <<tile, panel, windowInbox>>
    BY <1>5 DEF PanelTakesShare
  <2>. HIDE DEF t, share, m
  <2>2. OptionTypes'
    BY <1>1, <1>4, <2>1 DEF OptionsInv, OptionTypes
  <2>3. TilesLead'
    BY <1>3, <1>5, <2>1 DEF TilesLead
  <2>4. WindowLeads'
    BY <1>2, <1>4, <2>1 DEF OptionsInv, WindowLeads, Leads, SameOf
  <2>5. PageLeads'
    BY <1>2, <1>4, <2>1 DEF OptionsInv, PageLeads, Leads, SameOf
  <2>6. ExtraLeaves'
    BY <1>2, <1>5, <2>1 DEF OptionsInv, ExtraLeaves
  <2>. QED
    BY <2>2, <2>3, <2>4, <2>5, <2>6 DEF OptionsInv
<1>6. CASE share # panel.share
  <2>1. /\ panel' = [panel EXCEPT !.share = share]
        /\ windowInbox' = Append(windowInbox, m)
        /\ Show(share, panel.choice, t)
    BY <1>6 DEF PanelTakesShare
  <2>2. m \in Notes /\ m.kind = "share" /\ m.value = share
    BY <1>1, NotesMade, MessageSays
  <2>. HIDE DEF t, share, m
  <2>3. /\ tile' = [share |-> share, choice |-> panel.choice]
        /\ panelInbox' \in Seq(Notes)
        /\ Leads(panelInbox', "share", share, tile'.share)
        /\ Leads(panelInbox', "choice", panel.choice, tile'.choice)
        /\ SameOf(panelInbox', t, "extra") /\ SameOf(panelInbox', t, "settings")
        /\ HasOther(t) => HasOther(panelInbox')
    BY <1>1, <1>3, <2>1, ShowLeads
  <2>4. /\ panel'.share = share /\ panel'.choice = panel.choice /\ panel'.extra = panel.extra
        /\ tile'.share = share
    BY <2>1, <2>3 DEF OptionsInv, OptionTypes
  <2>5. /\ windowInbox' \in Seq(Notes) /\ SameOf(windowInbox', windowInbox, "options")
        /\ SameOf(windowInbox', windowInbox, "settings")
        /\ LastIs(windowInbox', "share", share)
    BY <1>1, <2>1, <2>2, NoteAdded
  <2>6. OptionTypes'
    BY <1>1, <1>4, <2>1, <2>3, <2>5 DEF OptionsInv, OptionTypes
  <2>7. TilesLead'
    BY <2>3, <2>4 DEF TilesLead
  <2>8. WindowLeads'
    BY <1>2, <1>4, <2>3, <2>4, <2>5 DEF OptionsInv, WindowLeads, Leads, SameOf
  <2>9. PageLeads'
    BY <1>2, <1>4, <2>3, <2>4, <2>5 DEF OptionsInv, PageLeads, Leads, SameOf
  <2>10. ASSUME ~panel.extra, share = "extra"
         PROVE  HasOther(t)
    <3>1. tile.share # "extra"
      BY <1>6, <2>10 DEF OptionsInv, ExtraLeaves
    <3>2. LastIs(t, "share", tile.share)
      BY <1>3, <2>10, <3>1 DEF Leads
    <3>. QED
      BY <3>1, <3>2 DEF LastIs, HasOther
  <2>11. ExtraLeaves'
    BY <2>3, <2>4, <2>10 DEF ExtraLeaves
  <2>. QED
    BY <2>6, <2>7, <2>8, <2>9, <2>11 DEF OptionsInv
<1>. QED
  BY <1>5, <1>6

LEMMA PanelTakesChoiceKeeps ==
    ASSUME OptionsInv, PanelTakesChoice
    PROVE  OptionsInv'
<1>. DEFINE q == panelInbox
            t == Tail(panelInbox)
            c == Head(panelInbox).value
            m == Message("options", c)
<1>1. /\ q \in Seq(Notes) /\ q # <<>> /\ Head(q) \in Notes /\ t \in Seq(Notes)
      /\ Head(q).kind = "choice" /\ c \in Values
      /\ panel.share \in Values /\ windowInbox \in Seq(Notes)
      /\ tile \in [share : Values, choice : Values]
  BY NotesMade DEF PanelTakesChoice, OptionsInv, OptionTypes
<1>2. /\ SameOf(t, q, "extra") /\ SameOf(t, q, "share") /\ SameOf(t, q, "settings")
      /\ \A v : LastIs(q, "choice", v) => Leads(t, "choice", c, v)
      /\ ~NoneOf(q, "choice") /\ (HasOther(q) => HasOther(t))
  BY <1>1, NoteTaken
<1>3. /\ Leads(t, "share", panel.share, tile.share)
      /\ Leads(t, "choice", c, tile.choice)
  BY <1>2 DEF OptionsInv, TilesLead, SameOf, Leads
<1>4. UNCHANGED <<shell, page, pageInbox, filesShown>>
  BY DEF PanelTakesChoice
<1>5. CASE c = panel.choice
  <2>1. panelInbox' = t /\ UNCHANGED <<tile, panel, windowInbox>>
    BY <1>5 DEF PanelTakesChoice
  <2>. HIDE DEF t, c, m
  <2>2. OptionTypes'
    BY <1>1, <1>4, <2>1 DEF OptionsInv, OptionTypes
  <2>3. TilesLead'
    BY <1>3, <1>5, <2>1 DEF TilesLead
  <2>4. WindowLeads'
    BY <1>2, <1>4, <2>1 DEF OptionsInv, WindowLeads, Leads, SameOf
  <2>5. PageLeads'
    BY <1>2, <1>4, <2>1 DEF OptionsInv, PageLeads, Leads, SameOf
  <2>6. ExtraLeaves'
    BY <1>2, <2>1 DEF OptionsInv, ExtraLeaves
  <2>. QED
    BY <2>2, <2>3, <2>4, <2>5, <2>6 DEF OptionsInv
<1>6. CASE c # panel.choice
  <2>1. /\ panel' = [panel EXCEPT !.choice = c]
        /\ windowInbox' = Append(windowInbox, m)
        /\ Show(panel.share, c, t)
    BY <1>6 DEF PanelTakesChoice
  <2>2. m \in Notes /\ m.kind = "options" /\ m.value = c
    BY <1>1, NotesMade, MessageSays
  <2>. HIDE DEF t, c, m
  <2>3. /\ tile' = [share |-> panel.share, choice |-> c]
        /\ panelInbox' \in Seq(Notes)
        /\ Leads(panelInbox', "share", panel.share, tile'.share)
        /\ Leads(panelInbox', "choice", c, tile'.choice)
        /\ SameOf(panelInbox', t, "extra") /\ SameOf(panelInbox', t, "settings")
        /\ HasOther(t) => HasOther(panelInbox')
    BY <1>1, <1>3, <2>1, ShowLeads
  <2>4. panel'.share = panel.share /\ panel'.choice = c /\ panel'.extra = panel.extra
    BY <2>1 DEF OptionsInv, OptionTypes
  <2>5. /\ windowInbox' \in Seq(Notes) /\ SameOf(windowInbox', windowInbox, "share")
        /\ ~NoneOf(windowInbox', "options")
    <3>1. windowInbox' \in Seq(Notes)
      BY <1>1, <2>1, <2>2
    <3>2. SameOf(windowInbox', windowInbox, "share")
      BY <1>1, <2>1, <2>2, NoteAdded
    <3>3. ~NoneOf(windowInbox', "options")
      BY <1>1, <2>1, <2>2, NoteAdded
    <3>. QED
      BY <3>1, <3>2, <3>3
  <2>6. OptionTypes'
    BY <1>1, <1>4, <2>1, <2>3, <2>5 DEF OptionsInv, OptionTypes
  <2>7. TilesLead'
    BY <2>3, <2>4 DEF TilesLead
  <2>8. WindowLeads'
    BY <1>2, <1>4, <2>3, <2>4, <2>5 DEF OptionsInv, WindowLeads, Leads, SameOf
  <2>9. PageLeads'
    BY <2>5 DEF PageLeads
  <2>10. ExtraLeaves'
    BY <1>2, <2>3, <2>4 DEF OptionsInv, ExtraLeaves
  <2>. QED
    BY <2>6, <2>7, <2>8, <2>9, <2>10 DEF OptionsInv
<1>. QED
  BY <1>5, <1>6

-----------------------------------------------------------------------------
(* The window and the settings page. *)

LEMMA WindowTakesShareKeeps ==
    ASSUME OptionsInv, WindowTakesShare
    PROVE  OptionsInv'
<1>. DEFINE q == windowInbox
            t == Tail(windowInbox)
            share == Head(windowInbox).value
<1>1. /\ q \in Seq(Notes) /\ q # <<>> /\ Head(q) \in Notes /\ t \in Seq(Notes)
      /\ Head(q).kind = "share" /\ share \in Values
  BY NotesMade DEF WindowTakesShare, OptionsInv, OptionTypes
<1>2. /\ SameOf(t, q, "settings") /\ SameOf(t, q, "options")
      /\ \A v : LastIs(q, "share", v) => Leads(t, "share", share, v)
      /\ ~NoneOf(q, "share")
  BY <1>1, NoteTaken
<1>3. /\ windowInbox' = t /\ filesShown' = (share = "files")
      /\ shell' = [shell EXCEPT !.share = share,
                                !.source = IF share = "files" THEN shell.source ELSE share]
      /\ UNCHANGED <<tile, panel, panelInbox, page, pageInbox>>
  BY DEF WindowTakesShare, OptionsInv, OptionTypes
<1>. HIDE DEF t, share
<1>4. /\ shell'.share = share /\ shell'.extra = shell.extra
      /\ share # "files" => shell'.source = share
  BY <1>3 DEF OptionsInv, OptionTypes
<1>5. OptionTypes'
  BY <1>1, <1>3 DEF OptionsInv, OptionTypes
<1>6. TilesLead' /\ ExtraLeaves'
  BY <1>3 DEF OptionsInv, TilesLead, ExtraLeaves
<1>7. WindowLeads'
  BY <1>2, <1>3, <1>4 DEF OptionsInv, WindowLeads, Leads
<1>8. PageLeads'
  BY <1>2, <1>3 DEF OptionsInv, PageLeads, SameOf
<1>. QED
  BY <1>5, <1>6, <1>7, <1>8 DEF OptionsInv

LEMMA WindowTakesOptionsKeeps ==
    ASSUME OptionsInv, WindowTakesOptions
    PROVE  OptionsInv'
<1>. DEFINE q == windowInbox
            t == Tail(windowInbox)
            m == Message("replace", Head(windowInbox).value)
<1>1. /\ q \in Seq(Notes) /\ q # <<>> /\ Head(q) \in Notes /\ t \in Seq(Notes)
      /\ Head(q).kind = "options" /\ m \in Notes /\ pageInbox \in Seq(Notes)
  BY NotesMade DEF WindowTakesOptions, OptionsInv, OptionTypes
<1>2. SameOf(t, q, "share")
  BY <1>1, NoteTaken
<1>. HIDE DEF m, t
<1>3. /\ windowInbox' = t /\ pageInbox' = Append(pageInbox, m)
      /\ UNCHANGED <<tile, panel, panelInbox, shell, page, filesShown>>
  BY DEF WindowTakesOptions, m, t
<1>4. pageInbox' # <<>> /\ pageInbox' \in Seq(Notes)
  BY <1>1, <1>3
<1>5. OptionTypes'
  BY <1>1, <1>3, <1>4 DEF OptionsInv, OptionTypes
<1>6. TilesLead' /\ ExtraLeaves'
  BY <1>3 DEF OptionsInv, TilesLead, ExtraLeaves
<1>7. WindowLeads'
  BY <1>2, <1>3 DEF OptionsInv, WindowLeads, Leads, SameOf
<1>8. PageLeads'
  BY <1>4 DEF PageLeads
<1>. QED
  BY <1>5, <1>6, <1>7, <1>8 DEF OptionsInv

LEMMA WindowTakesSettingsKeeps ==
    ASSUME OptionsInv, WindowTakesSettings
    PROVE  OptionsInv'
<1>. DEFINE q == windowInbox
            t == Tail(windowInbox)
            v == Head(windowInbox).value
            m == Message("settings", v)
<1>1. /\ q \in Seq(Notes) /\ q # <<>> /\ Head(q) \in Notes /\ t \in Seq(Notes)
      /\ Head(q).kind = "settings" /\ panelInbox \in Seq(Notes)
      /\ m \in Notes /\ m.kind = "settings" /\ m.value = v
  BY NotesMade, MessageSays DEF WindowTakesSettings, OptionsInv, OptionTypes
<1>2. /\ SameOf(t, q, "share") /\ SameOf(t, q, "options")
      /\ \A w : LastIs(q, "settings", w) => Leads(t, "settings", v, w)
      /\ ~NoneOf(q, "settings")
  BY <1>1, NoteTaken
<1>. HIDE DEF m, t, v
<1>3. /\ windowInbox' = t /\ panelInbox' = Append(panelInbox, m)
      /\ UNCHANGED <<tile, panel, shell, page, pageInbox, filesShown>>
  BY DEF WindowTakesSettings, m, t, v
<1>4. /\ panelInbox' \in Seq(Notes)
      /\ SameOf(panelInbox', panelInbox, "share") /\ SameOf(panelInbox', panelInbox, "choice")
      /\ SameOf(panelInbox', panelInbox, "extra") /\ LastIs(panelInbox', "settings", v)
      /\ (HasOther(panelInbox) => HasOther(panelInbox'))
  BY <1>1, <1>3, NoteAdded
<1>5. OptionTypes'
  BY <1>1, <1>3, <1>4 DEF OptionsInv, OptionTypes
<1>6. TilesLead'
  BY <1>3, <1>4 DEF OptionsInv, TilesLead, Leads, SameOf
<1>7. WindowLeads'
  BY <1>2, <1>3, <1>4 DEF OptionsInv, WindowLeads, Leads, SameOf
<1>8. PageLeads'
  BY <1>2, <1>3, <1>4 DEF OptionsInv, PageLeads, Leads, SameOf
<1>9. ExtraLeaves'
  BY <1>3, <1>4 DEF OptionsInv, ExtraLeaves
<1>. QED
  BY <1>5, <1>6, <1>7, <1>8, <1>9 DEF OptionsInv

LEMMA PageTakesKeeps ==
    ASSUME OptionsInv, PageTakes
    PROVE  OptionsInv'
<1>. DEFINE v == Head(pageInbox).value
            m == Message("settings", v)
<1>1. /\ v \in Values /\ pageInbox' \in Seq(Notes) /\ windowInbox \in Seq(Notes)
      /\ m \in Notes /\ m.kind = "settings" /\ m.value = v
  <2>1. pageInbox \in Seq(Notes) /\ pageInbox # <<>> /\ pageInbox' = Tail(pageInbox)
    BY DEF PageTakes, OptionsInv, OptionTypes
  <2>2. Head(pageInbox) \in Notes /\ Tail(pageInbox) \in Seq(Notes)
    BY <2>1
  <2>3. v \in Values
    BY <2>2, NotesMade
  <2>. QED
    BY <2>1, <2>2, <2>3, NotesMade, MessageSays DEF OptionsInv, OptionTypes
<1>. HIDE DEF m, v
<1>2. /\ page' = v /\ windowInbox' = Append(windowInbox, m)
      /\ UNCHANGED <<tile, panel, panelInbox, shell, filesShown>>
  BY DEF PageTakes, m, v
<1>3. /\ windowInbox' \in Seq(Notes) /\ SameOf(windowInbox', windowInbox, "share")
      /\ LastIs(windowInbox', "settings", v)
  <2>1. windowInbox' \in Seq(Notes)
    BY <1>1, <1>2
  <2>2. SameOf(windowInbox', windowInbox, "share")
    BY <1>1, <1>2, NoteAdded
  <2>3. LastIs(windowInbox', "settings", v)
    BY <1>1, <1>2, NoteAdded
  <2>. QED
    BY <2>1, <2>2, <2>3
<1>4. OptionTypes'
  BY <1>1, <1>2, <1>3 DEF OptionsInv, OptionTypes
<1>5. TilesLead' /\ ExtraLeaves'
  BY <1>2 DEF OptionsInv, TilesLead, ExtraLeaves
<1>6. WindowLeads'
  BY <1>2, <1>3 DEF OptionsInv, WindowLeads, Leads, SameOf
<1>7. PageLeads'
  BY <1>2, <1>3 DEF PageLeads
<1>. QED
  BY <1>4, <1>5, <1>6, <1>7 DEF OptionsInv

-----------------------------------------------------------------------------
LEMMA OptionsStart == OptionsInit => OptionsInv
<1>. SUFFICES ASSUME OptionsInit PROVE OptionsInv
  OBVIOUS
<1>1. PICK c \in Choice : /\ tile = [share |-> "screen", choice |-> c]
                          /\ panel = [share |-> "screen", choice |-> c, extra |-> FALSE]
                          /\ page = c
  BY DEF OptionsInit
<1>2. /\ shell = [share |-> "screen", source |-> "screen", extra |-> FALSE]
      /\ panelInbox = <<>> /\ windowInbox = <<>> /\ pageInbox = <<>> /\ filesShown = FALSE
  BY DEF OptionsInit
<1>3. \A S : <<>> \in Seq(S)
  OBVIOUS
<1>4. OptionTypes
  BY <1>1, <1>2, <1>3 DEF OptionTypes, Values, Shares
<1>5. TilesLead /\ ExtraLeaves
  BY <1>1, <1>2, NothingLeads DEF TilesLead, ExtraLeaves
<1>6. WindowLeads
  BY <1>1, <1>2, NothingLeads DEF WindowLeads
<1>7. PageLeads
  BY <1>1, <1>2, NothingLeads DEF PageLeads
<1>. QED
  BY <1>4, <1>5, <1>6, <1>7 DEF OptionsInv

LEMMA OptionsSteps ==
    ASSUME OptionsInv, [OptionsNext]_optionVars
    PROVE  OptionsInv'
<1>1. CASE UNCHANGED optionVars
  BY <1>1 DEF optionVars, OptionsInv, OptionTypes, TilesLead, WindowLeads, PageLeads,
     ExtraLeaves
<1>2. CASE PanelTakes
  BY <1>2, PanelTakesSettingsKeeps, PanelTakesExtraKeeps, PanelTakesShareKeeps,
     PanelTakesChoiceKeeps DEF PanelTakes
<1>3. CASE WindowTakes
  BY <1>3, WindowTakesShareKeeps, WindowTakesOptionsKeeps, WindowTakesSettingsKeeps
     DEF WindowTakes
<1>. QED
  BY <1>1, <1>2, <1>3, PicksShareKeeps, PicksChoiceKeeps, RestoresKeeps, ServiceProbedKeeps,
     PageTakesKeeps DEF OptionsNext

(* However picks, restored defaults, the service's readings and the echoes *)
(* of the tiles cross, the panel, its tiles, the settings page, the window *)
(* and the share page agree once no message is on its way.                 *)
THEOREM QuietAgrees == OptionsSpec => []QuietMeansAgreed
<1>1. OptionsInv => QuietMeansAgreed
  <2>. SUFFICES ASSUME OptionsInv, NothingQueued
                PROVE  /\ tile = [share |-> panel.share, choice |-> panel.choice]
                       /\ panel.choice = page
                       /\ panel.share = shell.share /\ panel.extra = shell.extra
                       /\ panel.share = "extra" => panel.extra
                       /\ filesShown = (shell.share = "files")
                       /\ shell.share # "files" => shell.source = shell.share
    BY DEF QuietMeansAgreed
  <2>1. panelInbox = <<>> /\ windowInbox = <<>> /\ pageInbox = <<>>
    BY DEF NothingQueued
  <2>2. tile.share = panel.share /\ tile.choice = panel.choice
    BY <2>1, NothingLeads DEF OptionsInv, TilesLead
  <2>3. tile = [share |-> panel.share, choice |-> panel.choice]
    BY <2>2 DEF OptionsInv, OptionTypes
  <2>4. panel.choice = page
    BY <2>1, NothingLeads DEF OptionsInv, PageLeads
  <2>5. ~HasOther(panelInbox)
    BY <2>1 DEF HasOther
  <2>6. panel.share = "extra" => panel.extra
    BY <2>5 DEF OptionsInv, ExtraLeaves
  <2>. QED
    BY <2>1, <2>3, <2>4, <2>6, NothingLeads DEF OptionsInv, WindowLeads
<1>. QED
  BY <1>1, OptionsStart, OptionsSteps, PTL DEF OptionsSpec

-----------------------------------------------------------------------------
(* ServiceLife: how long the service lives once nobody needs it, and the   *)
(* heartbeat of an open window that puts it off.                           *)

LifeSpec == LifeInit /\ [][LifeNext]_lifeVars

LifeTypes ==
    /\ alive \in {"off", "up", "closing"}
    /\ idle \in [at : {"waiting", "counting"}, left : 0..Grace,
                 unseen : BOOLEAN, renewed : BOOLEAN]
    /\ lease \in 0..Grace
    /\ heartbeat \in [open : BOOLEAN, due : BOOLEAN, sent : BOOLEAN]

StartsCounted == starts \in Nat

(* Time stands still while a renewal waits for idle_after, and no tick     *)
(* has passed since a heartbeat of an open window that is neither due nor  *)
(* under way.                                                              *)
LeaseIsWhole ==
    /\ idle.renewed => lease = Grace /\ idle.unseen
    /\ Leased => lease = Grace /\ (idle.at = "counting" => idle.left = Grace)

LEMMA PublishTyped ==
    ASSUME LifeTypes, UNCHANGED <<alive, lease, heartbeat>>,
           idle' = idle \/ \E s : Publish(s)
    PROVE  LifeTypes'
<1>1. \E b \in BOOLEAN : idle' = [idle EXCEPT !.unseen = b]
  BY DEF Publish, LifeTypes
<1>. QED
  BY <1>1 DEF LifeTypes

LEMMA LifeTyped ==
    ASSUME LifeTypes, LifeNext
    PROVE  LifeTypes'
<1>1. CASE Activated \/ CastArrives \/ StopArrives \/ SessionEnds \/ ReceiversChange
  BY <1>1 DEF Activated, CastArrives, StopArrives, SessionEnds, ReceiversChange, Publish,
     LifeTypes
<1>2. CASE WindowOpens \/ WindowCloses \/ Beats \/ KeepAliveArrives
  <2>1. CASE WindowOpens \/ WindowCloses \/ Beats
    BY <2>1 DEF WindowOpens, WindowCloses, Beats, LifeTypes
  <2>2. CASE KeepAliveArrives
    <3>1. lease' \in 0..Grace
      BY <2>2, GraceAssumption DEF KeepAliveArrives
    <3>. QED
      BY <2>2, <3>1 DEF KeepAliveArrives, LifeTypes
  <2>. QED
    BY <1>2, <2>1, <2>2
<1>3. CASE IdleTurn
  <2>1. Later(idle.left, lease) \in 0..Grace
    BY DEF Later, LifeTypes
  <2>2. Grace \in 0..Grace
    BY GraceAssumption
  <2>3. \E a \in {"waiting", "counting"}, n \in 0..Grace :
            idle' = [idle EXCEPT !.unseen = FALSE, !.renewed = FALSE, !.at = a, !.left = n]
    BY <1>3, <2>1, <2>2 DEF IdleTurn, Turn, LifeTypes
  <2>4. UNCHANGED <<alive, lease, heartbeat>>
    BY <1>3 DEF IdleTurn, Turn
  <2>. QED
    BY <2>3, <2>4 DEF LifeTypes
<1>4. CASE IdleDeadline
  <2>1. /\ UNCHANGED <<lease, heartbeat>> /\ alive' \in {alive, "closing"}
        /\ idle' \in {idle, [idle EXCEPT !.at = "waiting", !.unseen = TRUE]}
    BY <1>4 DEF IdleDeadline
  <2>. QED
    BY <2>1 DEF LifeTypes
<1>5. CASE Tick
  <2>1. lease' \in 0..Grace /\ alive' = alive
    BY <1>5, GraceAssumption DEF Tick, Less, LifeTypes
  <2>2. idle' = idle \/ \E n \in 0..Grace : idle' = [idle EXCEPT !.left = n]
    <3>1. CASE idle.at = "counting"
      <4>1. idle.left - 1 \in 0..Grace
        BY <1>5, <3>1, GraceAssumption DEF Tick, LifeTypes
      <4>. QED
        BY <1>5, <3>1, <4>1 DEF Tick
    <3>. QED
      BY <1>5, <3>1 DEF Tick
  <2>3. \E b \in BOOLEAN : heartbeat' = [heartbeat EXCEPT !.due = b]
    BY <1>5 DEF Tick, LifeTypes
  <2>. QED
    BY <2>1, <2>2, <2>3 DEF LifeTypes
<1>6. CASE Terminated \/ PlayerCalls \/ PlayerLeaves
  BY <1>6 DEF Terminated, PlayerCalls, PlayerLeaves, LifeTypes
<1>7. CASE Exits
  BY <1>7, GraceAssumption DEF Exits, Fresh, LifeTypes
<1>8. CASE PlayerStarts \/ PlayerLookedUp \/ PlayerStops \/ PlayerGone
  <2>1. UNCHANGED <<alive, lease, heartbeat>> /\ (idle' = idle \/ \E s : Publish(s))
    BY <1>8 DEF PlayerStarts, PlayerLookedUp, PlayerStops, PlayerGone
  <2>. QED
    BY <2>1, PublishTyped
<1>. QED
  BY <1>1, <1>2, <1>3, <1>4, <1>5, <1>6, <1>7, <1>8 DEF LifeNext

LEMMA StartsStayCounted ==
    ASSUME StartsCounted, LifeNext
    PROVE  StartsCounted'
<1>1. starts' = starts \/ starts' = starts + 1
  BY DEF LifeNext, Activated, CastArrives, StopArrives, SessionEnds, ReceiversChange,
     WindowOpens, WindowCloses, Beats, KeepAliveArrives, IdleTurn, Turn, IdleDeadline, Tick,
     Terminated, Exits, PlayerCalls, PlayerStarts, PlayerLookedUp, PlayerStops,
     PlayerLeaves, PlayerGone
<1>. QED
  BY <1>1 DEF StartsCounted

LEMMA LeaseStaysWhole ==
    ASSUME LifeTypes, LeaseIsWhole, LifeNext
    PROVE  LeaseIsWhole'
<1>1. CASE Activated \/ CastArrives \/ StopArrives \/ SessionEnds \/ ReceiversChange
  BY <1>1 DEF Activated, CastArrives, StopArrives, SessionEnds, ReceiversChange, Publish,
     LifeTypes, LeaseIsWhole, Leased
<1>2. CASE WindowOpens \/ WindowCloses \/ Beats \/ KeepAliveArrives
  BY <1>2 DEF WindowOpens, WindowCloses, Beats, KeepAliveArrives, LifeTypes, LeaseIsWhole,
     Leased
<1>3. CASE IdleTurn
  <2>1. /\ heartbeat' = heartbeat /\ lease' = lease /\ ~idle'.renewed
        /\ idle'.at = "counting" =>
             idle'.left = Grace \/ idle'.left = Later(idle.left, lease)
    BY <1>3 DEF IdleTurn, Turn, LifeTypes
  <2>2. lease = Grace => Later(idle.left, lease) = Grace
    BY GraceAssumption DEF Later, LifeTypes
  <2>3. Leased' => lease = Grace
    BY <2>1 DEF Leased, LeaseIsWhole
  <2>. QED
    BY <2>1, <2>2, <2>3 DEF LeaseIsWhole
<1>4. CASE IdleDeadline
  BY <1>4 DEF IdleDeadline, LifeTypes, LeaseIsWhole, Leased
<1>5. CASE Tick
  <2>1. ~idle.renewed /\ idle'.renewed = idle.renewed
    BY <1>5 DEF Tick, LifeTypes
  <2>2. heartbeat'.open = heartbeat.open /\ (heartbeat.open => heartbeat'.due)
    BY <1>5 DEF Tick, LifeTypes
  <2>. QED
    BY <2>1, <2>2 DEF LeaseIsWhole, Leased
<1>6. CASE Terminated \/ PlayerCalls \/ PlayerLeaves
  BY <1>6 DEF Terminated, PlayerCalls, PlayerLeaves, LifeTypes, LeaseIsWhole, Leased
<1>7. CASE Exits
  BY <1>7 DEF Exits, Fresh, LifeTypes, LeaseIsWhole, Leased
<1>8. CASE PlayerStarts \/ PlayerLookedUp \/ PlayerStops \/ PlayerGone
  BY <1>8 DEF PlayerStarts, PlayerLookedUp, PlayerStops, PlayerGone, Publish, LifeTypes,
     LeaseIsWhole, Leased
<1>. QED
  BY <1>1, <1>2, <1>3, <1>4, <1>5, <1>6, <1>7, <1>8 DEF LifeNext

(* A service that an open window keeps alive does not leave for being      *)
(* idle: a deadline that has passed was not moved by a heartbeat           *)
(* (idle_after).                                                           *)
THEOREM LeaseKept == LifeSpec => LeaseKeepsService
<1> DEFINE Inv == LifeTypes /\ StartsCounted /\ LeaseIsWhole
<1>1. LifeInit => Inv
  BY GraceAssumption DEF LifeInit, Fresh, LifeTypes, StartsCounted, LeaseIsWhole, Leased
<1>2. ASSUME Inv, [LifeNext]_lifeVars
      PROVE  Inv'
  <2>1. CASE UNCHANGED lifeVars
    BY <1>2, <2>1 DEF lifeVars, LifeTypes, StartsCounted, LeaseIsWhole, Leased
  <2>. QED
    BY <1>2, <2>1, LifeTyped, StartsStayCounted, LeaseStaysWhole
<1>3. ASSUME Inv, [LifeNext]_lifeVars
      PROVE  [alive = "up" /\ alive' = "closing" /\ starts' = starts => ~Leased]_lifeVars
  <2> SUFFICES ASSUME LifeNext, alive = "up", alive' = "closing", starts' = starts
               PROVE  ~Leased
    BY <1>3
  <2>1. alive' = "closing" /\ alive # "closing" /\ starts' = starts
    OBVIOUS
  <2>2. IdleDeadline \/ Terminated
    BY <2>1 DEF LifeNext, Activated, CastArrives, StopArrives, SessionEnds, ReceiversChange,
       WindowOpens, WindowCloses, Beats, KeepAliveArrives, IdleTurn, Turn, Tick, Exits,
       PlayerCalls, PlayerStarts, PlayerLookedUp, PlayerStops, PlayerLeaves, PlayerGone
  <2>3. CASE Terminated
    BY <1>3, <2>1, <2>3 DEF Terminated, StartsCounted
  <2>4. CASE IdleDeadline
    <3>1. idle.at = "counting" /\ idle.left = 0
      BY <2>4 DEF IdleDeadline
    <3>. QED
      BY <1>3, <3>1, GraceAssumption DEF LeaseIsWhole
  <2>. QED
    BY <2>2, <2>3, <2>4
<1>. QED
  BY <1>1, <1>2, <1>3, PTL DEF LifeSpec, LeaseKeepsService

-----------------------------------------------------------------------------
(* Window: while no property flickers, a window to which everything has    *)
(* arrived draws what the service publishes.                               *)

LinkSpec == WindowInit /\ [][WindowNext]_windowVars

Signals == [property : Shown \cup {"receivers"}, value : BOOLEAN]
Words ==
    [kind : {"connected", "state", "unreachable", "screens"}, state : [Shown -> BOOLEAN]]

ServiceTypes ==
    /\ daemon \in {"off", "early", "up", "closing"}
    /\ session \in [kind : {"idle", "cast", "files"}, stopping : BOOLEAN]
    /\ told \in [Shown -> BOOLEAN]
    /\ owed \subseteq Shown \cup {"receivers"}

LinkTypes ==
    /\ link \in {"down", "listening", "reading", "up", "closed"}
    /\ lost \in BOOLEAN /\ readEarly \in BOOLEAN
    /\ read \in [Shown -> BOOLEAN]
    /\ bus \in Seq(Signals)

ViewTypes ==
    /\ mail \in Seq(Words)
    /\ view \in [Shown -> BOOLEAN]
    /\ service \in BOOLEAN

(* What the emitter has still to say of a property, and the last word      *)
(* under way about it.                                                     *)
Unsaid(p) == p \in owed \/ told[p] # Published(session)[p]

LastSays(b, p, v) ==
    \A i \in 1..Len(b) :
        b[i].property = p /\ (\A j \in (i + 1)..Len(b) : b[j].property # p)
            => b[i].value = v

Silent(b, p) == \A i \in 1..Len(b) : b[i].property # p

WordIsTrue(p) == LastSays(bus, p, Published(session)[p])
ReadIsTrue(p) == Silent(bus, p) => read[p] = Published(session)[p]

(* A service that leaves is noticed, and one that begins has nobody to     *)
(* signal to.                                                              *)
EmitterInv ==
    /\ daemon \in {"off", "early"} => owed = {}
    /\ daemon \in {"off", "early"} /\ Listening /\ ~lost =>
           bus = <<>> /\ (link = "listening" \/ (daemon = "early" /\ readEarly))

HeardInv == Listening /\ ~lost => \A p \in Shown : Unsaid(p) \/ WordIsTrue(p)

KnownInv ==
    link \in {"reading", "up"} /\ ~lost /\ ~readEarly =>
        \A p \in Shown : Unsaid(p) \/ ReadIsTrue(p)

(* The last state among the commands is the follower's; with none of them  *)
(* left, it is what the window draws.  A proxy comes with a state.         *)
Word(c) == c.kind \in {"state", "unreachable"}
Wordless(q) == \A i \in 1..Len(q) : ~Word(q[i])

StateFollows(q) ==
    \A i \in 1..Len(q) : q[i].kind = "connected" => i < Len(q) /\ q[i + 1].kind = "state"

LastState(q, r) ==
    \A i \in 1..Len(q) :
        q[i].kind = "state" /\ (\A j \in (i + 1)..Len(q) : ~Word(q[j])) => q[i].state = r

MailInv ==
    /\ StateFollows(mail)
    /\ link = "up" => LastState(mail, read)
    /\ link = "up" /\ Wordless(mail) /\ service => view = read

LinkInv ==
    /\ ServiceTypes /\ LinkTypes /\ ViewTypes
    /\ EmitterInv /\ HeardInv /\ KnownInv /\ MailInv

-----------------------------------------------------------------------------
(* What is published is a value for each property shown. *)

LEMMA PublishedIsShown ==
    \A s : Published(s) = [p \in Shown |-> IF p = "session" THEN s.kind = "cast"
                                          ELSE s.kind = "files"]
BY SMT DEF Published, Shown

LEMMA PublishedTyped == \A s : Published(s) \in [Shown -> BOOLEAN]
BY PublishedIsShown

LEMMA BlankIsIdle == Blank = Published(Idle)
<1>1. (Idle.kind = "cast") = FALSE /\ (Idle.kind = "files") = FALSE
  BY DEF Idle
<1>. QED
  BY <1>1, Zenon DEF Blank, Published

LEMMA BlankTyped == Blank \in [Shown -> BOOLEAN]
BY BlankIsIdle, PublishedTyped

LEMMA AppliedTyped ==
    ASSUME NEW s \in [Shown -> BOOLEAN], NEW c \in Signals
    PROVE  Applied(s, c) \in [Shown -> BOOLEAN]
BY DEF Applied, Signals

(* A step of the session is seen by the emitter, or changes nothing shown. *)
LEMMA SeenOrSame ==
    ASSUME ~Flicker, NEW s, Publishes(s), NEW p \in Shown
    PROVE  \/ Published(session')[p] = Published(session)[p]
           \/ told[p] # Published(session')[p]
BY DEF Publishes, Steady

(* The commands the link and the service send. *)
LEMMA WordsTyped ==
    /\ Connected \in Words /\ Unreachable \in Words
    /\ [kind |-> "screens", state |-> Blank] \in Words
    /\ \A s \in [Shown -> BOOLEAN] : State(s) \in Words
BY BlankTyped DEF Connected, Unreachable, State, Words

-----------------------------------------------------------------------------
(* The signals under way: one more, one less. *)

LEMMA OneSaid ==
    ASSUME NEW b \in Seq(Signals), NEW c \in Signals, NEW p, NEW v
    PROVE  /\ c.property = p /\ c.value = v =>
                  LastSays(Append(b, c), p, v) /\ ~Silent(Append(b, c), p)
           /\ c.property # p /\ LastSays(b, p, v) => LastSays(Append(b, c), p, v)
           /\ c.property # p /\ Silent(Append(b, c), p) => Silent(b, p)
<1>. DEFINE e == Append(b, c)
<1>1. /\ Len(e) = Len(b) + 1 /\ e[Len(b) + 1] = c /\ Len(b) \in Nat
      /\ \A i \in 1..Len(b) : e[i] = b[i]
  OBVIOUS
<1>. HIDE DEF e
<1>2. ASSUME c.property = p, c.value = v
      PROVE  LastSays(e, p, v) /\ ~Silent(e, p)
  <2>1. Len(b) + 1 \in 1..Len(e)
    BY <1>1
  <2>2. ~Silent(e, p)
    BY <1>1, <1>2, <2>1 DEF Silent
  <2>3. ASSUME NEW i \in 1..Len(e), e[i].property = p,
               \A j \in (i + 1)..Len(e) : e[j].property # p
        PROVE  e[i].value = v
    <3>1. i = Len(b) + 1
      BY <1>1, <1>2, <2>3
    <3>. QED
      BY <1>1, <1>2, <3>1
  <2>. QED
    BY <2>2, <2>3 DEF LastSays
<1>3. ASSUME c.property # p, LastSays(b, p, v)
      PROVE  LastSays(e, p, v)
  <2>. SUFFICES ASSUME NEW i \in 1..Len(e), e[i].property = p,
                       \A j \in (i + 1)..Len(e) : e[j].property # p
                PROVE  e[i].value = v
    BY DEF LastSays
  <2>1. i \in 1..Len(b)
    BY <1>1, <1>3
  <2>2. \A j \in (i + 1)..Len(b) : b[j].property # p
    BY <1>1, <2>1
  <2>. QED
    BY <1>1, <1>3, <2>1, <2>2 DEF LastSays
<1>4. ASSUME c.property # p, Silent(e, p)
      PROVE  Silent(b, p)
  BY <1>1, <1>4 DEF Silent
<1>. QED
  BY <1>2, <1>3, <1>4 DEF e

LEMMA OneHeard ==
    ASSUME NEW b \in Seq(Signals), b # <<>>, NEW p, NEW v, LastSays(b, p, v)
    PROVE  /\ LastSays(Tail(b), p, v)
           /\ Silent(Tail(b), p) /\ Head(b).property # p => Silent(b, p)
           /\ Silent(Tail(b), p) /\ Head(b).property = p => Head(b).value = v
<1>. DEFINE t == Tail(b)
<1>1. /\ Len(b) \in Nat \ {0} /\ Len(t) = Len(b) - 1 /\ Head(b) = b[1]
      /\ \A i \in 1..Len(t) : t[i] = b[i + 1]
  OBVIOUS
<1>. HIDE DEF t
<1>2. \A i \in 2..Len(b) : i - 1 \in 1..Len(t) /\ t[i - 1] = b[i]
  BY <1>1
<1>3. LastSays(t, p, v)
  <2>. SUFFICES ASSUME NEW i \in 1..Len(t), t[i].property = p,
                       \A j \in (i + 1)..Len(t) : t[j].property # p
                PROVE  t[i].value = v
    BY DEF LastSays
  <2>1. i + 1 \in 1..Len(b) /\ b[i + 1].property = p
    BY <1>1
  <2>2. ASSUME NEW j \in ((i + 1) + 1)..Len(b)
        PROVE  b[j].property # p
    <3>1. j - 1 \in (i + 1)..Len(t) /\ t[j - 1] = b[j]
      BY <1>1, <1>2
    <3>. QED
      BY <3>1
  <2>3. b[i + 1].value = v
    BY <2>1, <2>2 DEF LastSays
  <2>. QED
    BY <1>1, <2>3
<1>4. ASSUME Silent(t, p)
      PROVE  \A j \in 2..Len(b) : b[j].property # p
  BY <1>2, <1>4 DEF Silent
<1>5. Silent(t, p) /\ b[1].property # p => Silent(b, p)
  BY <1>1, <1>4 DEF Silent
<1>6. Silent(t, p) /\ b[1].property = p => b[1].value = v
  <2>. HAVE Silent(t, p) /\ b[1].property = p
  <2>1. 1 \in 1..Len(b) /\ \A j \in (1 + 1)..Len(b) : b[j].property # p
    BY <1>1, <1>4
  <2>. QED
    BY <2>1 DEF LastSays
<1>. QED
  BY <1>1, <1>3, <1>5, <1>6 DEF t

LEMMA NothingSaid == \A p, v : LastSays(<<>>, p, v)
BY DEF LastSays

LEMMA NothingSent == <<>> \in Seq(Signals) /\ <<>> \in Seq(Words)
<1>1. \A S : <<>> \in Seq(S)
  OBVIOUS
<1>. QED
  BY <1>1

-----------------------------------------------------------------------------
(* The commands under way: one more, one less. *)

LEMMA OneSent ==
    ASSUME NEW q \in Seq(Words), NEW c \in Words, NEW r
    PROVE  /\ c.kind # "connected" /\ StateFollows(q) => StateFollows(Append(q, c))
           /\ ~Word(c) /\ LastState(q, r) => LastState(Append(q, c), r)
           /\ Wordless(Append(q, c)) => Wordless(q) /\ ~Word(c)
           /\ c.kind = "unreachable" => LastState(Append(q, c), r)
           /\ c = State(r) => LastState(Append(q, c), r)
<1>. DEFINE e == Append(q, c)
<1>1. /\ Len(e) = Len(q) + 1 /\ e[Len(q) + 1] = c /\ Len(q) \in Nat
      /\ \A i \in 1..Len(q) : e[i] = q[i]
  OBVIOUS
<1>. HIDE DEF e
<1>2. Len(q) + 1 \in 1..Len(e) /\ \A i \in 1..Len(e) : i \in 1..Len(q) \/ i = Len(q) + 1
  BY <1>1
<1>3. ASSUME c.kind # "connected", StateFollows(q)
      PROVE  StateFollows(e)
  <2>. SUFFICES ASSUME NEW i \in 1..Len(e), e[i].kind = "connected"
                PROVE  i < Len(e) /\ e[i + 1].kind = "state"
    BY DEF StateFollows
  <2>1. i \in 1..Len(q) /\ q[i].kind = "connected"
    BY <1>1, <1>2, <1>3
  <2>2. i < Len(q) /\ q[i + 1].kind = "state"
    BY <1>3, <2>1 DEF StateFollows
  <2>. QED
    BY <1>1, <2>1, <2>2
<1>4. ASSUME ~Word(c), LastState(q, r)
      PROVE  LastState(e, r)
  <2>. SUFFICES ASSUME NEW i \in 1..Len(e), e[i].kind = "state",
                       \A j \in (i + 1)..Len(e) : ~Word(e[j])
                PROVE  e[i].state = r
    BY DEF LastState
  <2>1. i \in 1..Len(q)
    BY <1>1, <1>2, <1>4 DEF Word
  <2>2. \A j \in (i + 1)..Len(q) : ~Word(q[j])
    BY <1>1, <2>1
  <2>. QED
    BY <1>1, <1>4, <2>1, <2>2 DEF LastState
<1>5. Wordless(e) => Wordless(q) /\ ~Word(c)
  BY <1>1, <1>2 DEF Wordless
<1>6. ASSUME Word(c), c.kind = "state" => c.state = r
      PROVE  LastState(e, r)
  <2>. SUFFICES ASSUME NEW i \in 1..Len(e), e[i].kind = "state",
                       \A j \in (i + 1)..Len(e) : ~Word(e[j])
                PROVE  e[i].state = r
    BY DEF LastState
  <2>1. i = Len(q) + 1
    BY <1>1, <1>2, <1>6
  <2>. QED
    BY <1>1, <1>6, <2>1
<1>7. c.kind = "unreachable" => LastState(e, r)
  BY <1>6 DEF Word
<1>8. c = State(r) => LastState(e, r)
  BY <1>6 DEF Word, State
<1>. QED
  BY <1>3, <1>4, <1>5, <1>7, <1>8 DEF e

LEMMA OneTaken ==
    ASSUME NEW q \in Seq(Words), q # <<>>, NEW r, StateFollows(q)
    PROVE  /\ StateFollows(Tail(q))
           /\ LastState(q, r) => LastState(Tail(q), r)
           /\ Wordless(Tail(q)) /\ ~Word(Head(q)) => Wordless(q)
           /\ LastState(q, r) /\ Wordless(Tail(q)) /\ Head(q).kind = "state" =>
                  Head(q).state = r
           /\ Head(q).kind = "connected" => ~Wordless(Tail(q))
<1>. DEFINE t == Tail(q)
<1>1. /\ Len(q) \in Nat \ {0} /\ Len(t) = Len(q) - 1 /\ Head(q) = q[1]
      /\ \A i \in 1..Len(t) : t[i] = q[i + 1]
  OBVIOUS
<1>. HIDE DEF t
<1>2. \A i \in 2..Len(q) : i - 1 \in 1..Len(t) /\ t[i - 1] = q[i]
  BY <1>1
<1>3. StateFollows(t)
  <2>. SUFFICES ASSUME NEW i \in 1..Len(t), t[i].kind = "connected"
                PROVE  i < Len(t) /\ t[i + 1].kind = "state"
    BY DEF StateFollows
  <2>1. i + 1 \in 1..Len(q) /\ q[i + 1].kind = "connected"
    BY <1>1
  <2>2. i + 1 < Len(q) /\ q[(i + 1) + 1].kind = "state"
    BY <2>1 DEF StateFollows
  <2>3. i + 1 \in 1..Len(t)
    BY <1>1, <2>2
  <2>. QED
    BY <1>1, <2>2, <2>3
<1>4. ASSUME LastState(q, r)
      PROVE  LastState(t, r)
  <2>. SUFFICES ASSUME NEW i \in 1..Len(t), t[i].kind = "state",
                       \A j \in (i + 1)..Len(t) : ~Word(t[j])
                PROVE  t[i].state = r
    BY DEF LastState
  <2>1. i + 1 \in 1..Len(q) /\ q[i + 1].kind = "state"
    BY <1>1
  <2>2. ASSUME NEW j \in ((i + 1) + 1)..Len(q)
        PROVE  ~Word(q[j])
    <3>1. j - 1 \in (i + 1)..Len(t) /\ t[j - 1] = q[j]
      BY <1>1, <1>2
    <3>. QED
      BY <3>1
  <2>3. q[i + 1].state = r
    BY <1>4, <2>1, <2>2 DEF LastState
  <2>. QED
    BY <1>1, <2>3
<1>5. ASSUME Wordless(t)
      PROVE  \A j \in 2..Len(q) : ~Word(q[j])
  BY <1>2, <1>5 DEF Wordless
<1>6. Wordless(t) /\ ~Word(q[1]) => Wordless(q)
  <2>1. \A i \in 1..Len(q) : i = 1 \/ i \in 2..Len(q)
    BY <1>1
  <2>. QED
    BY <1>5, <2>1 DEF Wordless
<1>7. LastState(q, r) /\ Wordless(t) /\ q[1].kind = "state" => q[1].state = r
  <2>. HAVE LastState(q, r) /\ Wordless(t) /\ q[1].kind = "state"
  <2>1. 1 \in 1..Len(q) /\ \A j \in (1 + 1)..Len(q) : ~Word(q[j])
    BY <1>1, <1>5
  <2>. QED
    BY <2>1 DEF LastState
<1>8. q[1].kind = "connected" => ~Wordless(t)
  <2>. HAVE q[1].kind = "connected"
  <2>1. 1 \in 1..Len(q)
    BY <1>1
  <2>2. 1 < Len(q) /\ q[1 + 1].kind = "state"
    BY <2>1 DEF StateFollows
  <2>3. 2 \in 2..Len(q) /\ Word(q[2])
    BY <1>1, <2>2 DEF Word
  <2>. QED
    BY <1>5, <2>3
<1>. QED
  BY <1>1, <1>3, <1>4, <1>6, <1>7, <1>8 DEF t

(* The proxy and the state that comes with it. *)
LEMMA TwoSent ==
    ASSUME NEW q \in Seq(Words), StateFollows(q), NEW r \in [Shown -> BOOLEAN]
    PROVE  LET e == q \o <<Connected, State(r)>>
           IN  e \in Seq(Words) /\ StateFollows(e) /\ LastState(e, r) /\ ~Wordless(e)
<1>. DEFINE m == Append(q, Connected)
            e == Append(m, State(r))
<1>1. Connected \in Words /\ State(r) \in Words
  BY WordsTyped
<1>2. q \o <<Connected, State(r)>> = e
  OBVIOUS
<1>3. m \in Seq(Words) /\ e \in Seq(Words)
  BY <1>1
<1>4. /\ Len(q) \in Nat /\ Len(m) = Len(q) + 1 /\ Len(e) = Len(q) + 2
      /\ e[Len(q) + 1] = Connected /\ e[Len(q) + 2] = State(r)
      /\ \A i \in 1..Len(q) : e[i] = q[i]
  BY <1>1
<1>5. LastState(e, r) /\ ~Wordless(e)
  <2>1. ASSUME NEW c \in Words, c = State(r)
        PROVE  LastState(Append(m, c), r) /\ (Wordless(Append(m, c)) => ~Word(c))
    <3>. HIDE DEF m
    <3>. QED
      BY <1>3, <2>1, OneSent
  <2>2. Word(State(r))
    BY DEF Word, State
  <2>. QED
    BY <1>1, <2>1, <2>2
<1>. HIDE DEF e, m
<1>6. StateFollows(e)
  <2>. SUFFICES ASSUME NEW i \in 1..Len(e), e[i].kind = "connected"
                PROVE  i < Len(e) /\ e[i + 1].kind = "state"
    BY DEF StateFollows
  <2>1. CASE i \in 1..Len(q)
    <3>1. i < Len(q) /\ q[i + 1].kind = "state"
      BY <1>4, <2>1 DEF StateFollows
    <3>. QED
      BY <1>4, <2>1, <3>1
  <2>2. CASE i = Len(q) + 1
    <3>1. i < Len(e) /\ e[i + 1] = State(r)
      BY <1>4, <2>2
    <3>. QED
      BY <3>1 DEF State
  <2>3. CASE i = Len(q) + 2
    BY <1>4, <2>3 DEF State
  <2>. QED
    BY <1>4, <2>1, <2>2, <2>3
<1>. QED
  BY <1>2, <1>3, <1>5, <1>6

-----------------------------------------------------------------------------
(* What the commands carry and the window draws, whatever the step. *)

LEMMA MailGrows ==
    ASSUME LinkInv, NEW c \in Words, c.kind # "connected", mail' = Append(mail, c),
           UNCHANGED <<view, service>>,
           link' = "up" =>
               \/ ~Word(c) /\ link = "up" /\ read' = read
               \/ c.kind = "unreachable"
               \/ c = State(read')
    PROVE  ViewTypes' /\ MailInv'
<1>1. mail \in Seq(Words) /\ mail' \in Seq(Words)
  BY DEF LinkInv, ViewTypes
<1>2. ViewTypes'
  BY <1>1 DEF LinkInv, ViewTypes
<1>3. StateFollows(mail')
  BY <1>1, OneSent DEF LinkInv, MailInv
<1>4. ASSUME link' = "up"
      PROVE  /\ LastState(mail', read')
             /\ Wordless(mail') /\ service' => view' = read'
  <2>1. CASE ~Word(c) /\ link = "up" /\ read' = read
    BY <1>1, <2>1, OneSent DEF LinkInv, MailInv
  <2>2. CASE c.kind = "unreachable"
    BY <1>1, <2>2, OneSent DEF Word
  <2>3. CASE c = State(read')
    <3>1. Word(c)
      BY <2>3 DEF Word, State
    <3>2. LastState(Append(mail, c), read')
      BY <1>1, <2>3, OneSent
    <3>3. Wordless(Append(mail, c)) => ~Word(c)
      BY <1>1, OneSent
    <3>. QED
      BY <3>1, <3>2, <3>3
  <2>. QED
    BY <1>4, <2>1, <2>2, <2>3
<1>. QED
  BY <1>2, <1>3, <1>4 DEF MailInv

LEMMA MailStays ==
    ASSUME LinkInv, UNCHANGED <<mail, view, service>>,
           link' = "up" => link = "up" /\ read' = read
    PROVE  ViewTypes' /\ MailInv'
<1>. USE DEF LinkInv
<1>1. ViewTypes'
  BY DEF ViewTypes
<1>2. MailInv'
  BY DEF MailInv
<1>. QED
  BY <1>1, <1>2

(* A call without a proxy is answered by the window itself.                *)
LEMMA CallAnswers ==
    ASSUME NEW name, NEW q \in Seq(Words), Call(name, q), StateFollows(q),
           link = "up" => LastState(q, read)
    PROVE  /\ mail' \in Seq(Words) /\ StateFollows(mail')
           /\ link = "up" => LastState(mail', read)
           /\ Wordless(mail') /\ service => mail' = q
           /\ Wordless(mail') => Wordless(q)
<1>1. CASE service
  BY <1>1 DEF Call
<1>2. CASE ~service
  <2>1. mail' = Append(q, Unreachable)
    BY <1>2 DEF Call
  <2>2. ASSUME NEW c \in Words, c.kind = "unreachable"
        PROVE  /\ Append(q, c) \in Seq(Words) /\ StateFollows(Append(q, c))
               /\ link = "up" => LastState(Append(q, c), read)
               /\ Wordless(Append(q, c)) => Wordless(q)
    BY <2>2, OneSent
  <2>3. Unreachable \in Words /\ Unreachable.kind = "unreachable"
    BY WordsTyped DEF Unreachable
  <2>. QED
    BY <1>2, <2>1, <2>2, <2>3
<1>. QED
  BY <1>1, <1>2

(* A click changes nothing else of the link.                               *)
LEMMA ClickCalls ==
    ASSUME LinkInv, NEW name, Call(name, mail), UNCHANGED <<link, read, view, service>>
    PROVE  ViewTypes' /\ MailInv'
<1>1. mail \in Seq(Words) /\ StateFollows(mail) /\ (link = "up" => LastState(mail, read))
  BY DEF LinkInv, ViewTypes, MailInv
<1>2. /\ mail' \in Seq(Words) /\ StateFollows(mail')
      /\ link = "up" => LastState(mail', read)
      /\ Wordless(mail') /\ service => mail' = mail
  BY <1>1, CallAnswers
<1>3. ViewTypes'
  BY <1>2 DEF LinkInv, ViewTypes
<1>4. MailInv'
  BY <1>2 DEF LinkInv, MailInv
<1>. QED
  BY <1>3, <1>4

LEMMA HandledKeeps ==
    ASSUME LinkInv, Handles
    PROVE  ViewTypes' /\ MailInv'
<1>. DEFINE q == Tail(mail)
<1>1. /\ mail \in Seq(Words) /\ mail # <<>> /\ StateFollows(mail)
      /\ link = "up" => LastState(mail, read)
      /\ UNCHANGED <<link, read>>
  BY DEF LinkInv, ViewTypes, MailInv, Handles
<1>2. /\ q \in Seq(Words) /\ StateFollows(q)
      /\ link = "up" => LastState(q, read)
      /\ Wordless(q) /\ ~Word(Head(mail)) => Wordless(mail)
      /\ link = "up" /\ Wordless(q) /\ Head(mail).kind = "state" => Head(mail).state = read
      /\ Head(mail).kind = "connected" => ~Wordless(q)
  <2>1. q \in Seq(Words)
    BY <1>1
  <2>. QED
    BY <1>1, <2>1, OneTaken
<1>3. Head(mail) \in Words
  BY <1>1
<1>. HIDE DEF q
<1>4. CASE IsConnected
  <2>1. service' = TRUE /\ mail' = q /\ view' = view /\ ~Wordless(q)
    BY <1>2, <1>4 DEF IsConnected, q
  <2>2. ViewTypes'
    BY <1>2, <2>1 DEF LinkInv, ViewTypes
  <2>. QED
    BY <1>1, <1>2, <2>1, <2>2 DEF MailInv
<1>5. CASE IsUnreachable
  <2>1. service' = FALSE /\ mail' = q /\ view' = Blank
    BY <1>5 DEF IsUnreachable, q
  <2>2. ViewTypes'
    BY <1>2, <2>1, BlankTyped DEF LinkInv, ViewTypes
  <2>. QED
    BY <1>1, <1>2, <2>1, <2>2 DEF MailInv
<1>6. CASE IsScreens
  <2>1. ~Word(Head(mail)) /\ Call("cast", q) /\ UNCHANGED <<view, service>>
    BY <1>6 DEF IsScreens, Word, q
  <2>2. /\ mail' \in Seq(Words) /\ StateFollows(mail')
        /\ link = "up" => LastState(mail', read)
        /\ Wordless(mail') => Wordless(q)
    BY <1>2, <2>1, CallAnswers
  <2>3. ViewTypes'
    BY <2>1, <2>2 DEF LinkInv, ViewTypes
  <2>. QED
    BY <1>1, <1>2, <2>1, <2>2, <2>3 DEF LinkInv, MailInv
<1>7. CASE IsState
  <2>1. /\ Head(mail).kind = "state" /\ view' = Head(mail).state /\ service' = service
        /\ mail' = q \/ \E name \in {"screens", "cast"} : Call(name, q)
    BY <1>7 DEF IsState, BeginsCast, q
  <2>2. /\ mail' \in Seq(Words) /\ StateFollows(mail')
        /\ link = "up" => LastState(mail', read)
        /\ Wordless(mail') => Wordless(q)
    BY <1>2, <2>1, CallAnswers
  <2>3. view' \in [Shown -> BOOLEAN]
    BY <1>3, <2>1 DEF Words
  <2>4. ViewTypes'
    BY <2>1, <2>2, <2>3 DEF LinkInv, ViewTypes
  <2>. QED
    BY <1>1, <1>2, <2>1, <2>2, <2>4 DEF MailInv
<1>. QED
  BY <1>4, <1>5, <1>6, <1>7 DEF Handles

-----------------------------------------------------------------------------
(* The session: what it publishes is seen, or as it was.                   *)

SessionMoves ==
    /\ \E s : Publishes(s) /\ s \in [kind : {"idle", "cast", "files"}, stopping : BOOLEAN]
    /\ UNCHANGED <<daemon, told, owed, bus, lost, link, read, readEarly, mail, view, service>>

LEMMA SessionSteps ==
    ASSUME LinkInv, CastCalled \/ StopCalled \/ OthersSend \/ SessionOver
    PROVE  SessionMoves
<1>. DEFINE K == [kind : {"idle", "cast", "files"}, stopping : BOOLEAN]
<1>1. session \in K /\ Idle \in K /\ [Idle EXCEPT !.kind = "cast"] \in K
      /\ [Idle EXCEPT !.kind = "files"] \in K /\ [session EXCEPT !.stopping = TRUE] \in K
  BY DEF LinkInv, ServiceTypes, Idle
<1>2. CASE CastCalled
  BY <1>1, <1>2, Zenon DEF CastCalled, appVars, SessionMoves
<1>3. CASE StopCalled
  BY <1>1, <1>3, Zenon DEF StopCalled, appVars, SessionMoves
<1>4. CASE OthersSend
  BY <1>1, <1>4, Zenon DEF OthersSend, appVars, SessionMoves
<1>5. CASE SessionOver
  BY <1>1, <1>5, Zenon DEF SessionOver, appVars, SessionMoves
<1>. QED
  BY <1>2, <1>3, <1>4, <1>5

LEMMA SessionKeeps ==
    ASSUME ~Flicker, LinkInv, SessionMoves
    PROVE  LinkInv'
<1>1. PICK s \in [kind : {"idle", "cast", "files"}, stopping : BOOLEAN] : Publishes(s)
  BY DEF SessionMoves
<1>2. UNCHANGED <<daemon, told, owed, bus, lost, link, read, readEarly, mail, view, service>>
  BY DEF SessionMoves
<1>3. session' = s
  BY <1>1 DEF Publishes
<1>4. ServiceTypes' /\ LinkTypes' /\ EmitterInv'
  BY <1>2, <1>3 DEF LinkInv, ServiceTypes, LinkTypes, EmitterInv, Listening
<1>5. ViewTypes' /\ MailInv'
  BY <1>2, MailStays
<1>6. \A p \in Shown : Published(session')[p] = Published(session)[p] \/ Unsaid(p)'
  BY <1>1, <1>2, SeenOrSame DEF Unsaid
<1>7. HeardInv'
  BY <1>2, <1>6 DEF LinkInv, HeardInv, Listening, Unsaid, WordIsTrue
<1>8. KnownInv'
  BY <1>2, <1>6 DEF LinkInv, KnownInv, Unsaid, ReadIsTrue
<1>. QED
  BY <1>4, <1>5, <1>7, <1>8 DEF LinkInv

-----------------------------------------------------------------------------
(* The emitter. *)

LEMMA EmitterStartsKeeps ==
    ASSUME LinkInv, EmitterStarts
    PROVE  LinkInv'
<1>1. /\ daemon = "early" /\ daemon' = "up" /\ told' = Published(session)
      /\ UNCHANGED <<session, owed, bus, lost, link, read, readEarly, mail, view, service>>
  BY DEF EmitterStarts, appVars
<1>2. owed = {}
  BY <1>1 DEF LinkInv, EmitterInv
<1>3. ServiceTypes' /\ LinkTypes' /\ EmitterInv'
  BY <1>1, PublishedTyped DEF LinkInv, ServiceTypes, LinkTypes, EmitterInv
<1>4. ViewTypes' /\ MailInv'
  BY <1>1, MailStays
<1>5. Listening /\ ~lost => bus = <<>> /\ (link = "listening" \/ readEarly)
  BY <1>1 DEF LinkInv, EmitterInv
<1>6. HeardInv'
  BY <1>1, <1>5, NothingSaid DEF HeardInv, WordIsTrue, Listening
<1>7. KnownInv'
  BY <1>1, <1>5 DEF KnownInv, Listening
<1>. QED
  BY <1>3, <1>4, <1>6, <1>7 DEF LinkInv

LEMMA EmitterPassKeeps ==
    ASSUME LinkInv, EmitterPass
    PROVE  LinkInv'
<1>1. /\ daemon \in {"up", "closing"} /\ owed = {} /\ told' = Published(session)
      /\ owed' = {p \in Shown : told[p] # Published(session)[p]}
                 \cup (IF news THEN {"receivers"} ELSE {})
      /\ UNCHANGED <<daemon, session, bus, lost, link, read, readEarly, mail, view, service>>
  BY DEF EmitterPass, appVars
<1>2. ServiceTypes'
  BY <1>1, PublishedTyped DEF LinkInv, ServiceTypes
<1>3. LinkTypes' /\ EmitterInv'
  BY <1>1 DEF LinkInv, LinkTypes, EmitterInv
<1>4. ViewTypes' /\ MailInv'
  BY <1>1, MailStays
<1>5. \A p \in Shown : Unsaid(p) => Unsaid(p)'
  BY <1>1 DEF Unsaid
<1>6. HeardInv'
  BY <1>1, <1>5 DEF LinkInv, HeardInv, Listening, WordIsTrue
<1>7. KnownInv'
  BY <1>1, <1>5 DEF LinkInv, KnownInv, ReadIsTrue
<1>. QED
  BY <1>2, <1>3, <1>4, <1>6, <1>7 DEF LinkInv

LEMMA EmitterSignalsKeeps ==
    ASSUME LinkInv, EmitterSignals
    PROVE  LinkInv'
<1>. DEFINE f == FirstOwed
            c == [property |-> f, value |-> IF f \in Shown THEN Published(session)[f] ELSE FALSE]
<1>1. /\ owed # {} /\ owed' = owed \ {f}
      /\ bus' = IF ~Listening THEN bus ELSE Append(bus, c)
      /\ UNCHANGED <<daemon, session, told, lost, link, read, readEarly, mail, view, service>>
  BY DEF EmitterSignals, appVars
<1>2. f \in owed /\ f \in Shown \cup {"receivers"}
  BY <1>1 DEF LinkInv, ServiceTypes, FirstOwed, Shown
<1>3. c \in Signals /\ c.property = f /\ (f \in Shown => c.value = Published(session)[f])
  <2>1. f \in Shown => Published(session)[f] \in BOOLEAN
    BY PublishedTyped
  <2>. QED
    BY <1>2, <2>1 DEF Signals
<1>. HIDE DEF f, c
<1>4. daemon \notin {"off", "early"}
  BY <1>1 DEF LinkInv, EmitterInv
<1>5. bus \in Seq(Signals)
  BY DEF LinkInv, LinkTypes
<1>6. ServiceTypes' /\ LinkTypes' /\ EmitterInv'
  BY <1>1, <1>3, <1>4, <1>5 DEF LinkInv, ServiceTypes, LinkTypes, EmitterInv
<1>7. ViewTypes' /\ MailInv'
  BY <1>1, MailStays
<1>8. ASSUME NEW p \in Shown, p # f
      PROVE  Unsaid(p)' <=> Unsaid(p)
  BY <1>1, <1>8 DEF Unsaid
<1>9. ASSUME Listening, NEW p \in Shown, p = f
      PROVE  WordIsTrue(p)' /\ ReadIsTrue(p)'
  <2>1. bus' = Append(bus, c) /\ c.property = p /\ c.value = Published(session)[p]
    BY <1>1, <1>3, <1>9
  <2>2. LastSays(bus', p, Published(session)[p]) /\ ~Silent(bus', p)
    BY <1>3, <1>5, <2>1, OneSaid
  <2>. QED
    BY <1>1, <2>2 DEF WordIsTrue, ReadIsTrue
<1>10. ASSUME Listening, NEW p \in Shown, p # f
       PROVE  (WordIsTrue(p) => WordIsTrue(p)') /\ (ReadIsTrue(p) => ReadIsTrue(p)')
  <2>1. bus' = Append(bus, c) /\ c.property # p
    BY <1>1, <1>3, <1>10
  <2>2. /\ LastSays(bus, p, Published(session)[p]) => LastSays(bus', p, Published(session)[p])
        /\ Silent(bus', p) => Silent(bus, p)
    BY <1>3, <1>5, <2>1, OneSaid
  <2>. QED
    BY <1>1, <2>2 DEF WordIsTrue, ReadIsTrue
<1>11. HeardInv'
  BY <1>1, <1>8, <1>9, <1>10 DEF LinkInv, HeardInv, Listening
<1>12. KnownInv'
  BY <1>1, <1>8, <1>9, <1>10 DEF LinkInv, KnownInv, Listening
<1>. QED
  BY <1>6, <1>7, <1>11, <1>12 DEF LinkInv

(* A service that leaves is lost to whoever listens.                       *)
LEMMA DepartsKeeps ==
    ASSUME LinkInv, Departs
    PROVE  LinkInv'
<1>1. /\ daemon' = "off" /\ session' = Idle /\ told' = Blank /\ owed' = {}
      /\ lost' = Listening
      /\ UNCHANGED <<bus, link, read, readEarly, mail, view, service>>
  BY DEF Departs, appVars
<1>2. Idle \in [kind : {"idle", "cast", "files"}, stopping : BOOLEAN]
  BY DEF Idle
<1>3. ServiceTypes' /\ LinkTypes'
  BY <1>1, <1>2, BlankTyped DEF LinkInv, ServiceTypes, LinkTypes, Listening
<1>4. ViewTypes' /\ MailInv'
  BY <1>1, MailStays
<1>5. EmitterInv' /\ HeardInv' /\ KnownInv'
  BY <1>1 DEF EmitterInv, HeardInv, KnownInv, Listening
<1>. QED
  BY <1>3, <1>4, <1>5 DEF LinkInv

-----------------------------------------------------------------------------
(* The follower. *)

LEMMA SubscribesKeeps ==
    ASSUME LinkInv, Subscribes
    PROVE  LinkInv'
<1>1. /\ link' = "listening" /\ bus' = <<>> /\ lost' = FALSE
      /\ UNCHANGED <<daemon, session, told, owed, read, readEarly, mail, view, service>>
  BY DEF Subscribes, serviceVars, appVars
<1>2. ServiceTypes' /\ LinkTypes'
  BY <1>1, NothingSent DEF LinkInv, ServiceTypes, LinkTypes
<1>3. ViewTypes' /\ MailInv'
  BY <1>1, MailStays
<1>4. EmitterInv' /\ KnownInv'
  BY <1>1 DEF LinkInv, EmitterInv, KnownInv
<1>5. HeardInv'
  BY <1>1, NothingSaid DEF HeardInv, WordIsTrue
<1>. QED
  BY <1>2, <1>3, <1>4, <1>5 DEF LinkInv

LEMMA ActivatesKeeps ==
    ASSUME LinkInv, Activates
    PROVE  LinkInv'
<1>1. /\ link = "listening" /\ daemon = "off" /\ daemon' = "early"
      /\ UNCHANGED <<session, told, owed, bus, lost, link, read, readEarly, mail, view,
                     service>>
  BY DEF Activates, appVars
<1>2. ServiceTypes' /\ LinkTypes'
  BY <1>1 DEF LinkInv, ServiceTypes, LinkTypes
<1>3. ViewTypes' /\ MailInv'
  BY <1>1, MailStays
<1>4. EmitterInv'
  BY <1>1 DEF LinkInv, EmitterInv, Listening
<1>5. HeardInv' /\ KnownInv'
  BY <1>1 DEF LinkInv, HeardInv, KnownInv, Listening, Unsaid, WordIsTrue, ReadIsTrue
<1>. QED
  BY <1>2, <1>3, <1>4, <1>5 DEF LinkInv

LEMMA FollowerReadsKeeps ==
    ASSUME LinkInv, FollowerReads
    PROVE  LinkInv'
<1>1. /\ link = "listening" /\ daemon # "off" /\ link' = "reading"
      /\ read' = Published(session) /\ readEarly' = (daemon = "early")
      /\ UNCHANGED <<daemon, session, told, owed, bus, lost, mail, view, service>>
  BY DEF FollowerReads, serviceVars, appVars, Up
<1>2. ServiceTypes' /\ LinkTypes'
  BY <1>1, PublishedTyped DEF LinkInv, ServiceTypes, LinkTypes
<1>3. ViewTypes' /\ MailInv'
  BY <1>1, MailStays
<1>4. EmitterInv'
  BY <1>1 DEF LinkInv, EmitterInv, Listening
<1>5. HeardInv'
  BY <1>1 DEF LinkInv, HeardInv, Listening, Unsaid, WordIsTrue
<1>6. KnownInv'
  BY <1>1 DEF KnownInv, ReadIsTrue
<1>. QED
  BY <1>2, <1>3, <1>4, <1>5, <1>6 DEF LinkInv

LEMMA ConnectsKeeps ==
    ASSUME LinkInv, Connects
    PROVE  LinkInv'
<1>1. /\ link = "reading" /\ link' = "up" /\ mail' = mail \o <<Connected, State(read)>>
      /\ UNCHANGED <<daemon, session, told, owed, bus, lost, read, readEarly, view, service>>
  BY DEF Connects, serviceVars, appVars
<1>2. ServiceTypes' /\ LinkTypes'
  BY <1>1 DEF LinkInv, ServiceTypes, LinkTypes
<1>3. /\ mail' \in Seq(Words) /\ StateFollows(mail')
      /\ LastState(mail', read) /\ ~Wordless(mail')
  BY <1>1, TwoSent DEF LinkInv, LinkTypes, ViewTypes, MailInv
<1>4. ViewTypes' /\ MailInv'
  BY <1>1, <1>3 DEF LinkInv, ViewTypes, MailInv
<1>5. EmitterInv'
  BY <1>1 DEF LinkInv, EmitterInv, Listening
<1>6. HeardInv' /\ KnownInv'
  BY <1>1 DEF LinkInv, HeardInv, KnownInv, Listening, Unsaid, WordIsTrue, ReadIsTrue
<1>. QED
  BY <1>2, <1>4, <1>5, <1>6 DEF LinkInv

LEMMA ChangesKeeps ==
    ASSUME LinkInv, Changes
    PROVE  LinkInv'
<1>. DEFINE c == Head(bus)
<1>1. /\ link = "up" /\ bus # <<>> /\ read' = Applied(read, c) /\ bus' = Tail(bus)
      /\ mail' = Append(mail, State(read'))
      /\ UNCHANGED <<daemon, session, told, owed, lost, link, readEarly, view, service>>
  BY DEF Changes, serviceVars, appVars
<1>2. bus \in Seq(Signals) /\ c \in Signals /\ bus' \in Seq(Signals)
  BY <1>1 DEF LinkInv, LinkTypes
<1>3. read' \in [Shown -> BOOLEAN]
  BY <1>1, <1>2, AppliedTyped DEF LinkInv, LinkTypes
<1>4. ServiceTypes' /\ LinkTypes'
  BY <1>1, <1>2, <1>3 DEF LinkInv, ServiceTypes, LinkTypes
<1>5. ViewTypes' /\ MailInv'
  <2>1. State(read') \in Words /\ State(read').kind # "connected"
    BY <1>3, WordsTyped DEF State
  <2>. QED
    BY <1>1, <2>1, MailGrows
<1>6. EmitterInv'
  BY <1>1 DEF LinkInv, EmitterInv, Listening
<1>7. ASSUME NEW p \in Shown, WordIsTrue(p)
      PROVE  WordIsTrue(p)' /\ (ReadIsTrue(p) => ReadIsTrue(p)')
  <2>. DEFINE v == Published(session)[p]
  <2>1. /\ LastSays(bus', p, v)
        /\ Silent(bus', p) /\ c.property # p => Silent(bus, p)
        /\ Silent(bus', p) /\ c.property = p => c.value = v
    BY <1>1, <1>2, <1>7, OneHeard DEF WordIsTrue
  <2>2. c.property # p => read'[p] = read[p]
    BY <1>1 DEF Applied, LinkInv, LinkTypes
  <2>3. c.property = p => read'[p] = c.value
    BY <1>1 DEF Applied, LinkInv, LinkTypes
  <2>. QED
    BY <1>1, <2>1, <2>2, <2>3 DEF WordIsTrue, ReadIsTrue
<1>8. \A p \in Shown : Unsaid(p)' <=> Unsaid(p)
  BY <1>1 DEF Unsaid
<1>9. HeardInv'
  BY <1>1, <1>7, <1>8 DEF LinkInv, HeardInv, Listening
<1>10. KnownInv'
  BY <1>1, <1>7, <1>8 DEF LinkInv, HeardInv, KnownInv, Listening
<1>. QED
  BY <1>4, <1>5, <1>6, <1>9, <1>10 DEF LinkInv

LEMMA DisconnectsKeeps ==
    ASSUME LinkInv, Disconnects
    PROVE  LinkInv'
<1>1. /\ link' = "down" /\ bus' = <<>> /\ lost' = FALSE /\ mail' = Append(mail, Unreachable)
      /\ UNCHANGED <<daemon, session, told, owed, read, readEarly, view, service>>
  BY DEF Disconnects, serviceVars, appVars
<1>2. ServiceTypes' /\ LinkTypes'
  BY <1>1, NothingSent DEF LinkInv, ServiceTypes, LinkTypes
<1>3. ViewTypes' /\ MailInv'
  <2>1. Unreachable \in Words /\ Unreachable.kind # "connected"
    BY WordsTyped DEF Unreachable
  <2>. QED
    BY <1>1, <2>1, MailGrows
<1>4. EmitterInv'
  BY <1>1 DEF LinkInv, EmitterInv, Listening
<1>5. HeardInv' /\ KnownInv'
  BY <1>1 DEF HeardInv, KnownInv, Listening
<1>. QED
  BY <1>2, <1>3, <1>4, <1>5 DEF LinkInv

-----------------------------------------------------------------------------
(* The window: it touches only what is its own, and the calls.             *)

OnlyMail ==
    UNCHANGED <<daemon, session, told, owed, bus, lost, link, read, readEarly>>

LEMMA MailOnly ==
    ASSUME LinkInv, OnlyMail, ViewTypes', MailInv'
    PROVE  LinkInv'
<1>. USE DEF LinkInv, OnlyMail
<1>1. ServiceTypes' /\ LinkTypes'
  BY DEF ServiceTypes, LinkTypes
<1>2. EmitterInv'
  BY DEF EmitterInv, Listening
<1>3. HeardInv' /\ KnownInv'
  BY DEF HeardInv, KnownInv, Listening, Unsaid, WordIsTrue, ReadIsTrue
<1>. QED
  BY <1>1, <1>2, <1>3

LEMMA ClicksKeep ==
    ASSUME LinkInv, ScreensCalled \/ UserPicks \/ UserSwitches \/ UserKeeps \/ UserStops
                    \/ ReceiversMove \/ Handles
    PROVE  LinkInv'
<1>1. CASE ScreensCalled
  <2>. DEFINE c == [kind |-> "screens", state |-> Blank]
  <2>1. OnlyMail /\ mail' = Append(mail, c) /\ UNCHANGED <<view, service>>
    BY <1>1 DEF ScreensCalled, serviceVars, appVars, OnlyMail
  <2>2. c \in Words /\ c.kind # "connected" /\ ~Word(c)
    BY WordsTyped DEF Word
  <2>3. ViewTypes' /\ MailInv'
    BY <2>1, <2>2, MailGrows DEF OnlyMail
  <2>. QED
    BY <2>1, <2>3, MailOnly
<1>2. CASE UserPicks
  <2>1. OnlyMail /\ UNCHANGED <<view, service>>
    BY <1>2 DEF UserPicks, serviceVars, OnlyMail
  <2>2. mail' = mail \/ \E name \in {"screens", "cast"} : Call(name, mail)
    BY <1>2 DEF UserPicks, BeginsCast
  <2>3. ViewTypes' /\ MailInv'
    BY <2>1, <2>2, MailStays, ClickCalls DEF OnlyMail
  <2>. QED
    BY <2>1, <2>3, MailOnly
<1>3. CASE UserSwitches
  <2>1. OnlyMail /\ Call("stop", mail) /\ UNCHANGED <<view, service>>
    BY <1>3 DEF UserSwitches, serviceVars, OnlyMail
  <2>2. ViewTypes' /\ MailInv'
    BY <2>1, ClickCalls DEF OnlyMail
  <2>. QED
    BY <2>1, <2>2, MailOnly
<1>4. CASE UserKeeps
  <2>1. OnlyMail /\ UNCHANGED <<mail, view, service>>
    BY <1>4 DEF UserKeeps, serviceVars, OnlyMail
  <2>. QED
    BY <2>1, MailStays, MailOnly DEF OnlyMail
<1>5. CASE UserStops
  <2>1. OnlyMail /\ Call("stop", mail) /\ UNCHANGED <<view, service>>
    BY <1>5 DEF UserStops, serviceVars, appVars, OnlyMail
  <2>2. ViewTypes' /\ MailInv'
    BY <2>1, ClickCalls DEF OnlyMail
  <2>. QED
    BY <2>1, <2>2, MailOnly
<1>6. CASE ReceiversMove
  <2>1. OnlyMail /\ UNCHANGED <<mail, view, service>>
    BY <1>6 DEF ReceiversMove, appVars, OnlyMail
  <2>. QED
    BY <2>1, MailStays, MailOnly DEF OnlyMail
<1>7. CASE Handles
  <2>1. OnlyMail
    BY <1>7 DEF Handles, serviceVars, OnlyMail
  <2>. QED
    BY <1>7, <2>1, HandledKeeps, MailOnly
<1>. QED
  BY <1>1, <1>2, <1>3, <1>4, <1>5, <1>6, <1>7

LEMMA ShutDownKeeps ==
    ASSUME LinkInv, ShutDown
    PROVE  LinkInv'
<1>1. /\ daemon \in {"early", "up"} /\ daemon' = "closing"
      /\ UNCHANGED <<session, told, owed, bus, lost, link, read, readEarly, mail, view,
                     service>>
  BY DEF ShutDown, appVars
<1>2. ServiceTypes' /\ LinkTypes' /\ EmitterInv'
  BY <1>1 DEF LinkInv, ServiceTypes, LinkTypes, EmitterInv
<1>3. ViewTypes' /\ MailInv'
  BY <1>1, MailStays
<1>4. HeardInv' /\ KnownInv'
  BY <1>1 DEF LinkInv, HeardInv, KnownInv, Listening, Unsaid, WordIsTrue, ReadIsTrue
<1>. QED
  BY <1>2, <1>3, <1>4 DEF LinkInv

LEMMA UserClosesKeeps ==
    ASSUME LinkInv, UserCloses
    PROVE  LinkInv'
<1>1. /\ link' = "closed" /\ bus' = <<>> /\ lost' = FALSE /\ mail' = <<>>
      /\ service' = FALSE /\ view' = Blank /\ read' = Blank /\ readEarly' = FALSE
      /\ UNCHANGED <<daemon, session, told, owed>>
  BY DEF UserCloses, serviceVars
<1>2. ServiceTypes' /\ LinkTypes' /\ ViewTypes'
  BY <1>1, BlankTyped, NothingSent DEF LinkInv, ServiceTypes, LinkTypes, ViewTypes
<1>3. MailInv' /\ HeardInv' /\ KnownInv'
  BY <1>1 DEF MailInv, StateFollows, HeardInv, KnownInv, Listening
<1>4. EmitterInv'
  BY <1>1 DEF LinkInv, EmitterInv, Listening
<1>. QED
  BY <1>2, <1>3, <1>4 DEF LinkInv

-----------------------------------------------------------------------------
LEMMA LinkStarts == WindowInit => LinkInv
<1>. SUFFICES ASSUME WindowInit PROVE LinkInv
  OBVIOUS
<1>1. ServiceTypes
  BY BlankTyped DEF WindowInit, ServiceTypes, Idle
<1>2. LinkTypes /\ ViewTypes
  BY BlankTyped, NothingSent DEF WindowInit, LinkTypes, ViewTypes
<1>3. EmitterInv /\ HeardInv /\ KnownInv
  BY DEF WindowInit, EmitterInv, HeardInv, KnownInv, Listening
<1>4. MailInv
  BY DEF WindowInit, MailInv, StateFollows
<1>. QED
  BY <1>1, <1>2, <1>3, <1>4 DEF LinkInv

LEMMA LinkStays == LinkInv /\ UNCHANGED windowVars => LinkInv'
<1>. SUFFICES ASSUME LinkInv, UNCHANGED windowVars PROVE LinkInv'
  OBVIOUS
<1>1. OnlyMail /\ UNCHANGED <<mail, view, service>>
  BY DEF windowVars, OnlyMail
<1>. QED
  BY <1>1, MailStays, MailOnly DEF OnlyMail

LEMMA LinkSteps ==
    ASSUME ~Flicker, LinkInv, WindowNext
    PROVE  LinkInv'
<1>1. CASE CastCalled \/ StopCalled \/ OthersSend \/ SessionOver
  BY <1>1, SessionSteps, SessionKeeps
<1>2. CASE Emits
  BY <1>2, EmitterStartsKeeps, EmitterPassKeeps, EmitterSignalsKeeps DEF Emits
<1>3. CASE ShutDown \/ Departs
  BY <1>3, ShutDownKeeps, DepartsKeeps
<1>4. CASE Follows
  <2>1. OwnerLost => Disconnects
    BY DEF OwnerLost
  <2>. QED
    BY <1>4, <2>1, SubscribesKeeps, ActivatesKeeps, FollowerReadsKeeps, ConnectsKeeps,
       ChangesKeeps, DisconnectsKeeps DEF Follows
<1>5. CASE LinkFails
  BY <1>5, DisconnectsKeeps DEF LinkFails
<1>6. CASE ScreensCalled \/ UserPicks \/ UserSwitches \/ UserKeeps \/ UserStops
           \/ ReceiversMove \/ Handles
  BY <1>6, ClicksKeep
<1>7. CASE UserCloses
  BY <1>7, UserClosesKeeps
<1>. QED
  BY <1>1, <1>2, <1>3, <1>4, <1>5, <1>6, <1>7 DEF WindowNext

(* Nothing under way and nothing unsaid: the window's snapshot is the      *)
(* follower's, and the follower's is the service's.                        *)
LEMMA LinkSays == LinkInv => ViewIsCurrent
<1>. SUFFICES ASSUME LinkInv, Arrived, DaemonSettled, service, ~readEarly
              PROVE  view = Published(session)
  BY DEF ViewIsCurrent
<1>1. link = "up" /\ ~lost /\ bus = <<>> /\ mail = <<>>
  BY DEF Arrived
<1>2. view = read
  <2>1. Wordless(mail)
    BY <1>1 DEF Wordless
  <2>. QED
    BY <1>1, <2>1 DEF LinkInv, MailInv
<1>3. \A p \in Shown : ~Unsaid(p)
  BY DEF DaemonSettled, Unsaid
<1>4. \A p \in Shown : read[p] = Published(session)[p]
  <2>1. \A p : Silent(bus, p)
    BY <1>1 DEF Silent
  <2>. QED
    BY <1>1, <1>3, <2>1 DEF LinkInv, KnownInv, ReadIsTrue
<1>5. read \in [Shown -> BOOLEAN] /\ Published(session) \in [Shown -> BOOLEAN]
  BY PublishedTyped DEF LinkInv, LinkTypes
<1>6. read = Published(session)
  BY <1>4, <1>5
<1>. QED
  BY <1>2, <1>6

(* follow_the_service subscribes before it reads every property, and       *)
(* apply_state draws what arrives: once all of it has, the window shows    *)
(* what Engine::publish last said, however reads, signals, calls, clicks,  *)
(* departures and lost links interleave.                                   *)
THEOREM ViewCurrent ==
    ASSUME ~Flicker
    PROVE  LinkSpec => []ViewIsCurrent
<1>1. WindowInit => LinkInv
  BY LinkStarts
<1>2. LinkInv /\ [WindowNext]_windowVars => LinkInv'
  BY LinkSteps, LinkStays
<1>3. LinkInv => ViewIsCurrent
  BY LinkSays
<1>. QED
  BY <1>1, <1>2, <1>3, PTL DEF LinkSpec
=============================================================================
