------------------------------ MODULE MCDesktop ------------------------------
(***************************************************************************)
(* Instances of Preferences, OptionsPanel, Window and ServiceLife: the     *)
(* window's process, the service's, and the bus between them.  Each module *)
(* has state of its own, and meets the others only in what it leaves open  *)
(* (an edit, a snapshot, a call), so a behaviour follows one of them.      *)
(* Preferences is followed twice: the window's calls one at a time, and    *)
(* two at a time beside casts and another client's toggles.                *)
(***************************************************************************)
EXTENDS Preferences, OptionsPanel, Window, ServiceLife

CONSTANT FirstJob

VARIABLE part

MCInit ==
    /\ part \in {"calls", "crossing", "options", "window", "life"}
    /\ Init /\ OptionsInit /\ WindowInit /\ LifeInit
    /\ part \notin {"calls", "crossing"} => file.auto
    /\ part # "options" => page = Default

OneCall == toggles' = 0 /\ \A j \in Jobs \ {FirstJob} : job'[j].pc = "idle"
Crossing == casts' < MaxCasts /\ window'.settings.edit < MaxEdits

MCNext ==
    \/ /\ part = "calls" /\ Next /\ OneCall
       /\ UNCHANGED <<optionVars, windowVars, lifeVars, part>>
    \/ /\ part = "crossing" /\ Next /\ Crossing
       /\ UNCHANGED <<optionVars, windowVars, lifeVars, part>>
    \/ /\ part = "options" /\ OptionsNext
       /\ UNCHANGED <<vars, windowVars, lifeVars, part>>
    \/ /\ part = "window" /\ WindowNext
       /\ UNCHANGED <<vars, optionVars, lifeVars, part>>
    \/ /\ part = "life" /\ LifeNext
       /\ UNCHANGED <<vars, optionVars, windowVars, part>>

MCSpec ==
    MCInit /\ [][MCNext]_<<vars, optionVars, windowVars, lifeVars, part>>

PrefsFairness ==
    /\ WF_vars(Engine)
    /\ WF_vars(Handled(FirstJob)) /\ WF_vars(TimerFires(FirstJob))

MCFairSpec ==
    /\ MCSpec
    /\ \/ part = "calls" /\ PrefsFairness
       \/ part = "life" /\ LifeFairness
       \/ part \in {"crossing", "options", "window"}

(* What must come comes: an edit reaches the engine or is reported         *)
(* (schedule_write, reload_settings), files whose player left the bus end  *)
(* (forward_disconnects), a service nobody needs leaves (idle_after).      *)
DesktopGoesOn ==
    (part = "calls" => EditsReachEngine) /\ OwnerlessEnds
        /\ (part = "life" => IdleLeaves)
=============================================================================
