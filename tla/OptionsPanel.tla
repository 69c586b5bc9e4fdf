--------------------------- MODULE OptionsPanel ----------------------------
(* The window's sidebar of options (nd-gui/src/pages/options.rs) beside the   *)
(* settings page it shares the preferences with, the share page that offers   *)
(* files or a capture, and the window that carries messages between them      *)
(* (nd-gui/src/app). Each is a component with a queue of its own: what one    *)
(* sends is taken later, after whatever was sent before. A tile sends a       *)
(* message whenever it becomes active, whoever made it so.                    *)
EXTENDS Integers, Sequences

CONSTANTS
    Choice,         \* the values of one setting a card offers
    Default,        \* the value it is restored to
    MaxPicks,       \* bound: times the person picks or restores something
    MaxProbes,      \* bound: times the service says whether it makes screens
    MaxInbox        \* bound: messages a component leaves waiting

Shares == {"screen", "window", "extra", "files"}

VARIABLES
    tile,           \* the tiles that are active: the share's and the setting's
    panel,          \* the panel: its share, its setting, whether screens are made
    panelInbox,     \* its messages
    shell,          \* the window: its share, its capture, whether screens are made
    windowInbox,
    page,           \* the settings page: the setting in force
    pageInbox,
    filesShown,     \* whether the share page lists receivers of files
    picks, probes   \* what happened so far

optionVars == <<tile, panel, panelInbox, shell, windowInbox, page, pageInbox,
                filesShown, picks, probes>>

OptionsInit ==
    /\ \E c \in Choice : /\ tile = [share |-> "screen", choice |-> c]
                         /\ panel = [share |-> "screen", choice |-> c, extra |-> FALSE]
                         /\ page = c
    /\ shell = [share |-> "screen", source |-> "screen", extra |-> FALSE]
    /\ panelInbox = <<>> /\ windowInbox = <<>> /\ pageInbox = <<>>
    /\ filesShown = FALSE /\ picks = 0 /\ probes = 0

Message(kind, value) == [kind |-> kind, value |-> value, echo |-> FALSE]
Echo(kind, value) == [kind |-> kind, value |-> value, echo |-> TRUE]
When(condition, message) == IF condition THEN <<message>> ELSE <<>>

Room(inbox) == Len(inbox) < MaxInbox

(* ------------------------------- the person ------------------------------ *)

\* A tile is picked; the extra screen's only while the panel says it can be made.
PicksShare(share) ==
    /\ picks < MaxPicks /\ Room(panelInbox)
    /\ share # tile.share /\ (share = "extra" => panel.extra)
    /\ picks' = picks + 1
    /\ tile' = [tile EXCEPT !.share = share]
    /\ panelInbox' = Append(panelInbox, Message("share", share))
    /\ UNCHANGED <<panel, shell, windowInbox, page, pageInbox, filesShown, probes>>

\* Capture settings do not reach files, and their rows do not open.
PicksChoice(c) ==
    /\ picks < MaxPicks /\ Room(panelInbox)
    /\ c # tile.choice /\ panel.share # "files"
    /\ picks' = picks + 1
    /\ tile' = [tile EXCEPT !.choice = c]
    /\ panelInbox' = Append(panelInbox, Message("choice", c))
    /\ UNCHANGED <<panel, shell, windowInbox, page, pageInbox, filesShown, probes>>

\* The defaults are restored in the settings' own dialog, over a window at rest.
NothingQueued == panelInbox = <<>> /\ windowInbox = <<>> /\ pageInbox = <<>>
Restores ==
    /\ picks < MaxPicks /\ NothingQueued
    /\ picks' = picks + 1
    /\ page' = Default
    /\ windowInbox' = <<Message("settings", Default)>>
    /\ UNCHANGED <<tile, panel, panelInbox, shell, pageInbox, filesShown, probes>>

\* The service's reading changes, or the service is lost.
ServiceProbed ==
    /\ probes < MaxProbes /\ Room(panelInbox)
    /\ probes' = probes + 1
    /\ shell' = [shell EXCEPT !.extra = ~ @]
    /\ panelInbox' = Append(panelInbox, Message("extra", ~ shell.extra))
    /\ UNCHANGED <<tile, panel, windowInbox, page, pageInbox, filesShown, picks>>

(* -------------------------------- the panel ------------------------------ *)

\* The values go onto the tiles, and each tile that becomes active says so.
Show(share, choice, rest) ==
    /\ tile' = [share |-> share, choice |-> choice]
    /\ panelInbox' = rest \o When(tile.share # share, Echo("share", share))
                          \o When(tile.choice # choice, Echo("choice", choice))

\* A slip: the window is not told which share the panel fell back to.
FallsBack_Silently(share) == <<>>

\* The window is told.
FallsBack(share) == <<Message("share", share)>>

PanelTakesSettings ==
    /\ panelInbox # <<>> /\ Head(panelInbox).kind = "settings"
    /\ LET c == Head(panelInbox).value
       IN  /\ panel' = [panel EXCEPT !.choice = c]
           /\ Show(panel.share, c, Tail(panelInbox))
    /\ UNCHANGED <<shell, windowInbox, page, pageInbox, filesShown, picks, probes>>

\* A share the desktop cannot honour falls back to the whole screen.
PanelTakesExtra ==
    /\ panelInbox # <<>> /\ Head(panelInbox).kind = "extra" /\ Room(windowInbox)
    /\ LET available == Head(panelInbox).value
           lost == ~ available /\ panel.share = "extra"
           share == IF lost THEN "screen" ELSE panel.share
       IN  /\ panel' = [panel EXCEPT !.extra = available, !.share = share]
           /\ windowInbox' = windowInbox \o (IF lost THEN FallsBack(share) ELSE <<>>)
           /\ Show(share, panel.choice, Tail(panelInbox))
    /\ UNCHANGED <<shell, page, pageInbox, filesShown, picks, probes>>

PanelTakesShare ==
    /\ panelInbox # <<>> /\ Head(panelInbox).kind = "share" /\ Room(windowInbox)
    /\ LET share == Head(panelInbox).value
       IN  IF share = panel.share
           THEN panelInbox' = Tail(panelInbox) /\ UNCHANGED <<tile, panel, windowInbox>>
           ELSE /\ panel' = [panel EXCEPT !.share = share]
                /\ windowInbox' = Append(windowInbox, Message("share", share))
                /\ Show(share, panel.choice, Tail(panelInbox))
    /\ UNCHANGED <<shell, page, pageInbox, filesShown, picks, probes>>

PanelTakesChoice ==
    /\ panelInbox # <<>> /\ Head(panelInbox).kind = "choice" /\ Room(windowInbox)
    /\ LET c == Head(panelInbox).value
       IN  IF c = panel.choice
           THEN panelInbox' = Tail(panelInbox) /\ UNCHANGED <<tile, panel, windowInbox>>
           ELSE /\ panel' = [panel EXCEPT !.choice = c]
                /\ windowInbox' = Append(windowInbox, Message("options", c))
                /\ Show(panel.share, c, Tail(panelInbox))
    /\ UNCHANGED <<shell, page, pageInbox, filesShown, picks, probes>>

(* --------------------- the window and the other pages -------------------- *)

\* Files are not captured: the capture last chosen is kept for later.
WindowTakesShare ==
    /\ windowInbox # <<>> /\ Head(windowInbox).kind = "share"
    /\ LET share == Head(windowInbox).value
       IN  /\ shell' = [shell EXCEPT !.share = share,
                                       !.source = IF share = "files" THEN @ ELSE share]
           /\ filesShown' = (share = "files")
    /\ windowInbox' = Tail(windowInbox)
    /\ UNCHANGED <<tile, panel, panelInbox, page, pageInbox, picks, probes>>

WindowTakesOptions ==
    /\ windowInbox # <<>> /\ Head(windowInbox).kind = "options" /\ Room(pageInbox)
    /\ windowInbox' = Tail(windowInbox)
    /\ pageInbox' = Append(pageInbox, Message("replace", Head(windowInbox).value))
    /\ UNCHANGED <<tile, panel, panelInbox, shell, page, filesShown, picks, probes>>

WindowTakesSettings ==
    /\ windowInbox # <<>> /\ Head(windowInbox).kind = "settings" /\ Room(panelInbox)
    /\ windowInbox' = Tail(windowInbox)
    /\ panelInbox' = Append(panelInbox, Message("settings", Head(windowInbox).value))
    /\ UNCHANGED <<tile, panel, shell, page, pageInbox, filesShown, picks, probes>>

\* The page puts what it was sent in force, and says what is in force now.
PageTakes ==
    /\ pageInbox # <<>> /\ Room(windowInbox)
    /\ page' = Head(pageInbox).value
    /\ pageInbox' = Tail(pageInbox)
    /\ windowInbox' = Append(windowInbox, Message("settings", page'))
    /\ UNCHANGED <<tile, panel, panelInbox, shell, filesShown, picks, probes>>

PanelTakes == PanelTakesSettings \/ PanelTakesExtra \/ PanelTakesShare \/ PanelTakesChoice
WindowTakes == WindowTakesShare \/ WindowTakesOptions \/ WindowTakesSettings

OptionsNext ==
    \/ \E share \in Shares : PicksShare(share)
    \/ \E c \in Choice : PicksChoice(c)
    \/ Restores \/ ServiceProbed
    \/ PanelTakes \/ WindowTakes \/ PageTakes

OptionsSpec == OptionsInit /\ [][OptionsNext]_optionVars

(* ------------------------------- properties ------------------------------ *)

\* Once nothing is on its way, what the tiles show is what is in force
\* everywhere: in the panel, in the settings, in what the next cast captures
\* and in what the share page offers; and no share the desktop cannot honour.
QuietMeansAgreed ==
    NothingQueued =>
        /\ tile = [share |-> panel.share, choice |-> panel.choice]
        /\ panel.choice = page
        /\ panel.share = shell.share /\ panel.extra = shell.extra
        /\ panel.share = "extra" => panel.extra
        /\ filesShown = (shell.share = "files")
        /\ shell.share # "files" => shell.source = shell.share

\* "The toggled it emits comes back as a message for the value already held,
\* which changes nothing": a tile that becomes active by the panel's own
\* doing never changes what the panel holds.  So it is while the person waits
\* for the panel; two picks it has not taken yet echo back and forth.
EchoChangesNothing ==
    [][(PanelTakes /\ Head(panelInbox).echo) => panel' = panel]_optionVars
=============================================================================
