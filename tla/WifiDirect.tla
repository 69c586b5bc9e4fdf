------------------------------ MODULE WifiDirect ------------------------------
(***************************************************************************)
(* Forming a Wi-Fi Direct group (nd-net's p2p::group): the activation is   *)
(* NetworkManager's and may appear, get an address or vanish at any time;  *)
(* connect_and_wait_cancelled asks, polls, tears down and tries again.     *)
(***************************************************************************)
EXTENDS Naturals

CONSTANT ConnectAttempts

ASSUME ConnectAssumption == ConnectAttempts \in Nat \ {0}

VARIABLES
    wd,         \* the attempt: where it is, which one, what it failed with
    nm,         \* the latest activation in NetworkManager
    cancel      \* the stream's watch channel says stop

wifi == <<wd, nm>>

NoJoin == [at |-> "idle", try |-> 0, cancelled |-> FALSE]

WifiTypeOK ==
    /\ wd \in [at : {"idle", "asking", "waiting", "dropping", "settling", "joined", "cancelled", "failed"},
               try : 0..ConnectAttempts, cancelled : BOOLEAN]
    /\ nm \in {"none", "activating", "bare", "ready"}
    /\ cancel \in BOOLEAN

WifiInit == wd = NoJoin /\ nm = "none"

(* The head of the loop over attempts.                                     *)
Try(n) ==
    [at |-> CASE n > ConnectAttempts -> "failed"
              [] n <= ConnectAttempts /\ cancel -> "cancelled"
              [] n <= ConnectAttempts /\ ~cancel -> "asking",
     try |-> IF n > ConnectAttempts THEN ConnectAttempts ELSE n, cancelled |-> FALSE]

(* connect: the card or the receiver may refuse.                           *)
Connect ==
    /\ wd.at = "asking"
    /\ \/ wd' = [wd EXCEPT !.at = "waiting"] /\ nm' = "activating"
       \/ wd' = Try(wd.try + 1) /\ UNCHANGED nm
    /\ UNCHANGED cancel

(* External: the group comes up, gets an address, or goes away.            *)
GroupMoves ==
    /\ \/ nm = "activating" /\ nm' \in {"bare", "none"}
       \/ nm = "bare" /\ nm' \in {"ready", "none"}
       \/ nm = "ready" /\ nm' = "none"
    /\ UNCHANGED <<wd, cancel>>

(* wait_for_address: cancelled, out of time or out of the bus, dropped, or *)
(* an address.                                                             *)
Poll ==
    /\ wd.at = "waiting"
    /\ \/ \E told \in {FALSE, cancel} : wd' = [wd EXCEPT !.at = "dropping", !.cancelled = told]
       \/ ~cancel /\ nm = "ready" /\ wd' = [wd EXCEPT !.at = "joined"]
    /\ UNCHANGED <<nm, cancel>>

(* DeactivateConnection; a refusal leaves the group up, and a group that   *)
(* is gone already is no refusal.                                          *)
TearsDown(refusal) ==
    \/ ~refusal /\ nm' = "none"
    \/ refusal /\ nm # "none" /\ UNCHANGED nm

Drop(refusal) ==
    /\ wd.at = "dropping" /\ TearsDown(refusal)
    /\ wd' = [wd EXCEPT !.at = IF wd.cancelled THEN "cancelled" ELSE "settling"]
    /\ UNCHANGED cancel

Settle ==
    /\ wd.at = "settling"
    /\ wd' = IF cancel THEN [wd EXCEPT !.at = "cancelled"] ELSE Try(wd.try + 1)
    /\ UNCHANGED <<nm, cancel>>

JoinSteps == Connect \/ Poll \/ Drop(FALSE) \/ Settle
=============================================================================
