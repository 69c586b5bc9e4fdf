------------------------------- MODULE Firewall -------------------------------
(***************************************************************************)
(* The ports of a Miracast session in firewalld (nd-net's firewall): what  *)
(* is opened, what is remembered of it on disk, and closing it again, by   *)
(* the session or by the sweep of the next run.  Every call to firewalld   *)
(* is a step of its own and may be refused.  One zone is modelled.         *)
(***************************************************************************)
EXTENDS Naturals, FiniteSets

CONSTANTS
    Ports,          \* wfd_ports, numbered in the order they are gone through
    UserConfigs,    \* the sets of them the user's configuration may open
    DiskFails,      \* whether writing the record may fail
    MaxRefusals     \* bound: calls that are refused, or writes that fail

ASSUME FirewallAssumption ==
    /\ Ports \subseteq Nat /\ UserConfigs \subseteq SUBSET Ports
    /\ DiskFails \in BOOLEAN /\ MaxRefusals \in Nat

VARIABLES
    open,       \* the ports open in the zone
    theirs,     \* those the user's own configuration opens
    record,     \* the ports the record on disk names; none, no record
    fw,         \* each task inside this module: where it is and what it holds
    refused     \* how many calls failed

firewall == <<open, theirs, record, fw, refused>>

Procs == {"boot", "cast"}

FirewallTypeOK ==
    /\ open \subseteq Ports /\ theirs \subseteq Ports /\ record \subseteq Ports
    /\ refused \in 0..MaxRefusals
    /\ fw \in [Procs ->
          [at : {"idle", "sweep", "open", "note", "opened", "undo", "close", "failed"},
           lease : SUBSET Ports, todo : SUBSET Ports, complete : BOOLEAN]]

Holding(at, lease, todo) == [at |-> at, lease |-> lease, todo |-> todo, complete |-> TRUE]

Idle == Holding("idle", {}, {})
Failed == Holding("failed", {}, {})
Opening == Holding("open", {}, Ports)
Closing(at, lease) == Holding(at, lease, lease)

(* A machine this program never ran on: the sweep finds no record.         *)
FirewallInit ==
    /\ theirs \in UserConfigs
    /\ open = theirs /\ record = {} /\ refused = 0
    /\ fw = [p \in Procs |-> Idle]

First(ports) == CHOOSE q \in ports : \A r \in ports : q <= r

Refused == refused < MaxRefusals /\ refused' = refused + 1

(* ensure_ports_open sweeps first; without a bus it opens nothing, and a   *)
(* zone that cannot be read fails it.                                      *)
EnsurePortsOpen ==
    /\ \/ /\ fw' = [fw EXCEPT !["cast"] = IF record = {} THEN Opening ELSE Closing("sweep", record)]
          /\ UNCHANGED refused
       \/ fw' = [fw EXCEPT !["cast"] = Holding("opened", {}, {})] /\ UNCHANGED refused
       \/ fw' = [fw EXCEPT !["cast"] = Failed] /\ Refused
    /\ UNCHANGED <<open, theirs, record>>

(* One port: already open it is not ours; else it is opened, or refused,   *)
(* which undoes what this call opened.                                     *)
OpensPort_NoUndo ==
    /\ fw["cast"].at = "open" /\ fw["cast"].todo # {}
    /\ LET q == First(fw["cast"].todo) IN
       \/ /\ q \in open
          /\ fw' = [fw EXCEPT !["cast"].todo = @ \ {q}]
          /\ UNCHANGED <<open, refused>>
       \/ /\ q \notin open
          /\ open' = open \cup {q}
          /\ fw' = [fw EXCEPT !["cast"] = Holding("note", @.lease \cup {q}, @.todo \ {q})]
          /\ UNCHANGED refused
       \/ /\ Refused
          /\ fw' = [fw EXCEPT !["cast"] = Failed]
          /\ UNCHANGED open
    /\ UNCHANGED <<theirs, record>>

OpensPort_NoQuery ==
    /\ fw["cast"].at = "open" /\ fw["cast"].todo # {}
    /\ LET q == First(fw["cast"].todo) IN
       \/ /\ open' = open \cup {q}
          /\ fw' = [fw EXCEPT !["cast"] = Holding("note", @.lease \cup {q}, @.todo \ {q})]
          /\ UNCHANGED refused
       \/ /\ Refused
          /\ fw' = [fw EXCEPT !["cast"] = IF @.lease = {} THEN Failed ELSE Closing("undo", @.lease)]
          /\ UNCHANGED open
    /\ UNCHANGED <<theirs, record>>

OpensPort ==
    /\ fw["cast"].at = "open" /\ fw["cast"].todo # {}
    /\ LET q == First(fw["cast"].todo) IN
       \/ /\ q \in open
          /\ fw' = [fw EXCEPT !["cast"].todo = @ \ {q}]
          /\ UNCHANGED <<open, refused>>
       \/ /\ q \notin open
          /\ open' = open \cup {q}
          /\ fw' = [fw EXCEPT !["cast"] = Holding("note", @.lease \cup {q}, @.todo \ {q})]
          /\ UNCHANGED refused
       \/ /\ Refused
          /\ fw' = [fw EXCEPT !["cast"] = IF @.lease = {} THEN Failed ELSE Closing("undo", @.lease)]
          /\ UNCHANGED open
    /\ UNCHANGED <<theirs, record>>

(* remember writes the whole lease over what the record says; a write that *)
(* fails is only logged.                                                   *)
Remember ==
    /\ fw["cast"].at = "note"
    /\ fw' = [fw EXCEPT !["cast"].at = "open"]
    /\ \/ record' = fw["cast"].lease /\ UNCHANGED refused
       \/ DiskFails /\ Refused /\ UNCHANGED record
    /\ UNCHANGED <<open, theirs>>

PortsOpened ==
    /\ fw["cast"].at = "open" /\ fw["cast"].todo = {}
    /\ fw' = [fw EXCEPT !["cast"].at = "opened"]
    /\ UNCHANGED <<open, theirs, record, refused>>

(* release, at the end of the session; a lease without ports is a no-op.   *)
Release ==
    /\ fw' = [fw EXCEPT !["cast"] = IF @.lease = {} THEN Idle ELSE Closing("close", @.lease)]
    /\ UNCHANGED <<open, theirs, record, refused>>

Releasing(p) == fw[p].at \in {"sweep", "undo", "close"}

(* One port of the lease: gone already, closed, or not to be closed.       *)
ClosesPort(p) ==
    /\ Releasing(p) /\ fw[p].todo # {}
    /\ LET q == First(fw[p].todo) IN
       \/ /\ open' = open \ {q}
          /\ fw' = [fw EXCEPT ![p].todo = @ \ {q}]
          /\ UNCHANGED refused
       \/ /\ Refused
          /\ fw' = [fw EXCEPT ![p] =
                [at |-> @.at, lease |-> @.lease, todo |-> @.todo \ {q}, complete |-> FALSE]]
          /\ UNCHANGED open
    /\ UNCHANGED <<theirs, record>>

(* Where a release leaves its caller.                                      *)
AfterRelease(p) ==
    IF p = "cast" /\ fw[p].at = "sweep" THEN Opening
    ELSE IF fw[p].at = "undo" THEN Failed
    ELSE Idle

(* The record is forgotten when every port is closed and it is still the   *)
(* record of this lease.  firewalld out of reach ends the release at once. *)
Released(p) ==
    /\ Releasing(p)
    /\ \/ /\ fw[p].todo = {}
          /\ record' = IF fw[p].complete /\ record = fw[p].lease THEN {} ELSE record
          /\ UNCHANGED refused
       \/ fw[p].todo = fw[p].lease /\ Refused /\ UNCHANGED record
    /\ fw' = [fw EXCEPT ![p] = AfterRelease(p)]
    /\ UNCHANGED <<open, theirs>>

FirewallSteps ==
    \/ Remember \/ PortsOpened
    \/ OpensPort \/ \E p \in Procs : ClosesPort(p) \/ Released(p)

(* External: firewall-cmd --reload discards the runtime rules.             *)
Reload ==
    /\ open # theirs
    /\ open' = theirs
    /\ UNCHANGED <<theirs, record, fw, refused>>

(* The process dies; what is open and on disk stays.  The engine of the    *)
(* next run spawns release_stale before anything else, which reads the     *)
(* record at once and may still be closing ports when a cast begins.       *)
FirewallRestarts ==
    /\ fw' = [p \in Procs |-> IF p = "boot" /\ record # {} THEN Closing("sweep", record) ELSE Idle]
    /\ UNCHANGED <<open, theirs, record, refused>>

Quiescent == \A p \in Procs : fw[p] = Idle

(* What the user's own configuration opens is never closed, whoever closes *)
(* what and whenever a run dies.                                           *)
UserPortsStay == theirs \subseteq open

(* Every port a run of this program opened is on record, but for the one   *)
(* being written down.                                                     *)
OursOnRecord ==
    \A q \in open \ theirs : q \in record \/ (fw["cast"].at = "note" /\ q \in fw["cast"].lease)
=============================================================================
