---------------------------- MODULE DlnaProvider ----------------------------
(***************************************************************************)
(* Finding DLNA renderers (nd-dlna/ssdp.rs).  A sweep sends a search,      *)
(* hears replies for a while, fetches the description of each renderer it  *)
(* does not list at that address yet, and ages what stayed silent.         *)
(*                                                                         *)
(* The network is part of the model: renderers come, go and change their   *)
(* address, replies are lost, searches fail and descriptions cannot be     *)
(* fetched, each a bounded number of times.                                *)
(***************************************************************************)
EXTENDS Integers, FiniteSets

CONSTANTS
    Renderer,             \* renderers, by their USN
    Address,              \* where a renderer's description may be
    MissesBeforeRemoval,  \* MISSES_BEFORE_REMOVAL
    MaxReceivers,         \* MAX_RECEIVERS
    MaxChanges,           \* bound: renderers coming, going and moving
    MaxTroubles           \* bound: lost replies, failed searches and fetches

ASSUME SweepAssumption ==
    MissesBeforeRemoval \in Nat \ {0} /\ MaxReceivers \in Nat

VARIABLES
    there,       \* the renderers on the network: where each one is
    sweep,       \* the provider is: waiting, searching, ageing
    asked,       \* the renderers this sweep's search reached, not heard yet
    answers,     \* search_on's found: where each one that replied says it is
    announced,   \* the replies waiting for, or in, describe_announced
    listedAt,    \* its locations: the list as the sweep began
    listed,      \* Known: each renderer listed, its address and its misses
    changes,
    troubles,
    silent       \* history: whole searches since each renderer was heard, up to
                 \* MissesBeforeRemoval

netVars == <<there, changes>>
sweepVars == <<sweep, asked, answers, announced, listedAt, listed, troubles, silent>>
dlnaVars == <<netVars, sweepVars>>

Least(a, b) == IF a < b THEN a ELSE b
Nowhere == [r \in {} |-> 0]
With(f, r, v) == [x \in DOMAIN f \cup {r} |-> IF x = r THEN v ELSE f[x]]
Omitting(f, gone) == [x \in DOMAIN f \ gone |-> f[x]]

DlnaInit ==
    /\ there \in UNION {[S -> Address] : S \in SUBSET Renderer}
    /\ sweep = "waiting" /\ asked = {} /\ answers = Nowhere /\ announced = Nowhere
    /\ listedAt = Nowhere /\ listed = Nowhere
    /\ changes = 0 /\ troubles = 0
    /\ silent = [r \in Renderer |-> 0]

(***************************************************************************)
(* The network.                                                            *)
(***************************************************************************)
NetworkChanges ==
    /\ changes < MaxChanges /\ changes' = changes + 1
    /\ \E r \in Renderer :
        \/ r \in DOMAIN there /\ there' = Omitting(there, {r})
        \/ \E a \in Address :
            (r \in DOMAIN there => there[r] # a) /\ there' = With(there, r, a)
    /\ UNCHANGED sweepVars

Trouble == troubles < MaxTroubles /\ troubles' = troubles + 1

(***************************************************************************)
(* send_search and search_on.                                              *)
(***************************************************************************)
SearchGoesOut ==
    /\ sweep = "waiting"
    /\ sweep' = "searching" /\ asked' = DOMAIN there
    /\ answers' = Nowhere /\ announced' = Nowhere
    /\ listedAt' = [r \in DOMAIN listed |-> listed[r].at]
    /\ UNCHANGED <<netVars, listed, troubles, silent>>

\* No interface is reachable: the list is kept as it is.
SearchFails ==
    /\ sweep = "waiting" /\ Trouble
    /\ UNCHANGED <<netVars, sweep, asked, answers, announced, listedAt, listed, silent>>

ListedThere_ByName(r, at) == r \in DOMAIN listedAt

ListedThere(r, at) == r \in DOMAIN listedAt /\ listedAt[r] = at

Replies(r) ==
    /\ sweep = "searching" /\ r \in asked /\ r \in DOMAIN there
    /\ asked' = asked \ {r}
    /\ IF Cardinality(DOMAIN answers) < MaxReceivers
       THEN /\ answers' = With(answers, r, there[r])
            /\ announced' = IF ListedThere(r, there[r]) THEN announced
                            ELSE With(announced, r, there[r])
       ELSE UNCHANGED <<answers, announced>>
    /\ UNCHANGED <<netVars, sweep, listedAt, listed, troubles, silent>>

LosesReply(r) ==
    /\ sweep = "searching" /\ r \in asked /\ r \in DOMAIN there /\ Trouble
    /\ asked' = asked \ {r}
    /\ UNCHANGED <<netVars, sweep, answers, announced, listedAt, listed, silent>>

\* LISTEN has passed; descriptions may still be on their way.
ListenEnds ==
    /\ sweep = "searching" /\ asked \cap DOMAIN there = {}
    /\ sweep' = "ageing"
    /\ silent' = [r \in Renderer |-> IF r \in DOMAIN answers THEN 0
                                   ELSE Least(silent[r] + 1, MissesBeforeRemoval)]
    /\ UNCHANGED <<netVars, asked, answers, announced, listedAt, listed, troubles>>

(***************************************************************************)
(* describe_announced.  A renderer that left or moved meanwhile does not   *)
(* answer where it was announced.                                          *)
(***************************************************************************)
Reached(r) == r \in DOMAIN there /\ there[r] = announced[r]

Describes(r) ==
    /\ r \in DOMAIN announced /\ Reached(r)
    /\ announced' = Omitting(announced, {r})
    /\ IF r \in DOMAIN listed \/ Cardinality(DOMAIN listed) < MaxReceivers
       THEN listed' = With(listed, r, [at |-> announced[r], misses |-> 0])
       ELSE UNCHANGED listed
    /\ UNCHANGED <<netVars, sweep, asked, answers, listedAt, troubles, silent>>

DescriptionFails(r) ==
    /\ r \in DOMAIN announced
    /\ IF Reached(r) THEN Trouble ELSE UNCHANGED troubles
    /\ announced' = Omitting(announced, {r})
    /\ UNCHANGED <<netVars, sweep, asked, answers, listedAt, listed, silent>>

(***************************************************************************)
(* The rest of sweep, once the search and the descriptions are both over.  *)
(***************************************************************************)
Aged_NeverReset ==
    [r \in DOMAIN listed |->
        IF r \in DOMAIN answers THEN listed[r]
        ELSE [listed[r] EXCEPT !.misses = @ + 1]]

Aged ==
    [r \in DOMAIN listed |->
        [listed[r] EXCEPT !.misses = IF r \in DOMAIN answers THEN 0 ELSE @ + 1]]

Gone == {r \in DOMAIN listed : Aged[r].misses >= MissesBeforeRemoval}

SweepEnds ==
    /\ sweep = "ageing" /\ announced = Nowhere
    /\ sweep' = "waiting" /\ listed' = Omitting(Aged, Gone)
    /\ asked' = {} /\ answers' = Nowhere /\ listedAt' = Nowhere
    /\ UNCHANGED <<netVars, announced, troubles, silent>>

DlnaNext ==
    \/ NetworkChanges \/ SearchGoesOut \/ SearchFails \/ ListenEnds \/ SweepEnds
    \/ \E r \in Renderer :
        Replies(r) \/ LosesReply(r) \/ Describes(r) \/ DescriptionFails(r)

\* Every search is heard and every description is fetched or given up.
DlnaFairness ==
    /\ WF_dlnaVars(SearchGoesOut) /\ WF_dlnaVars(ListenEnds) /\ WF_dlnaVars(SweepEnds)
    /\ WF_dlnaVars(\E r \in Renderer : Replies(r))
    /\ WF_dlnaVars(\E r \in Renderer : Describes(r) \/ DescriptionFails(r))

DlnaSpec == DlnaInit /\ [][DlnaNext]_dlnaVars /\ DlnaFairness

(***************************************************************************)
(* Properties.                                                             *)
(***************************************************************************)
\* A renderer is taken off the list only when the last whole searches, as
\* many as MISSES_BEFORE_REMOVAL, all went without a reply from it: one lost
\* datagram, a failed search or a failed description never removes one.
NoFlicker ==
    [][\A r \in DOMAIN listed \ DOMAIN listed' :
        silent[r] >= MissesBeforeRemoval]_dlnaVars

\* Once the network is quiet the list becomes what is there, each renderer
\* at the address it has now, and stays that.
ListFollowsNetwork ==
    <>[](DOMAIN listed = DOMAIN there /\ \A r \in DOMAIN there : listed[r].at = there[r])

\* The list is what the network holds, without a renderer dropping out of it for
\* one lost reply (sweep, age).
RenderersAreListed == NoFlicker /\ ListFollowsNetwork

=============================================================================
