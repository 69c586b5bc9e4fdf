---------------------------- MODULE Miracast_proofs ----------------------------
(***************************************************************************)
(* Proofs about Miracast: for any ports, any configuration of the user's,  *)
(* any number of refusals, casts and crashes, and any number of attempts.  *)
(***************************************************************************)
EXTENDS Miracast, WellFoundedInduction, TLAPS

-----------------------------------------------------------------------------
(* The inductive invariant. *)

Places == {"idle", "sweep", "open", "note", "opened", "undo", "close", "failed"}

Task ==
    [at : Places,
     lease : SUBSET Ports, todo : SUBSET Ports, complete : BOOLEAN]

Cast == fw["cast"]
Boot == fw["boot"]

PortsTyped ==
    /\ open \subseteq Ports /\ theirs \subseteq Ports /\ record \subseteq Ports
    /\ fw \in [Procs -> Task] /\ spoiled \in BOOLEAN /\ refused \in Nat

(* Leases and the record never name a port of the user's.                  *)
OursOnly ==
    /\ theirs \subseteq open /\ record \cap theirs = {}
    /\ \A p \in Procs : fw[p].lease \cap theirs = {}

(* What a task holds goes with where it is.                                *)
Shapes ==
    /\ Boot.at \in {"idle", "sweep"}
    /\ \A p \in Procs : fw[p].at = "idle" => fw[p] = Idle
    /\ Cast.at = "failed" => Cast.lease = {}
    /\ \A p \in Procs : Releasing(p) => fw[p].todo \subseteq fw[p].lease

(* The ports the cast answers for: its lease, or what is left to close.    *)
Held ==
    CASE Cast.at \in {"open", "note", "opened"} -> Cast.lease
      [] Cast.at \in {"undo", "close"} -> Cast.todo
      [] OTHER -> {}

(* Every port of ours is the cast's or on record, what a release is done   *)
(* with is closed, and somebody will clear the record.                     *)
OpenIsKnown == open \ theirs \subseteq Held \cup (IF Cast.at \in {"open", "note"} THEN {} ELSE record)

DoneIsClosed ==
    \A p \in Procs :
        Releasing(p) /\ fw[p].complete => (fw[p].lease \ fw[p].todo) \cap open \subseteq Held

RecordHasOwner ==
    \/ record = {} \/ Cast.at = "note"
    \/ Cast.at \in {"open", "opened", "sweep", "undo", "close"} /\ record = Cast.lease
    \/ /\ Boot.at = "sweep" /\ Boot.complete /\ record = Boot.lease
       /\ Cast.at \notin {"open", "note", "sweep"}

Accounted ==
    ~spoiled =>
        /\ OpenIsKnown /\ DoneIsClosed /\ RecordHasOwner
        /\ Releasing("cast") => Cast.complete

PortsInv == PortsTyped /\ OursOnly /\ Shapes /\ Accounted

(* Where the session is says where its task in the firewall is.            *)
Stages ==
    /\ ses.at \in {"idle", "opening", "joining", "leaving", "pausing"} => Cast = Idle
    /\ ses.at = "firewall" => Cast.at \in {"sweep", "open", "note", "opened", "undo", "failed"}
    /\ ses.at \in {"listening", "rtsp"} => Cast.at = "opened"
    /\ ses.at = "closing" => Cast.at \in {"close", "idle"}

(* Without a refusal there is a group only while the session has one.      *)
NoGroup ==
    \/ ses.at \in {"idle", "opening", "pausing"}
    \/ ses.at = "joining" /\ wd.at \notin {"waiting", "dropping", "joined"}

GroupGone == NoGroup /\ ~spoiled => nm = "none"
RadioFree == quiet => ses.at \in {"firewall", "listening", "rtsp", "closing", "leaving"}

(* A stream that runs can be told to stop, or has been.                    *)
SlotOrCancel == ses.at # "idle" => slot \/ cancel

Sessions ==
    [at : {"idle", "opening", "joining", "firewall", "listening", "rtsp", "closing", "leaving",
           "pausing"}, attempt : Nat, outcome : {"none", "ok", "never", "error"}]

Joins ==
    [at : {"idle", "asking", "waiting", "dropping", "settling", "joined", "cancelled", "failed"},
     try : 0..ConnectAttempts, cancelled : BOOLEAN]

SessionTyped ==
    ses \in Sessions /\ wd \in Joins /\ cancel \in BOOLEAN /\ slot \in BOOLEAN /\ quiet \in BOOLEAN

SessionInv == SessionTyped /\ Stages /\ GroupGone /\ RadioFree /\ SlotOrCancel

CastInv == PortsInv /\ SessionInv

-----------------------------------------------------------------------------
(* Helpers. *)

Less == {ss \in Nat \X Nat : ss[1] < ss[2]}

LEMMA LessWellFounded == IsWellFoundedOn(Less, Nat)
  BY NatLessThanWellFounded, Zenon DEF OpToRel, Less

LEMMA FirstIsOne ==
    ASSUME NEW S, S \subseteq Ports, S # {}
    PROVE  First(S) \in S
<1>1. S \subseteq Nat
  BY FirewallAssumption
<1>2. PICK q \in S : \A r \in S : <<r, q>> \notin Less
  BY <1>1, LessWellFounded, WFMin, Zenon
<1>3. \A r \in S : q <= r
  <2>. SUFFICES ASSUME NEW r \in S PROVE q <= r
    OBVIOUS
  <2>1. <<r, q>> \notin Less
    BY <1>2
  <2>2. <<r, q>>[1] = r /\ <<r, q>>[2] = q /\ <<r, q>> \in Nat \X Nat
    BY <1>1
  <2>3. ~(r < q)
    BY <2>1, <2>2, Zenon DEF Less
  <2>. QED
    BY <2>3, <1>1
<1>. QED
  BY <1>3 DEF First

(* One task moves, the other stays where it is.                            *)
LEMMA CastMoves ==
    ASSUME fw \in [Procs -> Task], NEW x \in Task, fw' = [fw EXCEPT !["cast"] = x]
    PROVE  Cast' = x /\ Boot' = Boot /\ fw' \in [Procs -> Task]
BY DEF Procs, Cast, Boot

LEMMA BootMoves ==
    ASSUME fw \in [Procs -> Task], NEW x \in Task, fw' = [fw EXCEPT !["boot"] = x]
    PROVE  Boot' = x /\ Cast' = Cast /\ fw' \in [Procs -> Task]
BY DEF Procs, Cast, Boot

(* What PortsInv says of the two tasks, without the quantifiers.           *)
Both ==
    /\ Cast \in Task /\ Boot \in Task
    /\ Cast.lease \cap theirs = {} /\ Boot.lease \cap theirs = {}
    /\ Boot.at \in {"idle", "sweep"}
    /\ Cast.at = "idle" => Cast = Idle
    /\ Boot.at = "idle" => Boot = Idle
    /\ Cast.at = "failed" => Cast.lease = {}
    /\ Cast.at \in {"sweep", "undo", "close"} => Cast.todo \subseteq Cast.lease
    /\ Boot.at = "sweep" => Boot.todo \subseteq Boot.lease

Sets ==
    /\ open \subseteq Ports /\ theirs \subseteq Ports /\ record \subseteq Ports
    /\ theirs \subseteq open /\ record \cap theirs = {}
    /\ fw \in [Procs -> Task] /\ spoiled \in BOOLEAN /\ refused \in Nat

Books ==
    ~spoiled =>
        /\ OpenIsKnown /\ RecordHasOwner
        /\ Cast.at \in {"sweep", "undo", "close"} =>
              Cast.complete /\ (Cast.lease \ Cast.todo) \cap open \subseteq Held
        /\ Boot.at = "sweep" /\ Boot.complete => (Boot.lease \ Boot.todo) \cap open \subseteq Held

LEMMA PortsInvSplit == PortsInv => Sets /\ Both /\ Books
<1>1. PortsTyped /\ OursOnly /\ Shapes <=> Sets /\ Both
  BY DEF PortsTyped, OursOnly, Shapes, Sets, Both, Procs, Cast, Boot, Releasing
<1>2. PortsTyped /\ OursOnly /\ Shapes => (Accounted <=> Books)
  BY DEF PortsTyped, OursOnly, Shapes, Accounted, DoneIsClosed, Books, Procs, Cast, Boot, Releasing
<1>. QED
  BY <1>1, <1>2 DEF PortsInv

-----------------------------------------------------------------------------
(* The firewall: one lemma for each thing its tasks and the world do. *)

LEMMA PortsInvJoin ==
    ASSUME Sets', Both', Books'
    PROVE  PortsInv'
<1>1. PortsTyped' /\ OursOnly' /\ Shapes'
  BY DEF PortsTyped, OursOnly, Shapes, Sets, Both, Procs, Cast, Boot, Releasing
<1>2. Accounted'
  BY DEF Accounted, DoneIsClosed, Sets, Both, Books, Procs, Cast, Boot, Releasing
<1>. QED
  BY <1>1, <1>2 DEF PortsInv

LEMMA EnsureKeeps ==
    ASSUME PortsInv, EnsurePortsOpen, Cast = Idle, UNCHANGED spoiled
    PROVE  PortsInv' /\ Cast'.at \in {"open", "sweep", "opened", "failed"}
<1>1. Sets /\ Both /\ Books
  BY PortsInvSplit
<1>2. UNCHANGED <<open, theirs, record, spoiled>> /\ refused' \in Nat
  BY <1>1 DEF EnsurePortsOpen, Refused, Sets
<1>3. Cast.at = "idle" /\ Cast.lease = {} /\ Cast = Holding("idle", {}, {})
  BY DEF Idle, Holding
<1>4. PICK at \in {"open", "sweep", "opened", "failed"}, S \in SUBSET Ports, R \in SUBSET Ports :
          /\ fw' = [fw EXCEPT !["cast"] = Holding(at, S, R)]
          /\ at = "open" => record = {} /\ S = {}
          /\ at = "sweep" => S = record /\ R = record
          /\ at \in {"opened", "failed"} => S = {}
  <2>1. \/ fw' = [fw EXCEPT !["cast"] = Holding("open", {}, Ports)] /\ record = {}
        \/ fw' = [fw EXCEPT !["cast"] = Holding("sweep", record, record)]
        \/ fw' = [fw EXCEPT !["cast"] = Holding("opened", {}, {})]
        \/ fw' = [fw EXCEPT !["cast"] = Holding("failed", {}, {})]
    BY Zenon DEF EnsurePortsOpen, Idle, Failed, Opening, Closing
  <2>2. record \in SUBSET Ports /\ {} \in SUBSET Ports /\ Ports \in SUBSET Ports
    BY <1>1 DEF Sets
  <2>. QED
    BY <2>1, <2>2
<1>. DEFINE x == Holding(at, S, R)
<1>5. x \in Task /\ x.at = at /\ x.lease = S /\ x.todo = R /\ x.complete = TRUE
  <2>1. at \in Places
    BY DEF Places
  <2>. QED
    BY <2>1 DEF Holding, Task
<1>. HIDE DEF x
<1>6. Cast' = x /\ Boot' = Boot /\ fw' \in [Procs -> Task]
  BY <1>1, <1>4, <1>5, CastMoves DEF Sets, x
<1>7. Sets'
  BY <1>1, <1>2, <1>6 DEF Sets
<1>8. Both'
  BY <1>1, <1>2, <1>4, <1>5, <1>6 DEF Sets, Both
<1>9. Books'
  BY <1>1, <1>2, <1>3, <1>4, <1>5, <1>6 DEF Sets, Both, Books, OpenIsKnown, RecordHasOwner, Held
<1>. QED
  BY <1>5, <1>6, <1>7, <1>8, <1>9, PortsInvJoin

LEMMA ReleaseKeeps ==
    ASSUME PortsInv, Release, Cast.at = "opened", UNCHANGED spoiled
    PROVE  PortsInv' /\ Cast'.at \in {"close", "idle"}
<1>1. Sets /\ Both /\ Books
  BY PortsInvSplit
<1>2. UNCHANGED <<open, theirs, record, refused, spoiled>>
  BY DEF Release
<1>3. PICK at \in {"close", "idle"}, S \in SUBSET Ports :
          /\ fw' = [fw EXCEPT !["cast"] = Holding(at, S, S)]
          /\ S = Cast.lease
          /\ at = "idle" => S = {}
  <2>1. \/ fw' = [fw EXCEPT !["cast"] = Holding("close", Cast.lease, Cast.lease)]
        \/ fw' = [fw EXCEPT !["cast"] = Holding("idle", {}, {})] /\ Cast.lease = {}
    BY Zenon DEF Release, Cast, Idle, Closing
  <2>2. Cast.lease \in SUBSET Ports
    BY <1>1 DEF Both, Task, Places
  <2>. QED
    BY <2>1, <2>2
<1>. DEFINE x == Holding(at, S, S)
<1>4. x \in Task /\ x.at = at /\ x.lease = S /\ x.todo = S /\ x.complete = TRUE
  <2>1. at \in Places
    BY DEF Places
  <2>. QED
    BY <2>1 DEF Holding, Task
<1>5. at = "idle" => x = Idle
  BY <1>3, Zenon DEF Idle
<1>. HIDE DEF x
<1>6. Cast' = x /\ Boot' = Boot /\ fw' \in [Procs -> Task]
  BY <1>1, <1>3, <1>4, CastMoves DEF Sets, x
<1>7. Sets'
  BY <1>1, <1>2, <1>6 DEF Sets
<1>8. Both'
  BY <1>1, <1>2, <1>3, <1>4, <1>5, <1>6 DEF Sets, Both, Idle, Holding
<1>9. Books'
  BY <1>1, <1>2, <1>3, <1>4, <1>6 DEF Sets, Both, Books, OpenIsKnown, RecordHasOwner, Held
<1>. QED
  BY <1>4, <1>6, <1>7, <1>8, <1>9, PortsInvJoin

(* A cast whose ports were refused leaves the firewall.                    *)
LEMMA FailedKeeps ==
    ASSUME PortsInv, Cast.at = "failed", fw' = [fw EXCEPT !["cast"] = Idle],
           UNCHANGED <<open, theirs, record, refused, spoiled>>
    PROVE  PortsInv' /\ Cast' = Idle
<1>1. Sets /\ Both /\ Books
  BY PortsInvSplit
<1>2. Idle \in Task /\ Idle.at = "idle" /\ Idle.lease = {}
  BY DEF Idle, Holding, Task, Places
<1>3. Cast' = Idle /\ Boot' = Boot /\ fw' \in [Procs -> Task]
  BY <1>1, <1>2, CastMoves DEF Sets
<1>4. Idle' = Idle
  BY DEF Idle
<1>5. Sets'
  BY <1>1, <1>3 DEF Sets
<1>6. Both'
  BY <1>1, <1>2, <1>3, <1>4 DEF Both
<1>7. Books'
  BY <1>1, <1>2, <1>3 DEF Sets, Both, Books, OpenIsKnown, RecordHasOwner, Held
<1>. QED
  BY <1>3, <1>5, <1>6, <1>7, PortsInvJoin

LEMMA OpensKeeps ==
    ASSUME PortsInv, OpensPort, UNCHANGED spoiled
    PROVE  PortsInv' /\ Cast.at = "open" /\ Cast'.at \in {"open", "note", "failed", "undo"}
<1>1. Sets /\ Both /\ Books
  BY PortsInvSplit
<1>2. /\ Cast.at = "open" /\ Cast.todo # {} /\ Cast.todo \subseteq Ports
      /\ UNCHANGED <<theirs, record, spoiled>> /\ refused' \in Nat
  BY <1>1 DEF OpensPort, Cast, Both, Task, Refused, Sets
<1>. DEFINE q == First(Cast.todo)
<1>3. q \in Cast.todo /\ q \in Ports
  BY <1>2, FirstIsOne
<1>. DEFINE Skipped == [Cast EXCEPT !.todo = @ \ {q}]
            Opened == Holding("note", Cast.lease \cup {q}, Cast.todo \ {q})
            GivesUp == IF Cast.lease = {} THEN Holding("failed", {}, {}) ELSE Holding("undo", Cast.lease, Cast.lease)
<1>4. \/ fw' = [fw EXCEPT !["cast"] = Skipped] /\ open' = open
      \/ fw' = [fw EXCEPT !["cast"] = Opened] /\ open' = open \cup {q} /\ q \notin open
      \/ fw' = [fw EXCEPT !["cast"] = GivesUp] /\ open' = open
  BY Zenon DEF OpensPort, Cast, Failed, Closing
<1>. HIDE DEF q
<1>5. CASE fw' = [fw EXCEPT !["cast"] = Skipped] /\ open' = open
  <2>1. Skipped \in Task /\ Skipped.at = "open" /\ Skipped.lease = Cast.lease
    BY <1>1, <1>2 DEF Both, Task, Places
  <2>. HIDE DEF Skipped
  <2>2. Cast' = Skipped /\ Boot' = Boot /\ fw' \in [Procs -> Task]
    BY <1>1, <1>5, <2>1, CastMoves DEF Sets
  <2>3. Sets'
    BY <1>1, <1>2, <1>5, <2>2 DEF Sets
  <2>4. Both'
    BY <1>1, <1>2, <2>1, <2>2 DEF Both
  <2>5. Books'
    BY <1>1, <1>2, <1>5, <2>1, <2>2 DEF Books, OpenIsKnown, RecordHasOwner, Held
  <2>. QED
    BY <1>2, <2>1, <2>2, <2>3, <2>4, <2>5, PortsInvJoin
<1>6. CASE fw' = [fw EXCEPT !["cast"] = Opened] /\ open' = open \cup {q} /\ q \notin open
  <2>1. Opened \in Task /\ Opened.at = "note" /\ Opened.lease = Cast.lease \cup {q}
    BY <1>1, <1>2, <1>3 DEF Both, Task, Places, Holding
  <2>. HIDE DEF Opened
  <2>2. Cast' = Opened /\ Boot' = Boot /\ fw' \in [Procs -> Task]
    BY <1>1, <1>6, <2>1, CastMoves DEF Sets
  <2>3. Sets'
    BY <1>1, <1>2, <1>3, <1>6, <2>2 DEF Sets
  <2>4. Both'
    BY <1>1, <1>2, <1>6, <2>1, <2>2 DEF Sets, Both
  <2>5. Books'
    BY <1>1, <1>2, <1>6, <2>1, <2>2 DEF Sets, Both, Books, OpenIsKnown, RecordHasOwner, Held
  <2>. QED
    BY <1>2, <2>1, <2>2, <2>3, <2>4, <2>5, PortsInvJoin
<1>7. CASE fw' = [fw EXCEPT !["cast"] = GivesUp] /\ open' = open
  <2>1. PICK at \in {"failed", "undo"} :
            GivesUp = Holding(at, Cast.lease, Cast.lease) /\ (at = "failed" => Cast.lease = {})
    OBVIOUS
  <2>2. /\ GivesUp \in Task /\ GivesUp.at = at /\ GivesUp.complete = TRUE
        /\ GivesUp.lease = Cast.lease /\ GivesUp.todo = Cast.lease
    <3>1. Cast.lease \in SUBSET Ports
      BY <1>1 DEF Both, Task, Places
    <3>2. at \in Places
      BY DEF Places
    <3>3. LET x == Holding(at, Cast.lease, Cast.lease)
          IN  x \in Task /\ x.at = at /\ x.complete = TRUE /\ x.lease = Cast.lease /\ x.todo = Cast.lease
      BY <3>1, <3>2 DEF Holding, Task
    <3>. QED
      BY <2>1, <3>3, Zenon
  <2>. HIDE DEF GivesUp
  <2>3. Cast' = GivesUp /\ Boot' = Boot /\ fw' \in [Procs -> Task]
    BY <1>1, <1>7, <2>2, CastMoves DEF Sets
  <2>4. Sets'
    BY <1>1, <1>2, <1>7, <2>3 DEF Sets
  <2>5. Both'
    BY <1>1, <1>2, <2>1, <2>2, <2>3 DEF Both
  <2>6. Books'
    BY <1>1, <1>2, <1>7, <2>1, <2>2, <2>3 DEF Sets, Both, Books, OpenIsKnown, RecordHasOwner, Held
  <2>. QED
    BY <1>2, <2>1, <2>2, <2>3, <2>4, <2>5, <2>6, PortsInvJoin
<1>. QED
  BY <1>4, <1>5, <1>6, <1>7

(* A refusal spoils the books, but for that of a port being opened.        *)
Spoils == spoiled' = (spoiled \/ (refused' > refused /\ fw["cast"].at # "open"))

LEMMA Spoilt ==
    ASSUME Sets, Refused, Spoils
    PROVE  /\ refused' \in Nat
           /\ spoiled' = IF Cast.at # "open" THEN TRUE ELSE spoiled
<1>1. refused' \in Nat /\ refused' > refused
  BY DEF Refused, Sets
<1>2. spoiled' = (spoiled \/ Cast.at # "open")
  BY <1>1, Zenon DEF Spoils, Cast
<1>. QED
  BY <1>1, <1>2, Zenon DEF Sets

LEMMA Unspoilt ==
    ASSUME Sets, UNCHANGED refused, Spoils
    PROVE  spoiled' = spoiled
<1>1. ~(refused' > refused)
  BY DEF Sets
<1>2. spoiled' = (spoiled \/ FALSE)
  BY <1>1, Zenon DEF Spoils
<1>. QED
  BY <1>2, Zenon DEF Sets

LEMMA RememberKeeps ==
    ASSUME PortsInv, Remember, Spoils
    PROVE  PortsInv' /\ Cast.at = "note" /\ Cast'.at = "open"
<1>1. Sets /\ Both /\ Books
  BY PortsInvSplit
<1>. DEFINE x == [Cast EXCEPT !.at = "open"]
<1>2. /\ Cast.at = "note" /\ fw' = [fw EXCEPT !["cast"] = x] /\ UNCHANGED <<open, theirs>>
      /\ \/ record' = Cast.lease /\ UNCHANGED <<refused, spoiled>>
         \/ UNCHANGED record /\ refused' \in Nat /\ spoiled' = TRUE
  BY <1>1, Spoilt, Unspoilt, Zenon DEF Remember, Cast
<1>3. x \in Task /\ x.at = "open" /\ x.lease = Cast.lease
  BY <1>1 DEF Both, Task, Places
<1>. HIDE DEF x
<1>4. Cast' = x /\ Boot' = Boot /\ fw' \in [Procs -> Task]
  BY <1>1, <1>2, <1>3, CastMoves DEF Sets
<1>5. Cast.lease \subseteq Ports /\ Cast.lease \cap theirs = {}
  BY <1>1 DEF Both, Task
<1>6. Sets'
  BY <1>1, <1>2, <1>4, <1>5 DEF Sets
<1>7. Both'
  BY <1>1, <1>2, <1>3, <1>4 DEF Both
<1>8. Books'
  BY <1>1, <1>2, <1>3, <1>4 DEF Sets, Both, Books, OpenIsKnown, RecordHasOwner, Held
<1>. QED
  BY <1>2, <1>3, <1>4, <1>6, <1>7, <1>8, PortsInvJoin

LEMMA OpenedKeeps ==
    ASSUME PortsInv, PortsOpened, Spoils
    PROVE  PortsInv' /\ Cast.at = "open" /\ Cast'.at = "opened"
<1>1. Sets /\ Both /\ Books
  BY PortsInvSplit
<1>. DEFINE x == [Cast EXCEPT !.at = "opened"]
<1>2. /\ Cast.at = "open" /\ fw' = [fw EXCEPT !["cast"] = x]
      /\ UNCHANGED <<open, theirs, record, refused, spoiled>>
  BY <1>1 DEF PortsOpened, Spoils, Cast, Sets
<1>3. x \in Task /\ x.at = "opened" /\ x.lease = Cast.lease
  BY <1>1 DEF Both, Task, Places
<1>. HIDE DEF x
<1>4. Cast' = x /\ Boot' = Boot /\ fw' \in [Procs -> Task]
  BY <1>1, <1>2, <1>3, CastMoves DEF Sets
<1>5. Sets'
  BY <1>1, <1>2, <1>4 DEF Sets
<1>6. Both'
  BY <1>1, <1>2, <1>3, <1>4 DEF Both
<1>7. Books'
  BY <1>1, <1>2, <1>3, <1>4 DEF Sets, Both, Books, OpenIsKnown, RecordHasOwner, Held
<1>. QED
  BY <1>2, <1>3, <1>4, <1>5, <1>6, <1>7, PortsInvJoin

LEMMA CastCloses ==
    ASSUME PortsInv, ClosesPort("cast"), Spoils
    PROVE  PortsInv' /\ Cast.at \in {"sweep", "undo", "close"} /\ Cast'.at = Cast.at
<1>1. Sets /\ Both /\ Books
  BY PortsInvSplit
<1>2. /\ Cast.at \in {"sweep", "undo", "close"} /\ Cast.todo # {} /\ Cast.todo \subseteq Ports
      /\ Cast.todo \subseteq Cast.lease /\ UNCHANGED <<theirs, record>>
  BY <1>1 DEF ClosesPort, Releasing, Cast, Both, Task
<1>. DEFINE q == First(Cast.todo)
<1>3. q \in Cast.todo /\ q \notin theirs
  BY <1>1, <1>2, FirstIsOne DEF Both
<1>. DEFINE Closed == [Cast EXCEPT !.todo = @ \ {q}]
            Left == [at |-> Cast.at, lease |-> Cast.lease, todo |-> Cast.todo \ {q}, complete |-> FALSE]
<1>4. \/ fw' = [fw EXCEPT !["cast"] = Closed] /\ open' = open \ {q} /\ UNCHANGED refused
      \/ fw' = [fw EXCEPT !["cast"] = Left] /\ open' = open /\ Refused
  BY Zenon DEF ClosesPort, Cast
<1>. HIDE DEF q
<1>5. CASE fw' = [fw EXCEPT !["cast"] = Closed] /\ open' = open \ {q} /\ UNCHANGED refused
  <2>1. /\ Closed \in Task /\ Closed.at = Cast.at /\ Closed.lease = Cast.lease
        /\ Closed.todo = Cast.todo \ {q} /\ Closed.complete = Cast.complete
    BY <1>1, <1>2 DEF Both, Task
  <2>. HIDE DEF Closed
  <2>2. Cast' = Closed /\ Boot' = Boot /\ fw' \in [Procs -> Task]
    BY <1>1, <1>5, <2>1, CastMoves DEF Sets
  <2>3. UNCHANGED spoiled
    BY <1>1, <1>5 DEF Spoils, Sets
  <2>4. Sets'
    BY <1>1, <1>2, <1>3, <1>5, <2>2, <2>3 DEF Sets
  <2>5. Both'
    BY <1>1, <1>2, <2>1, <2>2 DEF Both
  <2>6. Books'
    BY <1>1, <1>2, <1>3, <1>5, <2>1, <2>2, <2>3 DEF Sets, Both, Books, OpenIsKnown, RecordHasOwner, Held
  <2>. QED
    BY <1>2, <2>1, <2>2, <2>4, <2>5, <2>6, PortsInvJoin
<1>6. CASE fw' = [fw EXCEPT !["cast"] = Left] /\ open' = open /\ Refused
  <2>1. /\ Left \in Task /\ Left.at = Cast.at /\ Left.lease = Cast.lease
        /\ Left.todo = Cast.todo \ {q}
    BY <1>1, <1>2 DEF Both, Task
  <2>. HIDE DEF Left
  <2>2. Cast' = Left /\ Boot' = Boot /\ fw' \in [Procs -> Task]
    BY <1>1, <1>6, <2>1, CastMoves DEF Sets
  <2>3. spoiled' = TRUE /\ refused' \in Nat
    BY <1>1, <1>2, <1>6, Spoilt DEF Sets
  <2>4. Sets'
    BY <1>1, <1>2, <1>6, <2>2, <2>3 DEF Sets
  <2>5. Both'
    BY <1>1, <1>2, <2>1, <2>2 DEF Both
  <2>6. Books'
    BY <2>3 DEF Books
  <2>. QED
    BY <1>2, <2>1, <2>2, <2>4, <2>5, <2>6, PortsInvJoin
<1>. QED
  BY <1>4, <1>5, <1>6

LEMMA BootCloses ==
    ASSUME PortsInv, ClosesPort("boot"), Spoils
    PROVE  PortsInv' /\ Cast' = Cast
<1>1. Sets /\ Both /\ Books
  BY PortsInvSplit
<1>2. /\ Boot.at = "sweep" /\ Boot.todo # {} /\ Boot.todo \subseteq Ports
      /\ Boot.todo \subseteq Boot.lease /\ UNCHANGED <<theirs, record>>
  BY <1>1 DEF ClosesPort, Releasing, Boot, Both, Task
<1>. DEFINE q == First(Boot.todo)
<1>3. q \in Boot.todo /\ q \notin theirs
  BY <1>1, <1>2, FirstIsOne DEF Both
<1>. DEFINE Closed == [Boot EXCEPT !.todo = @ \ {q}]
            Left == [at |-> Boot.at, lease |-> Boot.lease, todo |-> Boot.todo \ {q}, complete |-> FALSE]
<1>4. \/ fw' = [fw EXCEPT !["boot"] = Closed] /\ open' = open \ {q} /\ UNCHANGED refused
      \/ fw' = [fw EXCEPT !["boot"] = Left] /\ open' = open /\ Refused
  BY Zenon DEF ClosesPort, Boot
<1>. HIDE DEF q
<1>5. CASE fw' = [fw EXCEPT !["boot"] = Closed] /\ open' = open \ {q} /\ UNCHANGED refused
  <2>1. /\ Closed \in Task /\ Closed.at = Boot.at /\ Closed.lease = Boot.lease
        /\ Closed.todo = Boot.todo \ {q} /\ Closed.complete = Boot.complete
    BY <1>1, <1>2 DEF Both, Task
  <2>. HIDE DEF Closed
  <2>2. Boot' = Closed /\ Cast' = Cast /\ fw' \in [Procs -> Task]
    BY <1>1, <1>5, <2>1, BootMoves DEF Sets
  <2>3. UNCHANGED spoiled
    BY <1>1, <1>5 DEF Spoils, Sets
  <2>4. Sets'
    BY <1>1, <1>2, <1>3, <1>5, <2>2, <2>3 DEF Sets
  <2>5. Both'
    BY <1>1, <1>2, <2>1, <2>2 DEF Both
  <2>6. Books'
    BY <1>1, <1>2, <1>3, <1>5, <2>1, <2>2, <2>3 DEF Sets, Both, Books, OpenIsKnown, RecordHasOwner, Held
  <2>. QED
    BY <2>2, <2>4, <2>5, <2>6, PortsInvJoin
<1>6. CASE fw' = [fw EXCEPT !["boot"] = Left] /\ open' = open /\ Refused
  <2>1. /\ Left \in Task /\ Left.at = Boot.at /\ Left.lease = Boot.lease
        /\ Left.todo = Boot.todo \ {q} /\ Left.complete = FALSE
    BY <1>1, <1>2 DEF Both, Task
  <2>. HIDE DEF Left
  <2>2. Boot' = Left /\ Cast' = Cast /\ fw' \in [Procs -> Task]
    BY <1>1, <1>6, <2>1, BootMoves DEF Sets
  <2>3. refused' \in Nat /\ spoiled' \in BOOLEAN /\ (~spoiled' => ~spoiled /\ Cast.at = "open")
    BY <1>1, <1>2, <1>6, Spoilt DEF Sets
  <2>4. Sets'
    BY <1>1, <1>2, <1>6, <2>2, <2>3 DEF Sets
  <2>5. Both'
    BY <1>1, <1>2, <2>1, <2>2 DEF Both
  <2>6. Books'
    BY <1>1, <1>2, <1>6, <2>1, <2>2, <2>3 DEF Books, OpenIsKnown, RecordHasOwner, Held
  <2>. QED
    BY <2>2, <2>4, <2>5, <2>6, PortsInvJoin
<1>. QED
  BY <1>4, <1>5, <1>6

LEMMA CastReleased ==
    ASSUME PortsInv, Released("cast"), Spoils
    PROVE  /\ PortsInv'
           /\ \/ Cast.at = "sweep" /\ Cast'.at = "open"
              \/ Cast.at = "undo" /\ Cast'.at = "failed"
              \/ Cast.at = "close" /\ Cast' = Idle
<1>1. Sets /\ Both /\ Books
  BY PortsInvSplit
<1>2. /\ Cast.at \in {"sweep", "undo", "close"} /\ UNCHANGED <<open, theirs>>
      /\ \/ /\ Cast.todo = {} /\ UNCHANGED refused
            /\ record' = IF Cast.complete /\ record = Cast.lease THEN {} ELSE record
         \/ Refused /\ UNCHANGED record
      /\ fw' = [fw EXCEPT !["cast"] = AfterRelease("cast")]
  BY Zenon DEF Released, Releasing, Cast
<1>3. \/ UNCHANGED <<refused, spoiled>>
      \/ refused' \in Nat /\ spoiled' = TRUE /\ UNCHANGED record
  BY <1>1, <1>2, Spoilt, Unspoilt
<1>4. PICK at \in {"open", "failed", "idle"}, R \in SUBSET Ports :
          /\ AfterRelease("cast") = Holding(at, {}, R)
          /\ \/ Cast.at = "sweep" /\ at = "open"
             \/ Cast.at = "undo" /\ at = "failed"
             \/ Cast.at = "close" /\ at = "idle" /\ R = {}
  <2>1. {} \in SUBSET Ports /\ Ports \in SUBSET Ports
    OBVIOUS
  <2>2. CASE Cast.at = "sweep"
    BY <2>1, <2>2, Zenon DEF AfterRelease, Opening, Cast
  <2>3. CASE Cast.at = "undo"
    <3>1. fw["cast"].at # "sweep" /\ fw["cast"].at = "undo"
      BY <2>3 DEF Cast
    <3>2. AfterRelease("cast") = Failed
      BY <3>1, Zenon DEF AfterRelease
    <3>. QED
      BY <2>1, <2>3, <3>2, Zenon DEF Failed
  <2>4. CASE Cast.at = "close"
    <3>1. fw["cast"].at # "sweep" /\ fw["cast"].at # "undo"
      BY <2>4 DEF Cast
    <3>2. AfterRelease("cast") = Idle
      BY <3>1, Zenon DEF AfterRelease
    <3>. QED
      BY <2>1, <2>4, <3>2, Zenon DEF Idle
  <2>. QED
    BY <1>2, <2>2, <2>3, <2>4
<1>. DEFINE x == AfterRelease("cast")
<1>5. x \in Task /\ x.at = at /\ x.lease = {}
  <2>1. /\ Holding(at, {}, R) \in Task
        /\ Holding(at, {}, R).at = at /\ Holding(at, {}, R).lease = {}
    BY DEF Holding, Task, Places
  <2>. QED
    BY <1>4, <2>1, Zenon
<1>6. at = "idle" => x = Idle
  BY <1>4, Zenon DEF Idle
<1>. HIDE DEF x
<1>7. Cast' = x /\ Boot' = Boot /\ fw' \in [Procs -> Task]
  BY <1>1, <1>2, <1>5, CastMoves DEF Sets, x
<1>8. Sets'
  BY <1>1, <1>2, <1>3, <1>7 DEF Sets
<1>9. Both'
  <2>1. Idle' = Idle
    BY DEF Idle
  <2>. QED
    BY <1>1, <1>2, <1>4, <1>5, <1>6, <1>7, <2>1 DEF Both
<1>10. Books'
  <2>1. CASE /\ Cast.todo = {} /\ UNCHANGED <<refused, spoiled>>
             /\ record' = IF Cast.complete /\ record = Cast.lease THEN {} ELSE record
    BY <1>1, <1>2, <1>4, <1>5, <1>7, <2>1
       DEF Sets, Both, Books, OpenIsKnown, RecordHasOwner, Held
  <2>2. CASE spoiled' = TRUE
    BY <2>2 DEF Books
  <2>. QED
    BY <1>1, <1>2, <1>3, <2>1, <2>2, Spoilt
<1>. QED
  BY <1>4, <1>5, <1>6, <1>7, <1>8, <1>9, <1>10, PortsInvJoin

LEMMA BootReleased ==
    ASSUME PortsInv, Released("boot"), Spoils
    PROVE  PortsInv' /\ Cast' = Cast
<1>1. Sets /\ Both /\ Books
  BY PortsInvSplit
<1>2. /\ Boot.at = "sweep" /\ UNCHANGED <<open, theirs>>
      /\ \/ /\ Boot.todo = {} /\ UNCHANGED refused
            /\ record' = IF Boot.complete /\ record = Boot.lease THEN {} ELSE record
         \/ Refused /\ UNCHANGED record
      /\ fw' = [fw EXCEPT !["boot"] = AfterRelease("boot")]
  <2>1. Boot.at \in {"sweep", "undo", "close"}
    BY Zenon DEF Released, Releasing, Boot
  <2>. QED
    BY <1>1, <2>1, Zenon DEF Both, Released, Boot
<1>3. AfterRelease("boot") = Idle
  BY <1>2 DEF AfterRelease, Boot
<1>4. Idle \in Task /\ Idle.at = "idle" /\ Idle.lease = {} /\ Idle' = Idle
  BY DEF Idle, Holding, Task, Places
<1>5. Boot' = Idle /\ Cast' = Cast /\ fw' \in [Procs -> Task]
  BY <1>1, <1>2, <1>3, <1>4, BootMoves DEF Sets
<1>6. \/ UNCHANGED <<refused, spoiled>>
      \/ refused' \in Nat /\ UNCHANGED record /\ (spoiled' = IF Cast.at # "open" THEN TRUE ELSE spoiled)
  BY <1>1, <1>2, Spoilt, Unspoilt
<1>7. Sets'
  BY <1>1, <1>2, <1>5, <1>6 DEF Sets
<1>8. Both'
  BY <1>1, <1>2, <1>4, <1>5 DEF Both
<1>9. Books'
  <2>1. CASE /\ Boot.todo = {} /\ UNCHANGED <<refused, spoiled>>
             /\ record' = IF Boot.complete /\ record = Boot.lease THEN {} ELSE record
    BY <1>1, <1>2, <1>4, <1>5, <2>1 DEF Sets, Both, Books, OpenIsKnown, RecordHasOwner, Held
  <2>2. CASE UNCHANGED record /\ (spoiled' = IF Cast.at # "open" THEN TRUE ELSE spoiled)
    BY <1>1, <1>2, <1>4, <1>5, <2>2 DEF Sets, Both, Books, OpenIsKnown, RecordHasOwner, Held
  <2>. QED
    BY <1>1, <1>2, <2>1, <2>2, Spoilt, Unspoilt
<1>. QED
  BY <1>5, <1>7, <1>8, <1>9, PortsInvJoin

LEMMA ReloadKeeps ==
    ASSUME PortsInv, Reload, UNCHANGED spoiled
    PROVE  PortsInv' /\ Cast' = Cast
<1>1. Sets /\ Both /\ Books
  BY PortsInvSplit
<1>2. Cast' = Cast /\ Boot' = Boot /\ open' = theirs /\ UNCHANGED <<theirs, record, fw, refused, spoiled>>
  BY DEF Reload, Cast, Boot
<1>3. Sets' /\ Both'
  BY <1>1, <1>2 DEF Sets, Both, Idle
<1>4. Books'
  BY <1>1, <1>2 DEF Sets, Both, Books, OpenIsKnown, RecordHasOwner, Held
<1>. QED
  BY <1>2, <1>3, <1>4, PortsInvJoin

LEMMA RestartKeeps ==
    ASSUME PortsInv, FirewallRestarts, spoiled' = (spoiled \/ ~(open \ theirs \subseteq record))
    PROVE  PortsInv' /\ Cast' = Idle
<1>1. Sets /\ Both /\ Books
  BY PortsInvSplit
<1>2. Idle \in Task /\ Idle.at = "idle" /\ Idle.lease = {} /\ Idle' = Idle
  BY DEF Idle, Holding, Task, Places
<1>. DEFINE x == IF record # {} THEN Closing("sweep", record) ELSE Idle
<1>3. /\ x \in Task /\ x.lease = record
      /\ (x.at = "idle" /\ x = Idle) \/ (x.at = "sweep" /\ x.todo = record /\ x.complete)
      /\ x.at = "idle" => record = {}
  BY <1>1, <1>2 DEF Sets, Closing, Holding, Task, Places
<1>4. fw' = [p \in Procs |-> IF p = "boot" THEN x ELSE Idle]
  <2>1. \A p \in Procs : (IF p = "boot" /\ record # {} THEN Closing("sweep", record) ELSE Idle)
                            = (IF p = "boot" THEN x ELSE Idle)
    OBVIOUS
  <2>. QED
    BY <2>1, Zenon DEF FirewallRestarts
<1>. HIDE DEF x
<1>5. Cast' = Idle /\ Boot' = x /\ fw' \in [Procs -> Task]
  BY <1>2, <1>3, <1>4 DEF Cast, Boot, Procs
<1>6. UNCHANGED <<open, theirs, record, refused>>
  BY DEF FirewallRestarts
<1>7. Sets'
  BY <1>1, <1>5, <1>6 DEF Sets
<1>8. Both'
  BY <1>1, <1>2, <1>3, <1>5, <1>6 DEF Sets, Both
<1>9. Books'
  BY <1>1, <1>2, <1>3, <1>5, <1>6 DEF Sets, Both, Books, OpenIsKnown, RecordHasOwner, Held
<1>. QED
  BY <1>5, <1>7, <1>8, <1>9, PortsInvJoin

(* A refusal outside the firewall, and a step that leaves it alone.        *)
LEMMA RefusingKeeps ==
    ASSUME PortsInv, Refusing
    PROVE  PortsInv' /\ Cast' = Cast
<1>1. Sets /\ Both /\ Books
  BY PortsInvSplit
<1>2. /\ Cast' = Cast /\ Boot' = Boot /\ spoiled' = TRUE /\ refused' \in Nat
      /\ UNCHANGED <<open, theirs, record, fw>>
  BY <1>1 DEF Refusing, Refused, Cast, Boot, Sets
<1>3. Sets' /\ Both' /\ Books'
  BY <1>1, <1>2 DEF Sets, Both, Books, Idle
<1>. QED
  BY <1>2, <1>3, PortsInvJoin

LEMMA FirewallAlone ==
    ASSUME PortsInv, UNCHANGED <<firewall, spoiled>>
    PROVE  PortsInv' /\ Cast' = Cast
BY DEF PortsInv, PortsTyped, OursOnly, Shapes, Accounted, OpenIsKnown, DoneIsClosed, RecordHasOwner,
       Held, Releasing, Cast, Boot, firewall, Idle

-----------------------------------------------------------------------------
(* The session: one lemma for each action.  In each, the firewall's part   *)
(* comes from the lemmas above. *)

LEMMA Tried ==
    ASSUME NEW n \in 1..(ConnectAttempts + 1)
    PROVE  /\ Try(n) \in [at : {"asking", "cancelled", "failed"}, try : 0..ConnectAttempts,
                           cancelled : BOOLEAN]
<1>1. ConnectAttempts \in Nat
  BY ConnectAssumption
<1>2. (IF n > ConnectAttempts THEN ConnectAttempts ELSE n) \in 0..ConnectAttempts
  BY <1>1
<1>3. (CASE n > ConnectAttempts -> "failed"
         [] n <= ConnectAttempts /\ cancel -> "cancelled"
         [] n <= ConnectAttempts /\ ~cancel -> "asking") \in {"asking", "cancelled", "failed"}
  BY <1>1
<1>. QED
  BY <1>2, <1>3, Zenon DEF Try

LEMMA Starts ==
    /\ NoSession \in Sessions /\ NoSession.at = "idle"
    /\ [NoSession EXCEPT !.at = "opening"] \in Sessions
    /\ [NoSession EXCEPT !.at = "opening"].at = "opening"
    /\ NoJoin \in Joins
<1>1. 0 \in 0..ConnectAttempts
  BY ConnectAssumption
<1>2. NoSession \in Sessions /\ NoSession.at = "idle"
  BY DEF NoSession, Sessions
<1>3. [NoSession EXCEPT !.at = "opening"] \in Sessions
  BY <1>2 DEF Sessions
<1>4. [NoSession EXCEPT !.at = "opening"].at = "opening"
  BY DEF NoSession
<1>5. NoJoin \in Joins
  BY <1>1 DEF NoJoin, Joins
<1>. QED
  BY <1>2, <1>3, <1>4, <1>5

LEMMA NextAttemptKeeps ==
    ASSUME CastInv, NEW n \in Nat, ses.at \in {"opening", "pausing"}, NextAttempt(n),
           UNCHANGED <<firewall, nm, cancel, rtsp, pipe, quiet, casts, External>>
    PROVE  CastInv'
<1>1. PortsInv' /\ Cast' = Cast /\ UNCHANGED <<nm, cancel, quiet, spoiled>>
  BY FirewallAlone DEF CastInv, External
<1>2. CASE cancel
  <2>1. ses'.at = "idle" /\ ses' = NoSession /\ slot' = FALSE /\ wd' = wd
    BY <1>2 DEF NextAttempt, Finish, NoSession
  <2>2. SessionTyped'
    BY <1>1, <2>1 DEF CastInv, SessionInv, SessionTyped, Sessions, Joins, NoSession
  <2>3. Stages' /\ GroupGone' /\ RadioFree' /\ SlotOrCancel'
    BY <1>1, <2>1 DEF CastInv, SessionInv, Stages, GroupGone, NoGroup, RadioFree, SlotOrCancel, Idle
  <2>. QED
    BY <1>1, <2>2, <2>3 DEF CastInv, SessionInv
<1>3. CASE ~cancel
  <2>1. /\ ses' = [at |-> "joining", attempt |-> n, outcome |-> "none"] /\ ses'.at = "joining"
        /\ slot' = slot /\ wd' = Try(1)
    BY <1>3 DEF NextAttempt
  <2>2. /\ wd' \in [at : {"asking", "cancelled", "failed"}, try : 0..ConnectAttempts,
                     cancelled : BOOLEAN]
        /\ wd'.at \in {"asking", "cancelled", "failed"}
    <3>1. 1 \in 1..(ConnectAttempts + 1)
      BY ConnectAssumption
    <3>. QED
      BY <2>1, <3>1, Tried
  <2>3. SessionTyped'
    BY <1>1, <2>1, <2>2 DEF CastInv, SessionInv, SessionTyped, Sessions, Joins
  <2>4. Stages' /\ GroupGone' /\ RadioFree' /\ SlotOrCancel'
    BY <1>1, <2>1, <2>2 DEF CastInv, SessionInv, Stages, GroupGone, NoGroup, RadioFree, SlotOrCancel, Idle
  <2>. QED
    BY <1>1, <2>3, <2>4 DEF CastInv, SessionInv
<1>. QED
  BY <1>2, <1>3

LEMMA InitKeeps == Init => CastInv
<1>. SUFFICES ASSUME Init PROVE CastInv
  OBVIOUS
<1>1. /\ open = theirs /\ theirs \subseteq Ports /\ record = {} /\ refused = 0 /\ spoiled = FALSE
      /\ Cast = Idle /\ Boot = Idle /\ fw \in [Procs -> Task]
  <2>1. Idle \in Task
    BY DEF Idle, Holding, Task, Places
  <2>. QED
    BY <2>1, FirewallAssumption DEF Init, FirewallInit, Cast, Boot, Procs
<1>2. \A p \in Procs : fw[p] = Idle /\ fw[p].at = "idle" /\ fw[p].lease = {}
  <2>1. Idle.at = "idle" /\ Idle.lease = {}
    BY DEF Idle, Holding
  <2>2. \A p \in Procs : fw[p] = Idle
    BY <1>1 DEF Cast, Boot, Procs
  <2>. QED
    BY <2>1, <2>2
<1>3. PortsInv
  BY <1>1, <1>2 DEF PortsInv, PortsTyped, OursOnly, Shapes, Accounted, OpenIsKnown, DoneIsClosed,
                    RecordHasOwner, Releasing, Cast, Boot, Procs
<1>4. SessionTyped
  BY Starts DEF Init, WifiInit, SessionTyped
<1>5. Stages /\ GroupGone /\ RadioFree /\ SlotOrCancel
  BY <1>1, Starts DEF Init, WifiInit, Stages, GroupGone, NoGroup, RadioFree, SlotOrCancel
<1>. QED
  BY <1>3, <1>4, <1>5 DEF CastInv, SessionInv

LEMMA StartKeeps ==
    ASSUME CastInv, StartStream
    PROVE  CastInv'
<1>1. PortsInv' /\ Cast' = Cast
  BY FirewallAlone DEF CastInv, StartStream, External
<1>2. ses' = [NoSession EXCEPT !.at = "opening"] /\ ses'.at = "opening" /\ slot' = TRUE /\ cancel' = FALSE
  BY DEF StartStream, NoSession
<1>3. SessionTyped'
  BY <1>2, Starts DEF StartStream, wifi, CastInv, SessionInv, SessionTyped
<1>4. Stages' /\ GroupGone' /\ RadioFree' /\ SlotOrCancel'
  BY <1>1, <1>2 DEF StartStream, wifi, External, CastInv, SessionInv, Stages, GroupGone, NoGroup,
                    RadioFree, SlotOrCancel, Idle
<1>. QED
  BY <1>1, <1>3, <1>4 DEF CastInv, SessionInv

LEMMA StopKeeps ==
    ASSUME CastInv, StopStream
    PROVE  CastInv'
<1>1. PortsInv' /\ Cast' = Cast
  BY FirewallAlone DEF CastInv, StopStream, External
<1>2. slot' = FALSE /\ cancel' = TRUE
  BY DEF StopStream, CastInv, SessionInv, SlotOrCancel, SessionTyped, Sessions, Joins
<1>3. SessionTyped'
  BY <1>2 DEF StopStream, wifi, CastInv, SessionInv, SessionTyped, Sessions, Joins
<1>4. Stages' /\ GroupGone' /\ RadioFree' /\ SlotOrCancel'
  BY <1>1, <1>2 DEF StopStream, wifi, External, CastInv, SessionInv, Stages, GroupGone, NoGroup,
                    RadioFree, SlotOrCancel, Idle
<1>. QED
  BY <1>1, <1>3, <1>4 DEF CastInv, SessionInv

LEMMA FinishFrom ==
    ASSUME CastInv, PortsInv', Cast = Idle, Cast' = Cast, NEW ok, Finish(ok),
           wd' \in {wd, NoJoin}, cancel' = cancel, nm' = "none" \/ spoiled',
           quiet' = FALSE
    PROVE  CastInv'
<1>1. ses' = NoSession /\ ses'.at = "idle" /\ slot' = FALSE
  BY DEF Finish, NoSession
<1>2. SessionTyped'
  <2>1. Sessions' = Sessions /\ Joins' = Joins /\ NoJoin' = NoJoin
    BY DEF Sessions, Joins, NoJoin
  <2>. QED
    BY <1>1, <2>1, Starts DEF CastInv, SessionInv, SessionTyped
<1>3. Stages' /\ GroupGone' /\ RadioFree' /\ SlotOrCancel'
  BY <1>1 DEF Stages, GroupGone, NoGroup, RadioFree, SlotOrCancel, Idle
<1>. QED
  BY <1>2, <1>3 DEF CastInv, SessionInv

LEMMA OpenDeviceKeeps ==
    ASSUME CastInv, OpenDevice
    PROVE  CastInv'
<1>1. CASE NextAttempt(1)
  BY <1>1, NextAttemptKeeps DEF OpenDevice
<1>2. CASE Finish(FALSE) /\ UNCHANGED wd
  <2>1. PortsInv' /\ Cast' = Cast /\ Cast = Idle
    BY FirewallAlone DEF CastInv, SessionInv, Stages, OpenDevice, External
  <2>2. cancel' = cancel /\ (nm' = "none" \/ spoiled') /\ quiet' = FALSE
    BY DEF OpenDevice, External, CastInv, SessionInv, SessionTyped, Sessions, Joins, GroupGone, NoGroup, RadioFree
  <2>. QED
    BY <1>2, <2>1, <2>2, FinishFrom
<1>. QED
  BY <1>1, <1>2 DEF OpenDevice

LEMMA PauseKeeps ==
    ASSUME CastInv, Pause
    PROVE  CastInv'
<1>1. ses.attempt + 1 \in Nat
  BY DEF CastInv, SessionInv, SessionTyped, Sessions, Joins
<1>. QED
  BY <1>1, NextAttemptKeeps DEF Pause

LEMMA JoiningKeeps ==
    ASSUME CastInv, Joining
    PROVE  CastInv'
<1>1. PortsInv' /\ Cast' = Cast
  BY FirewallAlone DEF CastInv, Joining, External
<1>2. ses.at = "joining" /\ UNCHANGED <<ses, slot, quiet, spoiled>>
  BY DEF Joining, session, External
<1>3. wd' \in Joins /\ UNCHANGED cancel /\ GroupGone'
  <2>1. wd.try + 1 \in 1..(ConnectAttempts + 1)
    BY ConnectAssumption DEF CastInv, SessionInv, SessionTyped, Sessions, Joins
  <2>. DEFINE t == Try(wd.try + 1)
  <2>2. /\ t \in [at : {"asking", "cancelled", "failed"}, try : 0..ConnectAttempts,
                   cancelled : BOOLEAN]
        /\ t.at \in {"asking", "cancelled", "failed"}
    BY <2>1, Tried
  <2>. HIDE DEF t
  <2>3. CASE Connect
    BY <1>2, <2>2, <2>3 DEF Connect, t, CastInv, SessionInv, SessionTyped, Sessions, Joins, GroupGone, NoGroup
  <2>4. CASE Poll
    BY <1>2, <2>4 DEF Poll, CastInv, SessionInv, SessionTyped, Sessions, Joins, GroupGone, NoGroup
  <2>5. CASE Drop(FALSE)
    BY <1>2, <2>5 DEF Drop, TearsDown, CastInv, SessionInv, SessionTyped, Sessions, Joins, GroupGone, NoGroup
  <2>6. CASE Settle
    BY <1>2, <2>2, <2>6 DEF Settle, t, CastInv, SessionInv, SessionTyped, Sessions, Joins, GroupGone, NoGroup
  <2>. QED
    BY <2>3, <2>4, <2>5, <2>6 DEF Joining, JoinSteps
<1>4. SessionTyped' /\ Stages' /\ RadioFree' /\ SlotOrCancel'
  BY <1>1, <1>2, <1>3 DEF CastInv, SessionInv, SessionTyped, Sessions, Joins, Stages, RadioFree, SlotOrCancel, Idle
<1>. QED
  BY <1>1, <1>3, <1>4 DEF CastInv, SessionInv

LEMMA DropRefusedKeeps ==
    ASSUME CastInv, DropRefused
    PROVE  CastInv'
<1>1. PortsInv' /\ Cast' = Cast /\ spoiled' = TRUE
  BY RefusingKeeps DEF CastInv, DropRefused, Refusing
<1>2. wd' \in Joins /\ UNCHANGED <<ses, slot, quiet, cancel>>
  BY DEF DropRefused, Drop, session, CastInv, SessionInv, SessionTyped, Joins
<1>3. SessionTyped' /\ Stages' /\ GroupGone' /\ RadioFree' /\ SlotOrCancel'
  BY <1>1, <1>2 DEF CastInv, SessionInv, SessionTyped, Sessions, Joins, Stages, GroupGone,
                    RadioFree, SlotOrCancel, Idle
<1>. QED
  BY <1>1, <1>3 DEF CastInv, SessionInv

LEMMA JoinEndsKeeps ==
    ASSUME CastInv, JoinEnds
    PROVE  CastInv'
<1>1. PortsInv' /\ Cast' = Cast /\ Cast = Idle
  BY FirewallAlone DEF CastInv, SessionInv, Stages, JoinEnds, External
<1>2. cancel' = cancel /\ (nm' = "none" \/ spoiled') /\ quiet' = FALSE
  BY DEF JoinEnds, External, CastInv, SessionInv, SessionTyped, GroupGone, NoGroup, RadioFree
<1>. QED
  BY <1>1, <1>2, FinishFrom DEF JoinEnds

(* The session moves on with its group, and its radio, held.               *)
LEMMA MovesOn ==
    ASSUME CastInv, PortsInv', Stages', NEW at \in {"firewall", "listening", "rtsp", "closing", "leaving"},
           ses' \in Sessions, ses'.at = at, ses.at \notin {"idle"}, wd' \in {wd, NoJoin},
           quiet' \in BOOLEAN, UNCHANGED <<cancel, slot>>
    PROVE  CastInv'
<1>1. SessionTyped'
  <2>1. Sessions' = Sessions /\ Joins' = Joins /\ NoJoin' = NoJoin
    BY DEF Sessions, Joins, NoJoin
  <2>. QED
    BY <2>1, Starts DEF CastInv, SessionInv, SessionTyped
<1>2. GroupGone' /\ RadioFree' /\ SlotOrCancel'
  BY DEF CastInv, SessionInv, GroupGone, NoGroup, RadioFree, SlotOrCancel
<1>. QED
  BY <1>1, <1>2 DEF CastInv, SessionInv

LEMMA JoinedKeeps ==
    ASSUME CastInv, Joined
    PROVE  CastInv'
<1>1. /\ ses.at = "joining" /\ Cast = Idle /\ ses \in Sessions /\ quiet \in BOOLEAN
      /\ wd' = NoJoin /\ UNCHANGED <<cancel, slot, spoiled>>
  BY DEF Joined, External, CastInv, SessionInv, Stages, SessionTyped
<1>2. CASE /\ ses' = [ses EXCEPT !.at = "leaving", !.outcome = "ok"]
           /\ UNCHANGED <<firewall, status, quiet>>
  <2>1. PortsInv' /\ Cast' = Cast
    BY <1>1, <1>2, FirewallAlone DEF CastInv
  <2>2. ses' \in Sessions /\ ses'.at = "leaving"
    BY <1>1, <1>2 DEF Sessions
  <2>3. Stages'
    BY <1>1, <2>1, <2>2 DEF Stages, Idle
  <2>. QED
    BY <1>1, <1>2, <2>1, <2>2, <2>3, MovesOn
<1>3. CASE ses' = [ses EXCEPT !.at = "firewall"] /\ quiet' = TRUE /\ EnsurePortsOpen
  <2>1. PortsInv' /\ Cast'.at \in {"open", "sweep", "opened", "failed"}
    BY <1>1, <1>3, EnsureKeeps DEF CastInv
  <2>2. ses' \in Sessions /\ ses'.at = "firewall"
    BY <1>1, <1>3 DEF Sessions
  <2>3. Stages'
    BY <2>1, <2>2 DEF Stages
  <2>. QED
    BY <1>1, <1>3, <2>1, <2>2, <2>3, MovesOn
<1>. QED
  BY <1>2, <1>3 DEF Joined

LEMMA ClosesKeeps ==
    ASSUME CastInv, NEW outcome \in {"ok", "never", "error"}, Closes(outcome), Cast.at = "opened",
           ses.at # "idle", UNCHANGED <<wifi, cancel, slot, quiet, External>>
    PROVE  CastInv'
<1>1. PortsInv' /\ Cast'.at \in {"close", "idle"} /\ Release
  BY ReleaseKeeps DEF CastInv, Closes, External
<1>2. ses' \in Sessions /\ ses'.at = "closing"
  BY DEF Closes, CastInv, SessionInv, SessionTyped, Sessions
<1>3. Stages'
  BY <1>1, <1>2 DEF Stages
<1>4. wd' = wd /\ quiet' \in BOOLEAN
  BY DEF wifi, CastInv, SessionInv, SessionTyped
<1>. QED
  BY <1>1, <1>2, <1>3, <1>4, MovesOn

LEMMA ListensKeeps ==
    ASSUME CastInv, Listens
    PROVE  CastInv'
<1>1. /\ ses.at = "firewall" /\ ses \in Sessions /\ quiet' \in BOOLEAN /\ wd' = wd
      /\ UNCHANGED <<wifi, cancel, slot, quiet, spoiled, External>>
  BY DEF Listens, External, wifi, CastInv, SessionInv, SessionTyped
<1>2. CASE /\ Cast.at = "failed" /\ fw' = [fw EXCEPT !["cast"] = Idle]
           /\ ses' = [ses EXCEPT !.at = "leaving", !.outcome = "error"]
           /\ UNCHANGED <<open, theirs, record, refused>>
  <2>1. PortsInv' /\ Cast' = Idle
    BY <1>1, <1>2, FailedKeeps DEF CastInv
  <2>2. ses' \in Sessions /\ ses'.at = "leaving"
    BY <1>1, <1>2 DEF Sessions
  <2>3. Stages'
    BY <2>1, <2>2 DEF Stages, Idle
  <2>. QED
    BY <1>1, <2>1, <2>2, <2>3, MovesOn
<1>3. CASE Cast.at = "opened" /\ \E outcome \in {"ok", "error"} : Closes(outcome)
  BY <1>1, <1>3, ClosesKeeps
<1>4. CASE /\ Cast.at = "opened" /\ ses' = [ses EXCEPT !.at = "listening"]
           /\ UNCHANGED <<firewall, rtsp, pipe>>
  <2>1. PortsInv' /\ Cast' = Cast
    BY <1>1, <1>4, FirewallAlone DEF CastInv
  <2>2. ses' \in Sessions /\ ses'.at = "listening"
    BY <1>1, <1>4 DEF Sessions
  <2>3. Stages'
    BY <1>4, <2>1, <2>2 DEF Stages
  <2>. QED
    BY <1>1, <2>1, <2>2, <2>3, MovesOn
<1>. QED
  BY <1>2, <1>3, <1>4 DEF Listens, Cast

LEMMA ReceiverConnectsKeeps ==
    ASSUME CastInv, ReceiverConnects
    PROVE  CastInv'
<1>1. /\ ses.at = "listening" /\ ses \in Sessions /\ quiet' \in BOOLEAN /\ wd' = wd
      /\ Cast.at = "opened" /\ UNCHANGED <<cancel, slot>>
  BY DEF ReceiverConnects, wifi, CastInv, SessionInv, SessionTyped, Stages
<1>2. PortsInv' /\ Cast' = Cast
  BY FirewallAlone DEF CastInv, ReceiverConnects, External
<1>3. ses' \in Sessions /\ ses'.at = "rtsp"
  BY <1>1 DEF ReceiverConnects, Sessions
<1>4. Stages'
  BY <1>1, <1>2, <1>3 DEF Stages
<1>. QED
  BY <1>1, <1>2, <1>3, <1>4, MovesOn

LEMMA ClosingKeeps ==
    ASSUME CastInv, NeverConnects \/ ServeCancelled \/ StreamEnds
    PROVE  CastInv'
<1>1. PICK outcome \in {"ok", "never", "error"} : Closes(outcome)
  BY DEF NeverConnects, ServeCancelled, StreamEnds
<1>2. ses.at \in {"listening", "rtsp"} /\ UNCHANGED <<wifi, cancel, slot, quiet, External>>
  BY DEF NeverConnects, ServeCancelled, StreamEnds
<1>3. Cast.at = "opened"
  BY <1>2 DEF CastInv, SessionInv, Stages
<1>. QED
  BY <1>1, <1>2, <1>3, ClosesKeeps

(* A step that leaves the firewall, the group and the session alone.       *)
LEMMA Alone ==
    ASSUME CastInv, UNCHANGED <<firewall, wd, nm, cancel, ses, slot, quiet, spoiled>>
    PROVE  CastInv'
<1>1. PortsInv' /\ Cast' = Cast
  BY FirewallAlone DEF CastInv
<1>2. SessionInv'
  BY <1>1 DEF CastInv, SessionInv, SessionTyped, Sessions, Joins, Stages, GroupGone, NoGroup,
              RadioFree, SlotOrCancel, Idle
<1>. QED
  BY <1>1, <1>2 DEF CastInv

LEMMA FirewallingKeeps ==
    ASSUME CastInv, Firewalling
    PROVE  CastInv'
<1>1. /\ UNCHANGED <<wd, nm, cancel, ses, slot, quiet>> /\ Spoils
      /\ FirewallSteps /\ Sets
  BY PortsInvSplit DEF Firewalling, wifi, session, Spoils, CastInv
<1>2. /\ PortsInv'
      /\ \/ Cast' = Cast
         \/ Cast.at = "open" /\ Cast'.at \in {"open", "note", "failed", "undo", "opened"}
         \/ Cast.at = "note" /\ Cast'.at = "open"
         \/ Cast.at \in {"sweep", "undo", "close"} /\ Cast'.at = Cast.at
         \/ Cast.at = "sweep" /\ Cast'.at = "open"
         \/ Cast.at = "undo" /\ Cast'.at = "failed"
         \/ Cast.at = "close" /\ Cast' = Idle
  <2>1. CASE Remember
    BY <1>1, <2>1, RememberKeeps DEF CastInv
  <2>2. CASE PortsOpened
    BY <1>1, <2>2, OpenedKeeps DEF CastInv
  <2>3. CASE OpensPort
    <3>1. Cast.at = "open" /\ fw["cast"].at = "open"
      BY <2>3 DEF OpensPort, Cast
    <3>2. spoiled' = spoiled
      BY <1>1, <3>1, Zenon DEF Spoils, Sets
    <3>. QED
      BY <2>3, <3>2, OpensKeeps DEF CastInv
  <2>4. CASE ClosesPort("cast")
    BY <1>1, <2>4, CastCloses DEF CastInv
  <2>5. CASE ClosesPort("boot")
    BY <1>1, <2>5, BootCloses DEF CastInv
  <2>6. CASE Released("cast")
    BY <1>1, <2>6, CastReleased DEF CastInv
  <2>7. CASE Released("boot")
    BY <1>1, <2>7, BootReleased DEF CastInv
  <2>. QED
    BY <1>1, <2>1, <2>2, <2>3, <2>4, <2>5, <2>6, <2>7 DEF FirewallSteps, Procs
<1>3. Cast.at = "idle" => Cast = Idle
  BY PortsInvSplit DEF CastInv, Both
<1>4. SessionTyped' /\ RadioFree' /\ SlotOrCancel'
  BY <1>1 DEF CastInv, SessionInv, SessionTyped, Sessions, Joins, RadioFree, SlotOrCancel
<1>5. Stages'
  <2>1. Idle' = Idle /\ Idle.at = "idle"
    BY DEF Idle, Holding
  <2>. QED
    BY <1>1, <1>2, <1>3, <2>1 DEF CastInv, SessionInv, Stages
<1>6. GroupGone'
  <2>1. ~spoiled' => ~spoiled
    BY <1>1, Zenon DEF Spoils
  <2>. QED
    BY <1>1, <2>1 DEF CastInv, SessionInv, GroupGone, NoGroup
<1>. QED
  BY <1>2, <1>4, <1>5, <1>6 DEF CastInv, SessionInv

LEMMA PortsReleasedKeeps ==
    ASSUME CastInv, PortsReleased
    PROVE  CastInv'
<1>1. /\ ses.at = "closing" /\ ses \in Sessions /\ quiet' \in BOOLEAN /\ wd' = wd
      /\ Cast = Idle /\ UNCHANGED <<cancel, slot>>
  BY DEF PortsReleased, wifi, CastInv, SessionInv, SessionTyped, Cast
<1>2. PortsInv' /\ Cast' = Cast
  BY FirewallAlone DEF CastInv, PortsReleased, External
<1>3. ses' \in Sessions /\ ses'.at = "leaving"
  BY <1>1 DEF PortsReleased, Sessions
<1>4. Stages'
  BY <1>1, <1>2, <1>3 DEF Stages, Idle
<1>. QED
  BY <1>1, <1>2, <1>3, <1>4, MovesOn

LEMMA LeaveGroupKeeps ==
    ASSUME CastInv, LeaveGroup
    PROVE  CastInv'
<1>1. PICK refusal \in BOOLEAN :
        /\ TearsDown(refusal)
        /\ IF refusal THEN Refusing ELSE UNCHANGED <<firewall, External>>
        /\ \/ \E ok \in BOOLEAN : Finish(ok)
           \/ ses' = [ses EXCEPT !.at = "pausing"] /\ UNCHANGED slot
  BY DEF LeaveGroup
<1>2. /\ ses.at = "leaving" /\ Cast = Idle /\ ses \in Sessions
      /\ quiet' = FALSE /\ UNCHANGED <<wd, cancel>>
  BY DEF LeaveGroup, CastInv, SessionInv, Stages, SessionTyped
<1>3. PortsInv' /\ Cast' = Cast /\ (nm' = "none" \/ spoiled')
  <2>1. CASE refusal
    BY <1>1, <2>1, RefusingKeeps DEF CastInv, Refusing
  <2>2. CASE ~refusal
    BY <1>1, <2>2, FirewallAlone DEF CastInv, External, TearsDown
  <2>. QED
    BY <2>1, <2>2
<1>4. CASE \E ok \in BOOLEAN : Finish(ok)
  BY <1>2, <1>3, <1>4, FinishFrom
<1>5. CASE ses' = [ses EXCEPT !.at = "pausing"] /\ UNCHANGED slot
  <2>1. ses' \in Sessions /\ ses'.at = "pausing"
    BY <1>2, <1>5 DEF Sessions
  <2>2. SessionTyped'
    BY <1>2, <1>5, <2>1 DEF CastInv, SessionInv, SessionTyped, Sessions, Joins
  <2>3. Stages' /\ GroupGone' /\ RadioFree' /\ SlotOrCancel'
    BY <1>2, <1>3, <1>5, <2>1
       DEF CastInv, SessionInv, Stages, GroupGone, NoGroup, RadioFree, SlotOrCancel, Idle
  <2>. QED
    BY <1>3, <2>2, <2>3 DEF CastInv, SessionInv
<1>. QED
  BY <1>1, <1>4, <1>5

LEMMA NetworkKeeps ==
    ASSUME CastInv, NetworkMoves
    PROVE  CastInv'
<1>1. PortsInv' /\ Cast' = Cast /\ UNCHANGED <<wd, cancel, ses, slot, quiet, spoiled>>
  BY FirewallAlone DEF CastInv, NetworkMoves, GroupMoves, External, session
<1>2. GroupGone'
  BY <1>1 DEF NetworkMoves, GroupMoves, CastInv, SessionInv, GroupGone, NoGroup
<1>3. SessionTyped' /\ Stages' /\ RadioFree' /\ SlotOrCancel'
  BY <1>1 DEF CastInv, SessionInv, SessionTyped, Sessions, Joins, Stages, RadioFree, SlotOrCancel, Idle
<1>. QED
  BY <1>1, <1>2, <1>3 DEF CastInv, SessionInv

LEMMA ReloadsKeeps ==
    ASSUME CastInv, FirewallReloads
    PROVE  CastInv'
<1>1. PortsInv' /\ Cast' = Cast /\ UNCHANGED <<wd, nm, cancel, ses, slot, quiet, spoiled>>
  BY ReloadKeeps DEF CastInv, FirewallReloads, External, session, wifi
<1>2. SessionInv'
  BY <1>1 DEF CastInv, SessionInv, SessionTyped, Sessions, Joins, Stages, GroupGone, NoGroup,
              RadioFree, SlotOrCancel, Idle
<1>. QED
  BY <1>1, <1>2 DEF CastInv

LEMMA CrashKeeps ==
    ASSUME CastInv, Crash
    PROVE  CastInv'
<1>1. PortsInv' /\ Cast' = Idle
  BY RestartKeeps DEF CastInv, Crash
<1>2. /\ wd' = NoJoin /\ nm' = "none" /\ ses' = NoSession /\ slot' = FALSE
      /\ quiet' = FALSE /\ cancel' = FALSE
  BY DEF Crash
<1>3. SessionTyped'
  <2>1. Sessions' = Sessions /\ Joins' = Joins
    BY DEF Sessions, Joins
  <2>. QED
    BY <1>2, <2>1, Starts DEF SessionTyped
<1>4. Stages' /\ GroupGone' /\ RadioFree' /\ SlotOrCancel'
  BY <1>1, <1>2, Starts DEF Stages, GroupGone, NoGroup, RadioFree, SlotOrCancel, Idle
<1>. QED
  BY <1>1, <1>3, <1>4 DEF CastInv, SessionInv

LEMMA StepKeeps ==
    ASSUME CastInv, [Next]_vars
    PROVE  CastInv'
<1>1. CASE StartStream
  BY <1>1, StartKeeps
<1>2. CASE StopStream
  BY <1>2, StopKeeps
<1>3. CASE Own
  <2>1. CASE Streams(RtspSteps)
    BY <2>1, Alone DEF Streams, wifi, session, External
  <2>2. CASE Firewalling
    BY <2>2, FirewallingKeeps
  <2>. QED
    BY <1>3, <2>1, <2>2, OpenDeviceKeeps, JoiningKeeps, DropRefusedKeeps, JoinEndsKeeps, JoinedKeeps,
       ListensKeeps, ClosingKeeps, PortsReleasedKeeps, LeaveGroupKeeps, PauseKeeps DEF Own
<1>4. CASE ReceiverConnects
  BY <1>4, ReceiverConnectsKeeps
<1>5. CASE NetworkMoves
  BY <1>5, NetworkKeeps
<1>6. CASE FirewallReloads
  BY <1>6, ReloadsKeeps
<1>7. CASE Crash
  BY <1>7, CrashKeeps
<1>8. CASE \/ Streams(FromReceiver) \/ Streams(PipelineStops)
           \/ Streams(NegotiationTimesOut) \/ Streams(KeepaliveTick)
  BY <1>8, Alone DEF Streams, wifi, session, External
<1>9. CASE UNCHANGED vars
  BY <1>9, Alone DEF vars, wifi, session
<1>. QED
  BY <1>1, <1>2, <1>3, <1>4, <1>5, <1>6, <1>7, <1>8, <1>9 DEF Next

-----------------------------------------------------------------------------
(* Results. *)

(* The inductive invariant: every port a run of this program opened is     *)
(* answered for by a lease or the record, the record has somebody who will *)
(* clear it, and the group and the radio are held only by a session that   *)
(* will give them back (firewall.rs, p2p/group.rs, lib.rs of nd-wfd).      *)
THEOREM CastInvariant == Spec => []CastInv
<1>1. Init => CastInv
  BY InitKeeps
<1>2. CastInv /\ [Next]_vars => CastInv'
  BY StepKeeps
<1>. QED
  BY <1>1, <1>2, PTL DEF Spec

(* What a cast took is given back and what the user opened is left alone,  *)
(* for any ports, any refusals, any cancels and any number of crashes.     *)
THEOREM PortsReturned == Spec => []PortsAreReturned
<1>1. CastInv => PortsAreReturned
  <2>. SUFFICES ASSUME CastInv PROVE CleanEnd /\ UserPortsStay
    BY DEF PortsAreReturned
  <2>1. Sets /\ Both /\ Books
    BY PortsInvSplit DEF CastInv
  <2>2. UserPortsStay
    BY <2>1 DEF Sets, UserPortsStay
  <2>3. ASSUME ses.at = "idle", Quiescent, ~spoiled
        PROVE  open = theirs /\ record = {} /\ nm = "none" /\ ~quiet
    <3>1. Cast.at = "idle" /\ Boot.at = "idle"
      BY <2>3 DEF Quiescent, Procs, Cast, Boot, Idle, Holding
    <3>2. open = theirs /\ record = {}
      BY <2>1, <2>3, <3>1 DEF Books, Sets, OpenIsKnown, RecordHasOwner, Held
    <3>3. nm = "none" /\ ~quiet
      BY <2>3 DEF CastInv, SessionInv, GroupGone, NoGroup, RadioFree
    <3>. QED
      BY <3>2, <3>3
  <2>. QED
    BY <2>2, <2>3 DEF CleanEnd
<1>. QED
  BY <1>1, CastInvariant, PTL

(* Every step of a cast is a step of the Sink's promise: it starts in the  *)
(* promised state, shows one session at a time, is told to stop only by    *)
(* its owner, and once told stays told until it returns (lib.rs of nd-wfd  *)
(* against nd-core's sink.rs).                                             *)
LEMMA PromiseStep ==
    ASSUME CastInv, [Next]_vars
    PROVE  [Promise!Next]_(Promise!vars)
<1>1. CASE StartStream
  <2>1. ses'.at # "idle" /\ ses.at = "idle" /\ cancel' = FALSE /\ status' = "Connecting"
    BY <1>1, Starts DEF StartStream
  <2>. QED
    BY <2>1 DEF Promise!Next, Promise!Start, Promise!Busy
<1>2. CASE StopStream
  <2>1. ses.at # "idle" /\ ses' = ses /\ cancel' = TRUE /\ status' = "Disconnected"
    BY <1>2 DEF StopStream, CastInv, SessionInv, SlotOrCancel, SessionTyped
  <2>. QED
    BY <2>1 DEF Promise!Next, Promise!Stop
<1>. DEFINE Stays == ses.at # "idle" /\ ses'.at # "idle" /\ cancel' = cancel
            Same == (ses'.at = "idle") = (ses.at = "idle") /\ cancel' = cancel /\ status' = status
            Ends == ses.at # "idle" /\ \E ok \in BOOLEAN : Finish(ok)
<1>3. ASSUME Stays, status' \in Promise!Busy \cup {"Streaming"}
      PROVE  Promise!Next
  BY <1>3 DEF Promise!Next, Promise!Works
<1>4. ASSUME Same
      PROVE  UNCHANGED Promise!vars
  BY <1>4 DEF Promise!vars
<1>5. ASSUME Ends
      PROVE  Promise!Next
  <2>1. ses'.at = "idle" /\ ses.at # "idle"
    BY <1>5, Starts DEF Finish
  <2>2. status' \in {Promise!After(status, "Disconnected"), "Error"}
    BY <1>5 DEF Finish, Promise!After
  <2>. QED
    BY <2>1, <2>2 DEF Promise!Next, Promise!Returns
<1>6. ses \in Sessions
  BY DEF CastInv, SessionInv, SessionTyped
<1>7. ASSUME NEW n \in Nat, ses.at \in {"opening", "pausing"}, NextAttempt(n), UNCHANGED cancel
      PROVE  Promise!Next
  <2>1. CASE cancel
    BY <1>5, <1>7, <2>1 DEF NextAttempt
  <2>2. CASE ~cancel
    <3>1. Stays /\ status' = "Connecting"
      BY <1>7, <2>2 DEF NextAttempt
    <3>. QED
      BY <1>3, <3>1 DEF Promise!Busy
  <2>. QED
    BY <2>1, <2>2
<1>8. CASE OpenDevice
  <2>1. ses.at = "opening" /\ UNCHANGED cancel /\ (NextAttempt(1) \/ Finish(FALSE))
    BY <1>8 DEF OpenDevice
  <2>2. CASE NextAttempt(1)
    BY <2>1, <2>2, <1>7
  <2>3. CASE Finish(FALSE)
    BY <2>1, <2>3, <1>5
  <2>. QED
    BY <2>1, <2>2, <2>3
<1>9. CASE JoinEnds
  <2>1. cancel \in BOOLEAN /\ ses.at = "joining" /\ Finish(cancel)
    BY <1>9 DEF JoinEnds, CastInv, SessionInv, SessionTyped
  <2>. QED
    BY <2>1, <1>5
<1>10. CASE Joined
  <2>1. CASE ses' = [ses EXCEPT !.at = "leaving", !.outcome = "ok"] /\ UNCHANGED status
    <3>1. Same
      BY <1>6, <1>10, <2>1 DEF Joined, Sessions
    <3>. QED
      BY <3>1, <1>4
  <2>2. CASE ses' = [ses EXCEPT !.at = "firewall"] /\ status' = "EnsuringFirewall"
    <3>1. Stays
      BY <1>6, <1>10, <2>2 DEF Joined, Sessions
    <3>. QED
      BY <3>1, <2>2, <1>3 DEF Promise!Busy
  <2>. QED
    BY <1>10, <2>1, <2>2 DEF Joined
<1>11. CASE Listens
  <2>1. /\ Stays
        /\ status' = "WaitSocket" \/ status' = status
    BY <1>6, <1>11 DEF Listens, Closes, Sessions
  <2>2. CASE status' = status
    BY <2>1, <2>2, <1>4
  <2>3. CASE status' = "WaitSocket"
    BY <2>1, <2>3, <1>3 DEF Promise!Busy
  <2>. QED
    BY <2>1, <2>2, <2>3
<1>12. CASE ReceiverConnects
  <2>1. Stays /\ status' = "Streaming"
    BY <1>6, <1>12 DEF ReceiverConnects, Sessions
  <2>. QED
    BY <2>1, <1>3
<1>13. CASE NeverConnects \/ ServeCancelled \/ StreamEnds \/ PortsReleased
  <2>1. Same
    BY <1>6, <1>13 DEF NeverConnects, ServeCancelled, StreamEnds, PortsReleased, Closes, Sessions
  <2>. QED
    BY <2>1, <1>4
<1>14. CASE LeaveGroup
  <2>1. ses.at = "leaving" /\ UNCHANGED cancel
    BY <1>14 DEF LeaveGroup
  <2>2. CASE \E ok \in BOOLEAN : Finish(ok)
    BY <2>1, <2>2, <1>5
  <2>3. CASE ses' = [ses EXCEPT !.at = "pausing"] /\ status' = "Connecting"
    <3>1. Stays
      BY <1>6, <2>1, <2>3 DEF Sessions
    <3>. QED
      BY <2>3, <3>1, <1>3 DEF Promise!Busy
  <2>. QED
    BY <1>14, <2>2, <2>3 DEF LeaveGroup
<1>15. CASE Pause
  <2>1. ses.attempt + 1 \in Nat /\ ses.at = "pausing" /\ NextAttempt(ses.attempt + 1) /\ UNCHANGED cancel
    BY <1>6, <1>15 DEF Pause, Sessions
  <2>. QED
    BY <2>1, <1>7
<1>16. CASE Crash
  <2>1. ses'.at = "idle" /\ cancel' = FALSE /\ status' = "Disconnected"
    BY <1>16, Starts DEF Crash
  <2>. QED
    BY <2>1 DEF Promise!Next, Promise!Dies
<1>17. CASE \/ Joining \/ DropRefused \/ Firewalling \/ NetworkMoves \/ FirewallReloads
            \/ UNCHANGED vars
  <2>1. UNCHANGED <<ses, cancel, status>>
    BY <1>17 DEF Joining, JoinSteps, Connect, Poll, Drop, Settle, DropRefused, Firewalling,
                 NetworkMoves, GroupMoves, FirewallReloads, session, wifi, vars
  <2>. QED
    BY <2>1, <1>4
<1>18. CASE \/ Streams(RtspSteps) \/ Streams(FromReceiver) \/ Streams(PipelineStops)
            \/ Streams(NegotiationTimesOut) \/ Streams(KeepaliveTick)
  <2>1. UNCHANGED <<ses, cancel, status>>
    BY <1>18 DEF Streams, session
  <2>. QED
    BY <2>1, <1>4
<1>. QED
  BY <1>1, <1>2, <1>8, <1>9, <1>10, <1>11, <1>12, <1>13, <1>14, <1>15, <1>16, <1>17, <1>18
     DEF Next, Own

(* What begin_cast counts on: whatever ports, cancels, refusals and crashes *)
(* there are, each step of the Miracast session (session.rs) is one the     *)
(* cast task's promise allows, or changes nothing of it.                    *)
THEOREM PromiseKept == Spec => Promise!Init /\ [][Promise!Next]_(Promise!vars)
<1>1. Init => Promise!Init
  BY Starts DEF Init, Promise!Init
<1>2. CastInv /\ [Next]_vars => [Promise!Next]_(Promise!vars)
  BY PromiseStep
<1>. QED
  BY <1>1, <1>2, CastInvariant, PTL DEF Spec
=============================================================================
