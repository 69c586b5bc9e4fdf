---------------------------- MODULE Network_proofs ----------------------------
(***************************************************************************)
(* Proofs about what faces the network.                                    *)
(*                                                                         *)
(* FrontDoor: for any connections, addresses, limits and lockouts.         *)
(* DlnaProvider and WfdProvider: for any receivers, changes and faults.    *)
(* MdnsScan: for any devices, announcements and room in the stream.        *)
(* UpnpClient: for any descriptions and framings.  Sinks: for any number   *)
(* of sessions and counts.                                                 *)
(***************************************************************************)
EXTENDS FrontDoor, DlnaProvider, WfdProvider, MdnsScan, Sinks, UpnpClient, FiniteSetTheorems,
        SequenceTheorems, WellFoundedInduction, TLAPS

-----------------------------------------------------------------------------
(* The door. *)

GuardType == [failures : Nat, locked : Nat, last : Nat]
Client == [at : {"off", "request", "pin", "upstream"}, peer : Peer \cup {Nobody}]

DoorTyped ==
    /\ publication \in {"idle", "opening", "streaming", "closing"}
    /\ access \in BOOLEAN /\ door \in {"none", "open", "stopped"}
    /\ clients \in [Conn -> Client]
    /\ \A c \in Conn : clients[c].at # "off" => clients[c].peer \in Peer
    /\ guards \in [all : GuardType, peers : UNION {[S -> GuardType] : S \in SUBSET Peer}]
    /\ holders \in SUBSET Peer /\ barred \in [Peer -> Nat] /\ guesses \in Nat

(* Only a publication that streams shows its address, and it has a door.   *)
ShownIsOpen ==
    /\ access => publication = "streaming"
    /\ publication = "streaming" => door = "open"

(* The guesses are those the guard of all addresses has counted.           *)
GuessesCounted == guesses = guards.all.failures /\ guesses < PinAttemptsAll

(* An address that must be refused is still locked out for that long: by   *)
(* the guard of all, or by its own, which nobody has forgotten.            *)
BarredIsLocked ==
    \A p \in Peer : barred[p] > 0 =>
        \/ guards.all.locked >= barred[p]
        \/ p \in DOMAIN guards.peers /\ guards.peers[p].locked >= barred[p]

DoorInv == DoorTyped /\ ShownIsOpen /\ GuessesCounted /\ BarredIsLocked

LEMMA DoorBegins ==
    ASSUME FrontInit
    PROVE  DoorInv
<1>1. Guard \in GuardType
  BY DEF Guard, GuardType
<1>2. [p \in {} |-> Guard] \in UNION {[S -> GuardType] : S \in SUBSET Peer}
  <2>1. [p \in {} |-> Guard] \in [{} -> GuardType] /\ {} \in SUBSET Peer
    OBVIOUS
  <2>. QED
    BY <2>1
<1>3. DoorTyped
  BY <1>1, <1>2 DEF FrontInit, DoorTyped, Client, Off
<1>. QED
  BY <1>3, DoorAssumption
     DEF FrontInit, DoorInv, ShownIsOpen, GuessesCounted, BarredIsLocked, Guard

(* What one failure makes of a guard that is not locked.                   *)
LEMMA FailedIs ==
    ASSUME NEW g \in GuardType, NEW limit \in Nat \ {0}
    PROVE  /\ Failed(g, limit) \in GuardType
           /\ g.failures < limit => Failed(g, limit).failures < limit
           /\ \/ Failed(g, limit).locked = g.locked
                 /\ Failed(g, limit).failures = g.failures + 1
              \/ Failed(g, limit).locked > 0 /\ Failed(g, limit).failures = 0
<1>1. Lockout(g) \in Nat /\ Lockout(g) > 0
  BY DoorAssumption DEF Lockout, GuardType
<1>2. CASE g.failures + 1 < limit
  <2>1. Failed(g, limit) = [g EXCEPT !.failures = g.failures + 1]
    BY <1>2 DEF Failed
  <2>. QED
    BY <1>2, <2>1 DEF GuardType
<1>3. CASE ~(g.failures + 1 < limit)
  <2>1. Failed(g, limit) = [failures |-> 0, locked |-> Lockout(g), last |-> Lockout(g)]
    BY <1>3 DEF Failed
  <2>. QED
    BY <1>1, <2>1 DEF GuardType
<1>. QED
  BY <1>2, <1>3

PeerGuards == UNION {[S -> GuardType] : S \in SUBSET Peer}

LEMMA PeerGuardsAre ==
    \A f : f \in PeerGuards <=>
               /\ DOMAIN f \in SUBSET Peer /\ f = [q \in DOMAIN f |-> f[q]]
               /\ \A q \in DOMAIN f : f[q] \in GuardType
<1>. QED
  BY DEF PeerGuards

(* What a wrong PIN makes of the guards.                                   *)
LEMMA CountedIs ==
    ASSUME DoorTyped, NEW p \in Peer, ~Locked(p)
    PROVE  LET now == Counted(p) IN
           /\ now.all \in GuardType /\ now.peers \in PeerGuards
           /\ now = [all |-> now.all, peers |-> now.peers]
           /\ now.all = Failed(guards.all, PinAttemptsAll)
           /\ p \in DOMAIN now.peers
           /\ \A q \in DOMAIN guards.peers : q # p /\ guards.peers[q].locked > 0 =>
                  q \in DOMAIN now.peers /\ now.peers[q] = guards.peers[q]
<1>. DEFINE peers == guards.peers
            kept == Kept(peers, p)
            own == Failed(Entry(peers, p), PinAttempts)
            after == [q \in kept \cup {p} |-> IF q = p THEN own ELSE peers[q]]
<1>1. guards.all \in GuardType /\ peers \in PeerGuards
  BY DEF DoorTyped, PeerGuards
<1>2. /\ DOMAIN peers \in SUBSET Peer
      /\ \A q \in DOMAIN peers : peers[q] \in GuardType
  BY <1>1, PeerGuardsAre
<1>3. /\ kept \in SUBSET DOMAIN peers
      /\ \A q \in DOMAIN peers : peers[q].locked > 0 => q \in kept
  BY DEF Kept, LockedOut
<1>4. own \in GuardType
  <2>1. Entry(peers, p) \in GuardType
    BY <1>2 DEF Entry, Guard, GuardType
  <2>. QED
    BY <2>1, FailedIs, DoorAssumption
<1>5. Failed(guards.all, PinAttemptsAll) \in GuardType
  BY <1>1, FailedIs, DoorAssumption
<1>6. Counted(p) = [all |-> Failed(guards.all, PinAttemptsAll), peers |-> after]
  BY DEF Counted
<1>. HIDE DEF own, kept, peers
<1>7. after \in PeerGuards
  <2>1. DOMAIN after = kept \cup {p} /\ \A q \in DOMAIN after : after[q] \in GuardType
    BY <1>2, <1>3, <1>4
  <2>2. DOMAIN after \in SUBSET Peer
    BY <1>2, <1>3, <2>1
  <2>3. after = [q \in DOMAIN after |-> after[q]]
    OBVIOUS
  <2>. HIDE DEF after
  <2>. QED
    BY <2>1, <2>2, <2>3, PeerGuardsAre
<1>8. \A q \in DOMAIN peers : q # p /\ peers[q].locked > 0 =>
          q \in DOMAIN after /\ after[q] = peers[q]
  BY <1>3
<1>9. p \in DOMAIN after
  OBVIOUS
<1>. HIDE DEF after
<1>. QED
  BY <1>5, <1>6, <1>7, <1>8, <1>9 DEF peers

LEMMA ClearedIs ==
    ASSUME DoorTyped, NEW p \in Peer
    PROVE  /\ Cleared(p).all = guards.all /\ Cleared(p).peers \in PeerGuards
           /\ Cleared(p) = [all |-> guards.all, peers |-> Cleared(p).peers]
           /\ DOMAIN Cleared(p).peers = DOMAIN guards.peers
           /\ \A q \in DOMAIN guards.peers : Cleared(p).peers[q].locked = guards.peers[q].locked
<1>. DEFINE peers == guards.peers
            after == [q \in DOMAIN peers |->
                         IF q = p THEN [peers[q] EXCEPT !.failures = 0] ELSE peers[q]]
<1>1. /\ DOMAIN peers \in SUBSET Peer
      /\ \A q \in DOMAIN peers : peers[q] \in GuardType
  BY PeerGuardsAre DEF DoorTyped, PeerGuards
<1>2. guards = [all |-> guards.all, peers |-> peers]
  BY DEF DoorTyped
<1>3. Cleared(p) = [all |-> guards.all, peers |-> after]
  BY <1>2 DEF Cleared
<1>4. \A q \in DOMAIN peers : [peers[q] EXCEPT !.failures = 0] \in GuardType
                              /\ [peers[q] EXCEPT !.failures = 0].locked = peers[q].locked
  BY <1>1 DEF GuardType
<1>5. DOMAIN after = DOMAIN peers /\ \A q \in DOMAIN peers :
          after[q] \in GuardType /\ after[q].locked = peers[q].locked
  BY <1>1, <1>4
<1>6. after \in PeerGuards
  <2>1. after = [q \in DOMAIN after |-> after[q]]
    OBVIOUS
  <2>. HIDE DEF after
  <2>. QED
    BY <1>1, <1>5, <2>1, PeerGuardsAre
<1>. HIDE DEF after
<1>. QED
  BY <1>3, <1>5, <1>6 DEF peers

(* The lockouts pass together.                                             *)
LEMMA TickIs ==
    ASSUME DoorTyped, Tick
    PROVE  /\ guards'.all \in GuardType /\ guards'.peers \in PeerGuards
           /\ guards' = [all |-> guards'.all, peers |-> guards'.peers]
           /\ guards'.all.failures = guards.all.failures
           /\ guards'.all.locked = Less(guards.all.locked)
           /\ DOMAIN guards'.peers = DOMAIN guards.peers
           /\ \A q \in DOMAIN guards.peers :
                  guards'.peers[q].locked = Less(guards.peers[q].locked)
<1>. DEFINE peers == guards.peers
            all == [guards.all EXCEPT !.locked = Less(@)]
            after == [q \in DOMAIN peers |-> [peers[q] EXCEPT !.locked = Less(@)]]
<1>1. /\ DOMAIN peers \in SUBSET Peer
      /\ \A q \in DOMAIN peers : peers[q] \in GuardType
  BY PeerGuardsAre DEF DoorTyped, PeerGuards
<1>2. guards' = [all |-> all, peers |-> after]
  BY DEF Tick
<1>3. \A g \in GuardType : [g EXCEPT !.locked = Less(@)] \in GuardType
          /\ [g EXCEPT !.locked = Less(@)].locked = Less(g.locked)
          /\ [g EXCEPT !.locked = Less(@)].failures = g.failures
  BY DEF GuardType, Less
<1>4. guards.all \in GuardType
  BY DEF DoorTyped
<1>5. DOMAIN after = DOMAIN peers /\ \A q \in DOMAIN peers :
          after[q] \in GuardType /\ after[q].locked = Less(peers[q].locked)
  BY <1>1, <1>3
<1>6. after \in PeerGuards
  <2>1. after = [q \in DOMAIN after |-> after[q]]
    OBVIOUS
  <2>. HIDE DEF after
  <2>. QED
    BY <1>1, <1>5, <2>1, PeerGuardsAre
<1>7. all \in GuardType /\ all.locked = Less(guards.all.locked)
      /\ all.failures = guards.all.failures
  BY <1>3, <1>4
<1>. HIDE DEF after, all
<1>. QED
  BY <1>2, <1>5, <1>6, <1>7 DEF peers

(* Guards that are typed part by part are typed.                           *)
LEMMA GuardsTyped ==
    ASSUME NEW g, g = [all |-> g.all, peers |-> g.peers], g.all \in GuardType,
           g.peers \in PeerGuards
    PROVE  g \in [all : GuardType, peers : UNION {[S -> GuardType] : S \in SUBSET Peer}]
BY DEF PeerGuards

(* A step of one connection, the guards left alone.                        *)
LEMMA ServedIs ==
    ASSUME DoorInv, NEW c \in Conn, NEW next \in Client, next.at # "off" => next.peer \in Peer,
           Served(c, next), UNCHANGED <<guards, barred, guesses>>, holders' \in SUBSET Peer
    PROVE  DoorInv'
<1>1. clients' = [clients EXCEPT ![c] = next] /\ UNCHANGED <<publicationVars, door>>
  BY DEF Served
<1>2. DoorTyped'
  BY <1>1 DEF DoorInv, DoorTyped, publicationVars
<1>. QED
  BY <1>1, <1>2 DEF DoorInv, ShownIsOpen, GuessesCounted, BarredIsLocked, publicationVars

(* A step of the publication.                                              *)
LEMMA PublishedIs ==
    ASSUME DoorInv, UNCHANGED <<guards, wrong, holders, barred, guesses>>,
           clients' = clients \/ clients' = [c \in Conn |-> Off],
           publication' \in {"idle", "opening", "streaming", "closing"},
           access' \in BOOLEAN, door' \in {"none", "open", "stopped"}, ShownIsOpen'
    PROVE  DoorInv'
<1>1. clients' \in [Conn -> Client] /\ \A c \in Conn : clients'[c].at # "off" => clients'[c].peer \in Peer
  <2>1. Off \in Client /\ Off.at = "off"
    BY DEF Off, Client
  <2>. QED
    BY <2>1 DEF DoorInv, DoorTyped
<1>2. DoorTyped'
  BY <1>1 DEF DoorInv, DoorTyped
<1>. QED
  BY <1>2 DEF DoorInv, GuessesCounted, BarredIsLocked

LEMMA OpensDoorKeeps ==
    ASSUME DoorInv, OpensDoor
    PROVE  DoorInv'
<1>1. CASE UNCHANGED <<door, guards, holders, barred, guesses>> /\ publication' = "idle"
  BY <1>1, PublishedIs DEF OpensDoor, DoorInv, DoorTyped, ShownIsOpen
<1>2. CASE /\ door' = "open" /\ UNCHANGED publication
           /\ guards' = [all |-> Guard, peers |-> [p \in {} |-> Guard]]
           /\ holders' = {} /\ guesses' = 0 /\ barred' = [p \in Peer |-> 0]
  <2>1. Guard \in GuardType /\ Guard.failures = 0
    BY DEF Guard, GuardType
  <2>2. guards' \in [all : GuardType, peers : UNION {[S -> GuardType] : S \in SUBSET Peer}]
    <3>1. [p \in {} |-> Guard] \in [{} -> GuardType] /\ {} \in SUBSET Peer
      OBVIOUS
    <3>2. [p \in {} |-> Guard] \in UNION {[S -> GuardType] : S \in SUBSET Peer}
      BY <3>1
    <3>. QED
      BY <1>2, <2>1, <3>2
  <2>3. DoorTyped'
    BY <1>2, <2>2 DEF OpensDoor, DoorInv, DoorTyped
  <2>4. ShownIsOpen'
    BY <1>2 DEF OpensDoor, DoorInv, ShownIsOpen
  <2>5. GuessesCounted' /\ BarredIsLocked'
    BY <1>2, <2>1, DoorAssumption DEF GuessesCounted, BarredIsLocked
  <2>. QED
    BY <2>3, <2>4, <2>5 DEF DoorInv
<1>. QED
  BY <1>1, <1>2 DEF OpensDoor

LEMMA TickKeeps ==
    ASSUME DoorInv, Tick
    PROVE  DoorInv'
<1>. USE DEF DoorInv
<1>1. barred' = [q \in Peer |-> Less(barred[q])]
      /\ UNCHANGED <<publication, access, door, clients, holders, guesses>>
  BY DEF Tick, publicationVars
<1>2. DoorTyped'
  <2>1. barred' \in [Peer -> Nat]
    BY <1>1 DEF Less, DoorTyped
  <2>2. guards' \in [all : GuardType, peers : UNION {[S -> GuardType] : S \in SUBSET Peer}]
    BY TickIs, GuardsTyped
  <2>. QED
    BY <1>1, <2>1, <2>2 DEF DoorTyped
<1>3. GuessesCounted'
  BY <1>1, TickIs DEF GuessesCounted
<1>4. BarredIsLocked'
  <2>. SUFFICES ASSUME NEW p \in Peer, barred'[p] > 0
                PROVE  \/ guards'.all.locked >= barred'[p]
                       \/ p \in DOMAIN guards'.peers /\ guards'.peers[p].locked >= barred'[p]
    BY DEF BarredIsLocked
  <2>1. barred[p] \in Nat /\ barred'[p] = Less(barred[p]) /\ guards.all.locked \in Nat
    BY <1>1 DEF DoorTyped, GuardType
  <2>2. barred[p] > 0
    BY <2>1 DEF Less
  <2>3. CASE guards.all.locked >= barred[p]
    <3>1. Less(guards.all.locked) >= Less(barred[p])
      BY <2>1, <2>2, <2>3 DEF Less
    <3>. QED
      BY <2>1, <3>1, TickIs
  <2>4. CASE p \in DOMAIN guards.peers /\ guards.peers[p].locked >= barred[p]
    <3>1. guards.peers[p].locked \in Nat
      BY <2>4, PeerGuardsAre DEF DoorTyped, PeerGuards, GuardType
    <3>2. Less(guards.peers[p].locked) >= Less(barred[p])
      BY <2>1, <2>2, <2>4, <3>1 DEF Less
    <3>. QED
      BY <2>1, <2>4, <3>2, TickIs
  <2>. QED
    BY <2>2, <2>3, <2>4 DEF BarredIsLocked
<1>. QED
  BY <1>1, <1>2, <1>3, <1>4 DEF ShownIsOpen

LEMMA JudgesRightKeeps ==
    ASSUME DoorInv, NEW c \in Conn, JudgesRight(c)
    PROVE  DoorInv'
<1>. USE DEF DoorInv
<1>. DEFINE p == clients[c].peer
<1>1. /\ clients[c].at = "pin" /\ guards' = Cleared(p) /\ holders' = holders \cup {p}
      /\ clients' = [clients EXCEPT ![c] = Off] /\ UNCHANGED <<publicationVars, door>>
      /\ UNCHANGED <<wrong, barred, guesses>>
  BY DEF JudgesRight, Served
<1>2. p \in Peer
  BY <1>1 DEF DoorTyped
<1>. HIDE DEF p
<1>3. DoorTyped'
  <2>1. guards' \in [all : GuardType, peers : UNION {[S -> GuardType] : S \in SUBSET Peer}]
    <3>1. guards.all \in GuardType
      BY DEF DoorTyped
    <3>. QED
      BY <1>1, <1>2, <3>1, ClearedIs, GuardsTyped
  <2>2. Off \in Client /\ Off.at = "off"
    BY DEF Off, Client
  <2>3. clients' \in [Conn -> Client] /\ \A d \in Conn : clients'[d].at # "off" => clients'[d].peer \in Peer
    BY <1>1, <2>2 DEF DoorTyped
  <2>. QED
    BY <1>1, <1>2, <2>1, <2>3 DEF DoorTyped, publicationVars
<1>4. GuessesCounted'
  BY <1>1, <1>2, ClearedIs DEF GuessesCounted
<1>5. BarredIsLocked'
  BY <1>1, <1>2, ClearedIs DEF BarredIsLocked
<1>. QED
  BY <1>1, <1>3, <1>4, <1>5 DEF ShownIsOpen, publicationVars

(* An address that is judged is not barred.                                *)
LEMMA JudgedIsFree ==
    ASSUME DoorInv, NEW p \in Peer, ~Locked(p)
    PROVE  barred[p] = 0 /\ guards.all.locked = 0
<1>1. /\ barred[p] \in Nat /\ guards.all.locked \in Nat
      /\ p \in DOMAIN guards.peers => guards.peers[p].locked \in Nat
  BY PeerGuardsAre DEF DoorInv, DoorTyped, PeerGuards, GuardType
<1>. QED
  BY <1>1 DEF DoorInv, BarredIsLocked, Locked, LockedOut

LEMMA JudgesWrongKeeps ==
    ASSUME DoorInv, NEW c \in Conn, JudgesWrong(c)
    PROVE  DoorInv'
<1>. USE DEF DoorInv
<1>. DEFINE p == clients[c].peer
            now == Counted(p)
<1>1. /\ clients[c].at = "pin" /\ ~Locked(p) /\ guards' = now /\ barred' = Barring(p, now)
      /\ guesses' = IF LockedOut(now.all) THEN 0 ELSE guesses + 1
      /\ clients' = [clients EXCEPT ![c] = Off] /\ UNCHANGED <<publicationVars, door, holders>>
  BY DEF JudgesWrong, Served
<1>2. p \in Peer
  BY <1>1 DEF DoorTyped
<1>. HIDE DEF p
<1>3. /\ now.all \in GuardType /\ now.peers \in PeerGuards
      /\ now = [all |-> now.all, peers |-> now.peers]
      /\ now.all = Failed(guards.all, PinAttemptsAll)
      /\ p \in DOMAIN now.peers
      /\ \A q \in DOMAIN guards.peers : q # p /\ guards.peers[q].locked > 0 =>
             q \in DOMAIN now.peers /\ now.peers[q] = guards.peers[q]
  BY <1>1, <1>2, CountedIs
<1>. HIDE DEF now
<1>4. /\ DOMAIN now.peers \in SUBSET Peer
      /\ \A q \in DOMAIN now.peers : now.peers[q].locked \in Nat
      /\ now.all.locked \in Nat /\ now.all.failures \in Nat
      /\ guards.all.locked = 0 /\ barred[p] = 0
      /\ \A q \in Peer : barred[q] \in Nat
      /\ \A q \in DOMAIN guards.peers : guards.peers[q].locked \in Nat
  <2>1. guards.all.locked = 0 /\ barred[p] = 0
    BY <1>1, <1>2, JudgedIsFree
  <2>2. \A f \in PeerGuards : DOMAIN f \in SUBSET Peer /\ \A q \in DOMAIN f : f[q].locked \in Nat
    BY PeerGuardsAre DEF GuardType
  <2>3. guards.peers \in PeerGuards /\ barred \in [Peer -> Nat]
    BY DEF DoorTyped, PeerGuards
  <2>. QED
    BY <1>3, <2>1, <2>2, <2>3 DEF GuardType
<1>5. \A q \in Peer :
        barred'[q] = IF now.all.locked > guards.all.locked /\ now.all.locked > barred[q]
                     THEN now.all.locked
                     ELSE IF q = p /\ now.peers[p].locked > barred[q]
                     THEN now.peers[p].locked ELSE barred[q]
  BY <1>1 DEF Barring
<1>6. barred' \in [Peer -> Nat]
  <2>1. barred' = [q \in Peer |-> barred'[q]]
    BY <1>1 DEF Barring
  <2>2. \A q \in Peer : barred'[q] \in Nat
    BY <1>3, <1>4, <1>5
  <2>. QED
    BY <2>1, <2>2
<1>7. DoorTyped'
  <2>1. guards' \in [all : GuardType, peers : UNION {[S -> GuardType] : S \in SUBSET Peer}]
    BY <1>1, <1>3, GuardsTyped
  <2>2. Off \in Client /\ Off.at = "off"
    BY DEF Off, Client
  <2>3. clients' \in [Conn -> Client] /\ \A d \in Conn : clients'[d].at # "off" => clients'[d].peer \in Peer
    BY <1>1, <2>2 DEF DoorTyped
  <2>4. guesses' \in Nat
    BY <1>1 DEF DoorTyped
  <2>. QED
    BY <1>1, <1>6, <2>1, <2>3, <2>4 DEF DoorTyped, publicationVars
<1>8. GuessesCounted'
  <2>1. guards.all \in GuardType /\ PinAttemptsAll \in Nat \ {0}
    BY DoorAssumption DEF DoorTyped
  <2>2. /\ guards.all.failures < PinAttemptsAll => now.all.failures < PinAttemptsAll
        /\ \/ now.all.locked = guards.all.locked /\ now.all.failures = guards.all.failures + 1
           \/ now.all.locked > 0 /\ now.all.failures = 0
    BY <1>3, <2>1, FailedIs
  <2>. QED
    BY <1>1, <1>4, <2>2 DEF GuessesCounted, LockedOut
<1>9. BarredIsLocked'
  <2>. SUFFICES ASSUME NEW q \in Peer, barred'[q] > 0
                PROVE  \/ now.all.locked >= barred'[q]
                       \/ q \in DOMAIN now.peers /\ now.peers[q].locked >= barred'[q]
    BY <1>1 DEF BarredIsLocked
  <2>1. CASE barred'[q] = now.all.locked
    BY <1>4, <2>1
  <2>2. CASE q = p /\ barred'[q] = now.peers[p].locked
    BY <1>3, <1>4, <2>2
  <2>3. CASE barred'[q] = barred[q]
    <3>1. q # p /\ barred[q] > 0
      BY <1>4, <2>3
    <3>2. q \in DOMAIN guards.peers /\ guards.peers[q].locked >= barred[q]
      BY <1>4, <3>1 DEF BarredIsLocked
    <3>3. guards.peers[q].locked > 0
      BY <1>4, <3>1, <3>2
    <3>. QED
      BY <1>3, <2>3, <3>1, <3>2, <3>3
  <2>. QED
    BY <1>5, <2>1, <2>2, <2>3
<1>. QED
  BY <1>1, <1>7, <1>8, <1>9 DEF ShownIsOpen, publicationVars

LEMMA DoorStep ==
    ASSUME DoorInv, [FrontNext]_frontVars
    PROVE  DoorInv'
<1>1. Off \in Client /\ Off.at = "off"
  BY DEF Off, Client
<1>2. CASE StartStream \/ StopStream \/ ElementComesUp
  BY <1>2 DEF StartStream, StopStream, ElementComesUp, DoorInv, DoorTyped, ShownIsOpen,
              GuessesCounted, BarredIsLocked, doorVars
<1>3. CASE StartsPipeline
  <2>1. ShownIsOpen'
    BY <1>3 DEF StartsPipeline, DoorInv, ShownIsOpen
  <2>. QED
    BY <1>3, <2>1, PublishedIs DEF StartsPipeline, DoorInv, DoorTyped
<1>4. CASE SeesCancel \/ PipelineEnds
  <2>1. /\ publication' = "closing" /\ access' = FALSE /\ UNCHANGED doorVars
    BY <1>4 DEF SeesCancel, PipelineEnds, Ends
  <2>. QED
    BY <2>1, PublishedIs DEF DoorInv, DoorTyped, ShownIsOpen, doorVars
<1>5. CASE Closes
  BY <1>5, PublishedIs DEF Closes, DoorInv, DoorTyped, ShownIsOpen
<1>6. CASE LoopEnds
  BY <1>6, PublishedIs DEF LoopEnds, DoorInv, DoorTyped, ShownIsOpen, publicationVars
<1>7. ASSUME NEW c \in Conn, Accepts(c)
      PROVE  DoorInv'
  <2>1. PICK p \in Peer : Served(c, [at |-> "request", peer |-> p])
    BY <1>7 DEF Accepts
  <2>2. [at |-> "request", peer |-> p] \in Client
    BY DEF Client
  <2>. QED
    BY <1>7, <2>1, <2>2, ServedIs DEF Accepts, DoorInv, DoorTyped
<1>8. ASSUME NEW c \in Conn, Replied(c)
      PROVE  DoorInv'
  BY <1>1, <1>8, ServedIs DEF Replied, DoorInv, DoorTyped
<1>9. ASSUME NEW c \in Conn, NEW s \in {"pin", "upstream"}, clients[c].at = "request",
             Served(c, [clients[c] EXCEPT !.at = s]),
             UNCHANGED <<guards, wrong, holders, barred, guesses>>
      PROVE  DoorInv'
  <2>1. clients[c] \in Client /\ clients[c].peer \in Peer
    BY <1>9 DEF DoorInv, DoorTyped
  <2>2. [clients[c] EXCEPT !.at = s] \in Client
        /\ [clients[c] EXCEPT !.at = s].peer = clients[c].peer
    BY <2>1 DEF Client
  <2>. QED
    BY <1>9, <2>1, <2>2, ServedIs DEF DoorInv, DoorTyped
<1>10. ASSUME NEW c \in Conn, AsksPin(c) \/ AsksWhep(c)
       PROVE  DoorInv'
  BY <1>8, <1>9, <1>10 DEF AsksPin, AsksWhep
<1>11. ASSUME NEW c \in Conn, Leaves(c) \/ Forwards(c) \/ JudgesNothing(c)
       PROVE  DoorInv'
  BY <1>8, <1>11 DEF Leaves, Forwards, JudgesNothing
<1>12. CASE UNCHANGED frontVars
  BY <1>12 DEF frontVars, publicationVars, doorVars, DoorInv, DoorTyped, ShownIsOpen,
               GuessesCounted, BarredIsLocked
<1>. QED
  BY <1>2, <1>3, <1>4, <1>5, <1>6, <1>7, <1>10, <1>11, <1>12, OpensDoorKeeps, TickKeeps,
     JudgesRightKeeps, JudgesWrongKeeps DEF FrontNext

(* The inductive invariant of the front door: what bars an address is a    *)
(* lockout that is still kept, and the guesses are the ones counted.       *)
THEOREM DoorInvariant == FrontSpec => []DoorInv
<1>. QED
  BY DoorBegins, DoorStep, PTL DEF FrontSpec

(* The safety part of DoorHolds, for any connections, addresses, limits    *)
(* and number of wrong PINs: guesses are bounded, the address shown has a  *)
(* door, and nobody's PIN is judged while they are barred.                 *)
THEOREM PinStands == FrontSpec => []GuessesBounded /\ []AccessHasDoor /\ NoGuessWhileBarred
<1>1. DoorInv => GuessesBounded /\ AccessHasDoor
  BY DEF DoorInv, GuessesCounted, ShownIsOpen, GuessesBounded, AccessHasDoor
<1>2. DoorInv /\ [FrontNext]_frontVars =>
        [\A p \in Peer :
            barred[p] > 0 /\ door = "open" =>
                /\ p \in holders' => p \in holders
                /\ \A c \in Conn : clients[c].peer = p => ~JudgesWrong(c)]_frontVars
  <2>. SUFFICES ASSUME DoorInv, FrontNext, NEW p \in Peer, barred[p] > 0, door = "open"
                PROVE  /\ p \in holders' => p \in holders
                       /\ \A c \in Conn : clients[c].peer = p => ~JudgesWrong(c)
    OBVIOUS
  <2>1. Locked(p)
    BY JudgedIsFree
  <2>2. \A c \in Conn : JudgesRight(c) \/ JudgesWrong(c) => ~Locked(clients[c].peer)
    BY DEF JudgesRight, JudgesWrong
  <2>3. \/ holders' \subseteq holders
        \/ \E c \in Conn : JudgesRight(c) /\ holders' = holders \cup {clients[c].peer}
    BY DEF FrontNext, StartStream, OpensDoor, StartsPipeline, StopStream, SeesCancel,
           PipelineEnds, Ends, Closes, ElementComesUp, LoopEnds, Tick, Accepts, Leaves, AsksPin,
           AsksWhep, Forwards, Replied, JudgesRight, JudgesWrong, JudgesNothing, doorVars
  <2>. QED
    BY <2>1, <2>2, <2>3
<1>. QED
  BY <1>1, <1>2, DoorInvariant, PTL DEF FrontSpec, NoGuessWhileBarred

-----------------------------------------------------------------------------
(* The renderers. *)

Located(f) == DOMAIN f \in SUBSET Renderer /\ \A r \in DOMAIN f : f[r] \in Address

DlnaTyped ==
    /\ sweep \in {"waiting", "searching", "ageing"}
    /\ Located(there) /\ Located(announced) /\ DOMAIN answers \in SUBSET Renderer
    /\ DOMAIN listed \in SUBSET Renderer
    /\ \A r \in DOMAIN listed : listed[r] \in [at : Address, misses : Nat]
    /\ silent \in [Renderer -> Nat]

(* A renderer has missed no more searches than it was silent in, and one   *)
(* less while the list has still to age.                                   *)
MissesEarned ==
    /\ DOMAIN announced \subseteq DOMAIN answers
    /\ \A r \in DOMAIN listed :
        /\ listed[r].misses < MissesBeforeRemoval
        /\ sweep # "ageing" => listed[r].misses <= silent[r]
        /\ sweep = "ageing" /\ r \notin DOMAIN answers => listed[r].misses < silent[r]

SweepInv == DlnaTyped /\ MissesEarned

LEMMA NowhereIs ==
    /\ Located(Nowhere) /\ DOMAIN Nowhere = {}
    /\ \A f, r, a : Located(f) /\ r \in Renderer /\ a \in Address => Located(With(f, r, a))
    /\ \A f, S : Located(f) => Located(Omitting(f, S))
<1>. QED
  BY DEF Located, Nowhere, With, Omitting

LEMMA SweepBegins ==
    ASSUME DlnaInit
    PROVE  SweepInv
<1>1. Located(there)
  BY DEF DlnaInit, Located
<1>. QED
  BY <1>1, NowhereIs DEF DlnaInit, SweepInv, DlnaTyped, MissesEarned

(* Whoever is taken off the list was silent for as long.                   *)
LEMMA EndIsEarned ==
    ASSUME SweepInv, SweepEnds
    PROVE  /\ \A r \in DOMAIN listed' :
                /\ r \in DOMAIN listed
                /\ listed'[r] \in [at : Address, misses : Nat]
                /\ listed'[r].misses < MissesBeforeRemoval
                /\ listed'[r].misses <= silent[r]
           /\ \A r \in DOMAIN listed \ DOMAIN listed' : silent[r] >= MissesBeforeRemoval
<1>. USE DEF SweepInv, DlnaTyped
<1>1. MissesBeforeRemoval \in Nat \ {0} /\ \A r \in DOMAIN listed : silent[r] \in Nat
  BY SweepAssumption
<1>2. ASSUME NEW r \in DOMAIN listed
      PROVE  /\ Aged[r] \in [at : Address, misses : Nat]
             /\ Aged[r].misses = 0 \/ Aged[r].misses <= silent[r]
  <2>1. listed[r] \in [at : Address, misses : Nat]
    OBVIOUS
  <2>2. Aged[r] = [listed[r] EXCEPT !.misses = IF r \in DOMAIN answers THEN 0 ELSE @ + 1]
    BY DEF Aged
  <2>3. /\ Aged[r] \in [at : Address, misses : Nat]
        /\ Aged[r].misses = IF r \in DOMAIN answers THEN 0 ELSE listed[r].misses + 1
    BY <2>1, <2>2
  <2>4. r \notin DOMAIN answers => listed[r].misses < silent[r]
    BY DEF MissesEarned, SweepEnds
  <2>. QED
    BY <1>1, <2>1, <2>3, <2>4
<1>3. /\ DOMAIN listed' = DOMAIN listed \ Gone
      /\ \A r \in DOMAIN listed' : listed'[r] = Aged[r]
  BY DEF SweepEnds, Omitting, Aged
<1>4. \A r \in DOMAIN listed : r \in Gone <=> Aged[r].misses >= MissesBeforeRemoval
  BY DEF Gone
<1>. HIDE DEF SweepInv, DlnaTyped
<1>. QED
  BY <1>1, <1>2, <1>3, <1>4

LEMMA SweepStep ==
    ASSUME SweepInv, [DlnaNext]_dlnaVars
    PROVE  SweepInv'
<1>. USE DEF SweepInv
<1>1. CASE NetworkChanges
  <2>1. Located(there')
    BY <1>1, NowhereIs DEF NetworkChanges, DlnaTyped
  <2>. QED
    BY <1>1, <2>1 DEF NetworkChanges, sweepVars, DlnaTyped, MissesEarned, Located
<1>2. CASE SearchGoesOut
  BY <1>2, NowhereIs DEF SearchGoesOut, netVars, DlnaTyped, MissesEarned, Located
<1>3. CASE SearchFails \/ \E r \in Renderer : LosesReply(r) \/ DescriptionFails(r)
  <2>1. /\ UNCHANGED <<there, sweep, answers, listed, silent>>
        /\ announced' = announced \/ \E r : announced' = Omitting(announced, {r})
    BY <1>3 DEF SearchFails, LosesReply, DescriptionFails, netVars
  <2>2. Located(announced) /\ \A r : Located(Omitting(announced, {r}))
    BY NowhereIs DEF DlnaTyped
  <2>3. \A r : DOMAIN Omitting(announced, {r}) \in SUBSET DOMAIN announced
    BY DEF Omitting
  <2>4. Located(announced') /\ DOMAIN announced' \in SUBSET DOMAIN announced
    BY <2>1, <2>2, <2>3
  <2>5. DlnaTyped'
    BY <2>1, <2>4 DEF DlnaTyped, Located
  <2>6. MissesEarned'
    BY <2>1, <2>4 DEF MissesEarned
  <2>. QED
    BY <2>5, <2>6
<1>4. ASSUME NEW r \in Renderer, Replies(r)
      PROVE  SweepInv'
  <2>1. there[r] \in Address
    BY <1>4 DEF Replies, DlnaTyped, Located
  <2>2. /\ UNCHANGED <<there, sweep, listed, silent>> /\ sweep = "searching"
        /\ \/ UNCHANGED <<answers, announced>>
           \/ /\ answers' = With(answers, r, there[r])
              /\ announced' = announced \/ announced' = With(announced, r, there[r])
    BY <1>4 DEF Replies, netVars
  <2>3. Located(announced')
    BY <2>1, <2>2, NowhereIs DEF DlnaTyped
  <2>4. /\ DOMAIN answers' \in SUBSET Renderer
        /\ DOMAIN announced' \subseteq DOMAIN answers'
    BY <2>2 DEF With, DlnaTyped, MissesEarned
  <2>. QED
    BY <2>2, <2>3, <2>4 DEF DlnaTyped, MissesEarned, Located
<1>5. CASE ListenEnds
  <2>1. /\ UNCHANGED <<there, answers, announced, listed>> /\ sweep = "searching"
        /\ sweep' = "ageing"
        /\ silent' = [r \in Renderer |-> IF r \in DOMAIN answers THEN 0
                                         ELSE Least(silent[r] + 1, MissesBeforeRemoval)]
    BY <1>5 DEF ListenEnds, netVars
  <2>2. silent' \in [Renderer -> Nat]
    BY <2>1, SweepAssumption DEF DlnaTyped, Least
  <2>3. ASSUME NEW r \in DOMAIN listed, r \notin DOMAIN answers
        PROVE  listed[r].misses < silent'[r]
    <3>1. /\ r \in Renderer /\ listed[r].misses \in Nat /\ silent[r] \in Nat
          /\ listed[r].misses <= silent[r] /\ listed[r].misses < MissesBeforeRemoval
      BY <2>1 DEF DlnaTyped, MissesEarned
    <3>. QED
      BY <2>1, <2>3, <3>1, SweepAssumption DEF Least
  <2>4. DlnaTyped'
    BY <2>1, <2>2 DEF DlnaTyped, Located
  <2>. QED
    BY <2>1, <2>3, <2>4 DEF MissesEarned
<1>6. ASSUME NEW r \in Renderer, Describes(r)
      PROVE  SweepInv'
  <2>. DEFINE entry == [at |-> announced[r], misses |-> 0]
  <2>1. /\ UNCHANGED <<there, sweep, answers, silent>> /\ r \in DOMAIN announced
        /\ announced' = Omitting(announced, {r})
        /\ listed' = listed \/ listed' = With(listed, r, entry)
    BY <1>6 DEF Describes, netVars
  <2>2. /\ Located(announced') /\ DOMAIN announced' \in SUBSET DOMAIN announced
        /\ announced[r] \in Address
    BY <2>1, NowhereIs DEF Omitting, DlnaTyped, Located
  <2>3. entry \in [at : Address, misses : Nat] /\ entry.misses = 0
    BY <2>2
  <2>. HIDE DEF entry
  <2>4. /\ DOMAIN listed' \in SUBSET Renderer
        /\ \A q \in DOMAIN listed' : (q \in DOMAIN listed /\ listed'[q] = listed[q])
                                      \/ (q = r /\ listed'[q] = entry)
    BY <2>1 DEF With, DlnaTyped
  <2>5. DlnaTyped'
    BY <2>1, <2>2, <2>3, <2>4 DEF DlnaTyped, Located
  <2>6. silent[r] \in Nat /\ MissesBeforeRemoval \in Nat \ {0}
    BY SweepAssumption DEF DlnaTyped
  <2>7. r \in DOMAIN answers /\ DOMAIN announced' \subseteq DOMAIN answers
    BY <2>1, <2>2 DEF MissesEarned
  <2>8. ASSUME NEW q \in DOMAIN listed'
        PROVE  /\ listed'[q].misses < MissesBeforeRemoval
               /\ sweep # "ageing" => listed'[q].misses <= silent[q]
               /\ sweep = "ageing" /\ q \notin DOMAIN answers => listed'[q].misses < silent[q]
    <3>1. CASE q \in DOMAIN listed /\ listed'[q] = listed[q]
      BY <3>1 DEF MissesEarned
    <3>2. CASE q = r /\ listed'[q] = entry
      BY <3>2, <2>3, <2>6, <2>7
    <3>. QED
      BY <2>4, <3>1, <3>2
  <2>9. MissesEarned'
    BY <2>1, <2>7, <2>8 DEF MissesEarned
  <2>. QED
    BY <2>5, <2>9
<1>7. CASE SweepEnds
  <2>1. /\ UNCHANGED <<there, announced, silent>> /\ sweep' = "waiting"
        /\ announced = Nowhere /\ answers' = Nowhere
    BY <1>7 DEF SweepEnds, netVars
  <2>2. \A r \in DOMAIN listed' :
            /\ r \in DOMAIN listed
            /\ listed'[r] \in [at : Address, misses : Nat]
            /\ listed'[r].misses < MissesBeforeRemoval
            /\ listed'[r].misses <= silent[r]
    BY <1>7, EndIsEarned
  <2>3. DlnaTyped'
    BY <2>1, <2>2, NowhereIs DEF DlnaTyped, Located
  <2>. QED
    BY <2>1, <2>2, <2>3, NowhereIs DEF MissesEarned
<1>8. CASE UNCHANGED dlnaVars
  BY <1>8 DEF dlnaVars, netVars, sweepVars, DlnaTyped, MissesEarned, Located
<1>. QED
  BY <1>1, <1>2, <1>3, <1>4, <1>5, <1>6, <1>7, <1>8 DEF DlnaNext

(* The safety part of RenderersAreListed, for any renderers, addresses,    *)
(* changes and troubles: one that drops out of the list was silent for as  *)
(* many whole searches as MISSES_BEFORE_REMOVAL.                           *)
THEOREM NoRendererFlickers == DlnaSpec => NoFlicker
<1>1. SweepInv /\ [DlnaNext]_dlnaVars =>
        [\A r \in DOMAIN listed \ DOMAIN listed' : silent[r] >= MissesBeforeRemoval]_dlnaVars
  <2>. SUFFICES ASSUME SweepInv, DlnaNext
                PROVE  \A r \in DOMAIN listed \ DOMAIN listed' : silent[r] >= MissesBeforeRemoval
    OBVIOUS
  <2>1. CASE SweepEnds
    BY <2>1, EndIsEarned
  <2>2. CASE ~SweepEnds
    <3>1. listed' = listed \/ \E r : listed' = With(listed, r, [at |-> announced[r], misses |-> 0])
      BY <2>2 DEF DlnaNext, NetworkChanges, sweepVars, SearchGoesOut, SearchFails, ListenEnds,
                  Replies, LosesReply, Describes, DescriptionFails
    <3>2. DOMAIN listed \subseteq DOMAIN listed'
      BY <3>1 DEF With
    <3>. QED
      BY <3>2
  <2>. QED
    BY <2>1, <2>2
<1>. QED
  BY <1>1, SweepBegins, SweepStep, PTL DEF DlnaSpec, NoFlicker

-----------------------------------------------------------------------------
(* The Wi-Fi Direct search. *)

Places == {"off", "locking", "opening", "starting", "following", "stopping", "retrying", "ended"}

(* DISCOVERY_LOCK is held by one scan at a time, whatever its step.         *)
OneHolds == \A g, h \in Scan : at[g] \in Holding /\ at[h] \in Holding => g = h

SearchInv == at \in [Scan -> Places] /\ OneHolds /\ SearchIsOn

LEMMA SearchBegins ==
    ASSUME WfdInit
    PROVE  SearchInv
<1>. QED
  BY DEF WfdInit, SearchInv, Places, OneHolds, Holding, SearchIsOn

(* A task that goes on while it holds the lock, or lets go of it, shares it *)
(* with nobody.                                                             *)
LEMMA StillOneHolds ==
    ASSUME at \in [Scan -> Places], OneHolds, NEW g \in Scan, NEW where \in Places,
           Becomes(g, where),
           \/ at[g] \in Holding
           \/ where \notin Holding
           \/ \A h \in Scan : at[h] \notin Holding
    PROVE  /\ at' \in [Scan -> Places] /\ OneHolds'
           /\ at'[g] = where /\ \A h \in Scan : h # g => at'[h] = at[h]
<1>1. at' = [at EXCEPT ![g] = where]
  BY DEF Becomes
<1>2. /\ at' \in [Scan -> Places]
      /\ at'[g] = where /\ \A h \in Scan : h # g => at'[h] = at[h]
  BY <1>1
<1>. QED
  BY <1>2 DEF OneHolds

LEMMA RescanKeeps ==
    ASSUME SearchInv, Rescan
    PROVE  SearchInv'
<1>1. PICK g \in Scan \ {MaxScans} :
          /\ at[g] # "off" /\ at[g + 1] = "off"
          /\ at' = [at EXCEPT ![g + 1] = "locking"]
          /\ UNCHANGED <<finding, renewing>>
  BY DEF Rescan
<1>2. /\ at' \in [Scan -> Places]
      /\ \A h \in Scan : at'[h] = at[h] \/ at'[h] = "locking"
  BY <1>1 DEF SearchInv, Places
<1>. QED
  BY <1>1, <1>2 DEF SearchInv, OneHolds, SearchIsOn, Holding

LEMMA TaskKeeps ==
    ASSUME SearchInv, NEW g \in Scan, Steps(g) \/ FailsToFollow(g)
    PROVE  SearchInv'
<1>. USE DEF SearchInv
<1>1. CASE TakesLock(g) \/ Abandons(g) \/ Retries(g) \/ Opens(g)
  <2>1. UNCHANGED <<finding, renewing>>
    BY <1>1 DEF TakesLock, Abandons, Retries, Opens
  <2>2. \E where \in Places \ {"following"} :
            /\ Becomes(g, where)
            /\ at[g] \in Holding \/ where \notin Holding \/ \A h \in Scan : at[h] \notin Holding
    BY <1>1 DEF TakesLock, Abandons, Retries, Opens, Places, Holding
  <2>3. /\ at' \in [Scan -> Places] /\ OneHolds'
        /\ \A h \in Scan : at'[h] = "following" => at[h] = "following"
    BY <2>2, StillOneHolds
  <2>. QED
    BY <2>1, <2>3 DEF SearchIsOn
<1>2. CASE StartsFind(g)
  <2>1. at[g] \in Holding /\ Becomes(g, "following") /\ "following" \in Places /\ finding' = "on"
    BY <1>2 DEF StartsFind, Holding, Places
  <2>2. at' \in [Scan -> Places] /\ OneHolds'
    BY <2>1, StillOneHolds
  <2>. QED
    BY <2>1, <2>2 DEF SearchIsOn
<1>3. CASE FailsToFollow(g) \/ SeesClosed(g)
  <2>1. /\ at[g] \in Holding /\ Becomes(g, "stopping") /\ "stopping" \in Places
        /\ renewing' = "over"
    BY <1>3 DEF FailsToFollow, SeesClosed, LetsGo, Holding, Places
  <2>2. at' \in [Scan -> Places] /\ OneHolds'
    BY <2>1, StillOneHolds
  <2>. QED
    BY <2>1, <2>2 DEF SearchIsOn
<1>4. CASE StopsFind(g)
  <2>1. at[g] = "stopping" /\ at[g] \in Holding
    BY <1>4 DEF StopsFind, Holding
  <2>2. \E where \in {"retrying", "ended"} : where \in Places /\ Becomes(g, where)
    BY <1>4 DEF StopsFind, Places
  <2>3. /\ at' \in [Scan -> Places] /\ OneHolds'
        /\ at'[g] # "following" /\ \A h \in Scan : h # g => at'[h] = at[h]
    BY <2>1, <2>2, StillOneHolds
  <2>4. \A h \in Scan : h # g => at[h] # "following"
    BY <2>1 DEF OneHolds, Holding
  <2>. QED
    BY <2>3, <2>4 DEF SearchIsOn
<1>5. CASE Added(g) \/ Removed(g)
  BY <1>5 DEF Added, Removed, taskVars, OneHolds, SearchIsOn
<1>. QED
  BY <1>1, <1>2, <1>3, <1>4, <1>5 DEF Steps

LEMMA SearchStep ==
    ASSUME SearchInv, [WfdNext]_wfdVars
    PROVE  SearchInv'
<1>1. CASE Rescan
  BY <1>1, RescanKeeps
<1>2. CASE Renews \/ Resumes
  BY <1>2 DEF Renews, Resumes, Looks, taskVars, SearchInv, OneHolds, SearchIsOn
<1>3. CASE Pauses
  BY <1>3 DEF Pauses, taskVars, SearchInv, OneHolds, SearchIsOn
<1>4. CASE Expires
  BY <1>4 DEF Expires, Following, taskVars, SearchInv, OneHolds, SearchIsOn
<1>5. CASE AdapterChanges
  BY <1>5 DEF AdapterChanges, taskVars, SearchInv, OneHolds, SearchIsOn
<1>6. CASE ReadsPeer \/ StreamBegins \/ StreamEnds \/ \E r \in Receiver : Arrives(r) \/ Departs(r)
  BY <1>6 DEF ReadsPeer, StreamBegins, StreamEnds, Arrives, Departs, taskVars, SearchInv,
              OneHolds, SearchIsOn
<1>7. CASE \E g \in Scan : Steps(g) \/ FailsToFollow(g)
  BY <1>7, TaskKeeps
<1>8. CASE UNCHANGED wfdVars
  BY <1>8 DEF wfdVars, taskVars, SearchInv, OneHolds, SearchIsOn
<1>. QED
  BY <1>1, <1>2, <1>3, <1>4, <1>5, <1>6, <1>7, <1>8 DEF WfdNext

(* The safety part of PeersAreListed, for any number of scans, receivers,  *)
(* streams and faults: while a scan follows the receivers and renews the   *)
(* machine's search, no scan it replaced has switched that search off.     *)
THEOREM SearchStaysOn == WfdSpec => []SearchIsOn
<1>1. SearchInv => SearchIsOn
  BY DEF SearchInv
<1>. QED
  BY <1>1, SearchBegins, SearchStep, PTL DEF WfdSpec

-----------------------------------------------------------------------------
(* The simple sinks. *)

Idle == {"Disconnected", "Error"}
Running == Busy \cup {"Streaming"}
Modes == {"none", "mirroring", "http", "published"}
Statuses ==
    [state : Idle \cup Running, message : BOOLEAN, link : [mode : Modes, receivers : Int]]
Sessions == {"mirroring", "http", "published"}

(* The status a sink shows while it runs, and while it does not.           *)
Shows(s, mode) == s.state \in Running /\ ~s.message /\ (s.link # NoLink => s.link.mode = mode)
Rests(s) == s.state \in Idle /\ s.link = NoLink

(* What it shows of a session that returned this.                          *)
Tells(s, result) ==
    /\ s.state = (IF result = "error" THEN "Error" ELSE "Disconnected")
    /\ s.message <=> result = "error"

SinkInv ==
    /\ status \in Statuses
    /\ \/ caller \in {"idle", "begun"} /\ doing = "out"
       \/ caller \in {"playing", "stopping"} /\ doing \in {"unpolled"} \cup Sessions
    /\ doing \notin Sessions => Rests(status) /\ slot = "empty" /\ pipeline = FALSE
    /\ doing \in Sessions => Shows(status, doing) /\ sink.made # "dummy"
    /\ doing \notin Sessions => Tells(status, outcome)
    /\ capture = (caller # "idle")

LEMMA FreshRests ==
    /\ Fresh \in Statuses /\ Rests(Fresh) /\ NoLink \in [mode : Modes, receivers : Int]
    /\ \A result \in {"none", "ok"} : Tells(Fresh, result)
<1>. QED
  BY DEF Fresh, Statuses, Rests, Idle, NoLink, Modes, Tells

LEMMA SetTells ==
    ASSUME NEW s \in Statuses
    PROVE  /\ \A state \in Running :
                /\ Set(s, state) \in Statuses /\ Set(s, state).state = state
                /\ ~Set(s, state).message /\ Set(s, state).link = s.link
           /\ Set(s, "Disconnected") \in Statuses
           /\ s.state \in Running =>
                  Rests(Set(s, "Disconnected")) /\ Tells(Set(s, "Disconnected"), "ok")
           /\ FailedWith(s) \in Statuses /\ Rests(FailedWith(s))
           /\ Tells(FailedWith(s), "error")
<1>1. /\ NoLink \in [mode : Modes, receivers : Int]
      /\ s.link \in [mode : Modes, receivers : Int] /\ s.message \in BOOLEAN
      /\ s.state \in Idle \cup Running
  BY FreshRests DEF Statuses
<1>2. ASSUME NEW state \in Running
      PROVE  /\ Set(s, state) \in Statuses /\ Set(s, state).state = state
             /\ ~Set(s, state).message /\ Set(s, state).link = s.link
  <2>1. state \notin Idle /\ state # "Error" /\ state # "Disconnected"
    BY DEF Running, Busy, Idle
  <2>2. Set(s, state) = [state |-> state, message |-> FALSE, link |-> s.link]
    BY <2>1, <1>1 DEF Set
  <2>. QED
    BY <1>1, <2>2 DEF Statuses
<1>3. \/ Set(s, "Disconnected") = s /\ s.state = "Error"
      \/ Set(s, "Disconnected") = [state |-> "Disconnected", message |-> FALSE, link |-> NoLink]
  BY <1>1 DEF Set
<1>4. Set(s, "Disconnected") \in Statuses
  <2>1. "Disconnected" \in Idle
    BY DEF Idle
  <2>2. [state |-> "Disconnected", message |-> FALSE, link |-> NoLink] \in Statuses
    BY <1>1, <2>1 DEF Statuses
  <2>. QED
    BY <1>3, <2>2
<1>5. s.state \in Running =>
          Rests(Set(s, "Disconnected")) /\ Tells(Set(s, "Disconnected"), "ok")
  BY <1>3 DEF Running, Busy, Rests, Idle, Tells
<1>6. FailedWith(s) \in Statuses /\ Rests(FailedWith(s)) /\ Tells(FailedWith(s), "error")
  BY <1>1 DEF FailedWith, Statuses, Rests, Idle, Tells
<1>. QED
  BY <1>2, <1>4, <1>5, <1>6

LEMMA LinkTells ==
    ASSUME NEW s \in Statuses
    PROVE  /\ \A mode \in Modes, n \in Int :
                /\ SetLink(s, mode, n) \in Statuses /\ SetLink(s, mode, n).link.mode = mode
                /\ SetLink(s, mode, n).state = s.state /\ SetLink(s, mode, n).message = s.message
           /\ \A n \in Int, mode \in Modes :
                /\ SetReceivers(s, n) \in Statuses
                /\ Shows(s, mode) => Shows(SetReceivers(s, n), mode)
<1>1. \A mode \in Modes, n \in Int :
          /\ SetLink(s, mode, n) \in Statuses /\ SetLink(s, mode, n).link.mode = mode
          /\ SetLink(s, mode, n).state = s.state /\ SetLink(s, mode, n).message = s.message
  BY DEF SetLink, Statuses
<1>2. ASSUME NEW n \in Int, NEW mode \in Modes
      PROVE  /\ SetReceivers(s, n) \in Statuses
             /\ Shows(s, mode) => Shows(SetReceivers(s, n), mode)
  <2>1. CASE s.link = NoLink
    BY <2>1 DEF SetReceivers
  <2>2. CASE s.link # NoLink
    <3>1. SetReceivers(s, n) = [s EXCEPT !.link = [s.link EXCEPT !.receivers = n]]
      BY <2>2 DEF SetReceivers
    <3>2. /\ [s.link EXCEPT !.receivers = n] \in [mode : Modes, receivers : Int]
          /\ [s.link EXCEPT !.receivers = n].mode = s.link.mode
      BY DEF Statuses
    <3>3. /\ SetReceivers(s, n) \in Statuses /\ SetReceivers(s, n).link.mode = s.link.mode
          /\ SetReceivers(s, n).state = s.state /\ SetReceivers(s, n).message = s.message
      BY <3>1, <3>2 DEF Statuses
    <3>. QED
      BY <2>2, <3>3 DEF Shows
  <2>. QED
    BY <2>1, <2>2
<1>. QED
  BY <1>1, <1>2

LEMMA SinkBegins ==
    ASSUME SinkInit
    PROVE  SinkInv
<1>. QED
  BY FreshRests DEF SinkInit, SinkInv, Sessions

(* A session that returns leaves a status that rests and tells its result. *)
LEMMA ReturnTells ==
    ASSUME NEW result \in {"ok", "error"}, NEW s \in Statuses, Returns(result, s), Rests(s),
           Tells(s, result)
    PROVE  SinkInv'
<1>. QED
  BY DEF Returns, SinkInv, Sessions

LEMMA SessionKeeps ==
    ASSUME SinkInv,
           \/ RefusedAtOnce \/ CastStarts \/ NdiStarts
           \/ \E state \in Busy : Connecting(state)
           \/ Agrees \/ Streams \/ MirroringUnsupported \/ CastFails \/ CastEnds
           \/ \E n \in 0..2 : Counts(n)
           \/ PublicationFails \/ PublicationEnds \/ HearsSignal
    PROVE  SinkInv'
<1>. DEFINE Ready == SetLink(Set(Fresh, "WaitStreaming"), "published", 0)
<1>1. /\ status \in Statuses /\ "Connecting" \in Running /\ "WaitStreaming" \in Running
      /\ "Streaming" \in Running /\ Busy \subseteq Running
  BY DEF SinkInv, Running, Busy
<1>2. ASSUME NEW s \in Statuses, doing' \in Sessions, Shows(s, doing'), status' = s,
             caller' \in {"playing", "stopping"}, sink.made # "dummy",
             UNCHANGED <<sink, capture>>, capture
      PROVE  SinkInv'
  BY <1>2 DEF SinkInv, Sessions
<1>3. doing # "out" => caller \in {"playing", "stopping"} /\ capture
  BY DEF SinkInv, Sessions
<1>4. doing \in Sessions => Shows(status, doing) /\ status.state \in Running /\ sink.made # "dummy"
  BY DEF SinkInv, Shows
<1>5. CASE RefusedAtOnce \/ CastFails \/ PublicationFails
  <2>1. Returns("error", FailedWith(status))
    BY <1>5 DEF RefusedAtOnce, CastFails, PublicationFails
  <2>. QED
    BY <1>1, <2>1, SetTells, ReturnTells
<1>6. CASE CastStarts
  <2>1. /\ doing' = "mirroring" /\ status' = Set(Fresh, "Connecting")
        /\ doing = "unpolled" /\ sink.made = "mdns" /\ UNCHANGED <<sink, caller, capture>>
    BY <1>6 DEF CastStarts, Polled
  <2>2. Set(Fresh, "Connecting") \in Statuses /\ Shows(Set(Fresh, "Connecting"), "mirroring")
    BY <1>1, FreshRests, SetTells DEF Shows, Rests
  <2>. QED
    BY <1>2, <1>3, <2>1, <2>2 DEF Sessions
<1>7. CASE NdiStarts
  <2>1. CASE Returns("error", FailedWith(status))
    BY <1>1, <2>1, SetTells, ReturnTells
  <2>2. CASE /\ doing' = "published" /\ doing = "unpolled" /\ sink.made = "ndi"
             /\ status' = Set(Ready, "Streaming") /\ UNCHANGED <<sink, caller, capture>>
    <3>1. Ready \in Statuses /\ Ready.link.mode = "published"
      <4>1. Set(Fresh, "WaitStreaming") \in Statuses /\ "published" \in Modes /\ 0 \in Int
        <5>1. Fresh \in Statuses
          BY FreshRests
        <5>2. Set(Fresh, "WaitStreaming") \in Statuses
          BY <1>1, <5>1, SetTells
        <5>. QED
          BY <5>2 DEF Modes
      <4>. QED
        BY <4>1, LinkTells
    <3>. HIDE DEF Ready
    <3>2. Set(Ready, "Streaming") \in Statuses /\ Shows(Set(Ready, "Streaming"), "published")
      BY <1>1, <3>1, SetTells DEF Shows
    <3>. QED
      BY <1>2, <1>3, <2>2, <3>2 DEF Sessions
  <2>. QED
    BY <1>7, <2>1, <2>2 DEF NdiStarts, Polled
<1>8. CASE Streams \/ \E state \in Busy : Connecting(state)
  <2>1. PICK state \in Running :
            /\ doing \in {"mirroring", "http"} /\ status' = Set(status, state)
            /\ UNCHANGED <<sink, caller, doing, capture>>
    BY <1>1, <1>8 DEF Streams, Connecting
  <2>2. Set(status, state) \in Statuses /\ Shows(Set(status, state), doing)
    BY <1>1, <1>4, <2>1, SetTells DEF Shows, Sessions
  <2>. QED
    BY <1>2, <1>3, <1>4, <2>1, <2>2 DEF Sessions
<1>9. CASE Agrees
  <2>1. /\ doing \in {"mirroring", "http"} /\ status' = SetLink(status, doing, -1)
        /\ UNCHANGED <<sink, caller, doing, capture>>
    BY <1>9 DEF Agrees
  <2>2. SetLink(status, doing, -1) \in Statuses /\ Shows(SetLink(status, doing, -1), doing)
    <3>1. doing \in Modes /\ doing \in Sessions /\ -1 \in Int
      BY <2>1 DEF Modes, Sessions
    <3>2. /\ SetLink(status, doing, -1) \in Statuses
          /\ SetLink(status, doing, -1).link.mode = doing
          /\ SetLink(status, doing, -1).state = status.state
          /\ SetLink(status, doing, -1).message = status.message
      BY <1>1, <3>1, LinkTells
    <3>. QED
      BY <1>4, <3>1, <3>2 DEF Shows
  <2>. QED
    BY <1>2, <1>3, <1>4, <2>1, <2>2 DEF Sessions
<1>10. CASE MirroringUnsupported
  <2>1. doing = "mirroring" /\ status.state \in Running /\ sink.made # "dummy"
    BY <1>4, <1>10 DEF MirroringUnsupported, Sessions
  <2>2. CASE Returns("ok", Set(status, "Disconnected"))
    BY <1>1, <2>1, <2>2, SetTells, ReturnTells
  <2>3. CASE /\ doing' = "http" /\ status' = Set(Fresh, "Connecting")
             /\ UNCHANGED <<sink, caller, capture>>
    <3>1. Set(Fresh, "Connecting") \in Statuses /\ Shows(Set(Fresh, "Connecting"), "http")
      BY <1>1, FreshRests, SetTells DEF Shows, Rests
    <3>. QED
      BY <1>2, <1>3, <2>1, <2>3, <3>1 DEF Sessions
  <2>. QED
    BY <1>10, <2>2, <2>3 DEF MirroringUnsupported, FallbackStatus
<1>11. CASE CastEnds
  <2>1. doing \in Sessions /\ Returns("ok", Set(status, "Disconnected"))
    BY <1>11 DEF CastEnds, Sessions
  <2>. QED
    BY <1>1, <1>4, <2>1, SetTells, ReturnTells
<1>12. CASE \E n \in 0..2 : Counts(n)
  <2>1. PICK n \in Int :
            /\ doing = "published" /\ status' = SetReceivers(status, n)
            /\ UNCHANGED <<sink, caller, doing, capture>>
    BY <1>12 DEF Counts
  <2>2. SetReceivers(status, n) \in Statuses /\ Shows(SetReceivers(status, n), doing)
    BY <1>1, <1>4, <2>1, LinkTells DEF Sessions, Modes
  <2>. QED
    BY <1>2, <1>3, <1>4, <2>1, <2>2 DEF Sessions
<1>13. CASE PublicationEnds \/ HearsSignal
  <2>1. Returns("ok", Fresh)
    BY <1>13 DEF PublicationEnds, HearsSignal
  <2>. QED
    BY <2>1, FreshRests, ReturnTells
<1>. QED
  BY <1>5, <1>6, <1>7, <1>8, <1>9, <1>10, <1>11, <1>12, <1>13

LEMMA SinkStep ==
    ASSUME SinkInv, [SinkNext]_sinkVars
    PROVE  SinkInv'
<1>1. CASE CastBegins
  BY <1>1 DEF CastBegins, SinkInv, Sessions
<1>2. CASE Cancels
  BY <1>2 DEF Cancels, SinkInv
<1>3. CASE Checks \/ CaptureFails
  BY <1>3 DEF Checks, CaptureFails, SinkInv, Sessions
<1>4. CASE HearsCancel
  <2>1. /\ caller = "playing" /\ doing \in Sessions /\ sink.made # "dummy" /\ caller' = "stopping"
        /\ UNCHANGED <<sink, doing, capture, status>>
    BY <1>4 DEF HearsCancel, SessionFirst, SinkInv
  <2>. QED
    BY <2>1 DEF SinkInv
<1>5. CASE \/ RefusedAtOnce \/ CastStarts \/ NdiStarts
           \/ \E state \in Busy : Connecting(state)
           \/ Agrees \/ Streams \/ MirroringUnsupported \/ CastFails \/ CastEnds
           \/ \E n \in 0..2 : Counts(n)
           \/ PublicationFails \/ PublicationEnds \/ HearsSignal
  BY <1>5, SessionKeeps
<1>6. CASE UNCHANGED sinkVars
  BY <1>6 DEF sinkVars, SinkInv
<1>. QED
  BY <1>1, <1>2, <1>3, <1>4, <1>5, <1>6 DEF SinkNext

(* For any number of casts, failures and counts: a sink that rests shows an *)
(* error exactly if the last session it was asked for failed, one that runs *)
(* shows none and only the mode that its present attempt agreed, and the    *)
(* capture is held just as long as the task runs.                           *)
THEOREM StatusTrue == SinkSpec => []StatusTellsOutcome
<1>1. SinkInv => StatusTellsOutcome
  BY DEF SinkInv, StatusTellsOutcome, Shows, Rests, Idle, Running, Sessions, Tells
<1>. QED
  BY <1>1, SinkBegins, SinkStep, PTL DEF SinkSpec

-----------------------------------------------------------------------------
(* The requests to a renderer. *)

(* Where a service was found: in a block of the description, which is of   *)
(* the type asked for, and at that block's own address.                    *)
Described(s) ==
    \E i \in 1..Len(description) :
        /\ description[i].type = s.type /\ s.type.name = Asked
        /\ s.endpoint \in Resolve(description[i].control)

UnderWay == request \in {"connecting", "head", "body"}

UpnpInv ==
    /\ description \in Seq(Blocks)
    /\ reply.head \in Nat /\ reply.extra \in Nat
    /\ UnderWay =>
        /\ got \in Nat /\ sent \in Nat /\ got <= sent /\ sent <= Pieces
        /\ hungUp => sent = Pieces
    /\ request = "body" \/ (request = "done" /\ answer = "answered") =>
        got \in Nat /\ got >= reply.head
    /\ HeldOpenIsAnswered
    /\ service # NoService => Described(service)
    /\ posted # NoService => Described(posted)

(* The library orders the naturals; the first of several has a place.      *)
LEMMA FirstIs ==
    ASSUME NEW S \in SUBSET Nat, S # {}
    PROVE  Min(S) \in S
<1>. DEFINE Before == OpToRel(<, Nat)
<1>1. IsWellFoundedOn(Before, Nat)
  BY NatLessThanWellFounded
<1>2. \A x, y \in Nat : y < x => <<y, x>> \in Before
  BY DEF OpToRel
<1>. HIDE DEF Before
<1>3. PICK x \in S : \A y \in S : ~(<<y, x>> \in Before)
  BY <1>1, WFMin
<1>4. \A y \in S : ~(y < x)
  BY <1>2, <1>3
<1>5. \A y \in S : x =< y
  BY <1>4
<1>. QED
  BY <1>5 DEF Min

(* An address a description gives is on its own device, and a plain copy   *)
(* of it is the same address.                                              *)
LEMMA ResolveStays ==
    ASSUME NEW target, NEW e \in Resolve(target)
    PROVE  e.host = Location.host /\ e = [host |-> e.host, path |-> e.path]
<1>1. \E h, p : e = [host |-> h, path |-> p] /\ h = Location.host
  BY DEF Resolve, Parse
<1>. QED
  BY <1>1

(* What Find returns of a description cut short was described.             *)
LEMMA FindFinds ==
    ASSUME NEW D \in Seq(Blocks), NEW n \in 0..Len(D), NEW s \in Find(SubSeq(D, 1, n), Asked)
    PROVE  \E i \in 1..Len(D) :
               /\ D[i].type = s.type /\ s.type.name = Asked
               /\ s.endpoint \in Resolve(D[i].control)
<1>. DEFINE read == SubSeq(D, 1, n)
            own == {i \in 1..Len(read) : IsStandardService(read[i].type, Asked)}
<1>1. /\ Len(D) \in Nat /\ Len(read) = n
      /\ \A i \in 1..n : read[i] = D[i]
  <2>1. \A i \in 1..n : D[i] \in Blocks
    OBVIOUS
  <2>2. /\ Len(read) = IF 1 <= n THEN n - 1 + 1 ELSE 0
        /\ \A i \in 1..(n - 1 + 1) : read[i] = D[1 + i - 1]
    BY <2>1, SubSeqProperties
  <2>. QED
    BY <2>2
<1>. HIDE DEF read
<1>2. own # {} /\ s \in {[type |-> read[Min(own)].type, endpoint |-> e] :
                             e \in UNION {Resolve(c) : c \in ControlOf(read[Min(own)])}}
  BY DEF Find, read
<1>3. /\ own \in SUBSET Nat
      /\ \A i \in own : i \in 1..n /\ read[i].type.name = Asked
  BY <1>1 DEF IsStandardService
<1>. HIDE DEF own
<1>4. PICK i \in own : i = Min(own)
  BY <1>2, <1>3, FirstIs
<1>5. PICK e \in UNION {Resolve(c) : c \in ControlOf(read[i])} :
          s = [type |-> read[i].type, endpoint |-> e]
  BY <1>2, <1>4
<1>6. e \in Resolve(read[i].control)
  BY <1>5 DEF ControlOf
<1>7. i \in 1..Len(D) /\ read[i] = D[i] /\ read[i].type.name = Asked
  BY <1>1, <1>3, <1>4
<1>. QED
  BY <1>5, <1>6, <1>7

LEMMA RequestBegins ==
    ASSUME UpnpInit
    PROVE  UpnpInv
<1>1. description \in Seq(Blocks)
  <2>1. PICK n \in 0..MaxBlocks : description \in [1..n -> Blocks]
    BY DEF UpnpInit
  <2>2. n \in Nat
    BY <2>1, ReplyAssumption
  <2>. QED
    BY <2>1, <2>2, SeqDef
<1>. QED
  BY <1>1 DEF UpnpInit, UpnpInv, UnderWay, NoReply, HeldOpenIsAnswered

(* Asked by the service as found or as handed over, it is the same place.  *)
LEMMA DestinationIs ==
    ASSUME UpnpInv, service # NoService, NEW d \in Destination
    PROVE  d # NoService => Described(d)
<1>1. CASE d = service
  BY <1>1 DEF UpnpInv
<1>2. CASE d \in FromParts(ToUpnp(service))
  <2>1. PICK i \in 1..Len(description) :
            /\ description[i].type = service.type /\ service.type.name = Asked
            /\ service.endpoint \in Resolve(description[i].control)
    BY DEF UpnpInv, Described
  <2>2. PICK e \in Parse(ToUpnp(service).control) :
            d = [type |-> ToUpnp(service).type, endpoint |-> e]
    BY <1>2 DEF FromParts
  <2>3. /\ ToUpnp(service).type = service.type
        /\ ToUpnp(service).control = [form |-> "absolute", host |-> service.endpoint.host,
                                      path |-> service.endpoint.path]
    BY DEF ToUpnp
  <2>4. e = [host |-> service.endpoint.host, path |-> service.endpoint.path]
    BY <2>2, <2>3 DEF Parse
  <2>5. e = service.endpoint
    BY <2>1, <2>4, ResolveStays
  <2>6. d.type = service.type /\ d.endpoint = service.endpoint
    BY <2>2, <2>3, <2>5
  <2>. QED
    BY <2>1, <2>6 DEF Described
<1>. QED
  BY <1>1, <1>2 DEF Destination

LEMMA PiecesCounted ==
    ASSUME UpnpInv
    PROVE  /\ Len(description) \in Nat /\ BodyPieces \in Nat /\ Pieces \in Nat
           /\ reply.complete => Pieces = reply.head + BodyPieces
<1>1. Len(description) \in Nat /\ reply.head \in Nat /\ reply.extra \in Nat
  BY DEF UpnpInv
<1>2. BodyPieces \in Nat
  BY <1>1 DEF BodyPieces
<1>. QED
  BY <1>1, <1>2 DEF Pieces

LEMMA AsksKeeps ==
    ASSUME UpnpInv, NEW r \in Framings, Asks(r)
    PROVE  UpnpInv'
<1>1. /\ UNCHANGED <<description, purpose, service>>
      /\ request' = "connecting" /\ reply' = r /\ sent' = 0 /\ got' = 0 /\ hungUp' = FALSE
      /\ posted' = posted \/ (service # NoService /\ posted' \in Destination)
  BY DEF Asks
<1>2. r.head \in Nat /\ r.extra \in Nat
  BY ReplyAssumption
<1>3. Pieces' \in Nat
  BY <1>1, <1>2 DEF Pieces, BodyPieces, UpnpInv
<1>4. posted' # NoService => Described(posted')
  BY <1>1, DestinationIs DEF UpnpInv
<1>. QED
  BY <1>1, <1>2, <1>3, <1>4 DEF UpnpInv, UnderWay, HeldOpenIsAnswered, Described

(* The reply: none of it is read that was not sent, and one that is all    *)
(* there, as long as it was declared and within the limit, is answered.    *)
LEMMA ReplyKeeps ==
    ASSUME UpnpInv,
           \/ ConnectFails \/ Connects \/ DeviceSends \/ DeviceCloses
           \/ ReadsHead \/ FramesBody \/ ReadsBody \/ Answered \/ TimesOut
    PROVE  UpnpInv'
<1>1. /\ UNCHANGED <<description, purpose, reply, service, posted>> /\ UnderWay
  BY DEF ConnectFails, Connects, DeviceSends, DeviceCloses, ReadsHead, FramesBody, ReadsBody,
         Answered, TimesOut, Fails, Receiving, UnderWay
<1>2. /\ Len(description) \in Nat /\ BodyPieces \in Nat /\ Pieces \in Nat
      /\ reply.complete => Pieces = reply.head + BodyPieces
      /\ got \in Nat /\ sent \in Nat /\ got <= sent /\ sent <= Pieces
      /\ hungUp => sent = Pieces
      /\ reply.head \in Nat /\ MaxResponse \in Nat
      /\ request = "body" => got >= reply.head
  BY <1>1, PiecesCounted, ReplyAssumption DEF UpnpInv
<1>3. ASSUME got = Pieces, ~HeadRead
      PROVE  ~reply.complete
  <2>1. reply.complete => got >= reply.head
    BY <1>2, <1>3
  <2>. QED
    BY <1>3, <2>1 DEF HeadRead
<1>4. BodyPieces' = BodyPieces /\ Pieces' = Pieces
  BY <1>1 DEF BodyPieces, Pieces
<1>5. /\ service # NoService => Described(service)'
      /\ posted # NoService => Described(posted)'
  BY <1>1 DEF UpnpInv, Described
<1>6. ASSUME UnderWay', got' \in Nat, sent' \in Nat, got' <= sent', sent' <= Pieces,
             hungUp' => sent' = Pieces,
             request' = "body" => got' >= reply.head
      PROVE  UpnpInv'
  BY <1>1, <1>2, <1>4, <1>5, <1>6 DEF UpnpInv, UnderWay, HeldOpenIsAnswered
<1>7. ASSUME request' = "done",
             answer' = "answered" => got' \in Nat /\ got' >= reply.head,
             HeldOpenIsAnswered'
      PROVE  UpnpInv'
  BY <1>1, <1>2, <1>4, <1>5, <1>7 DEF UpnpInv, UnderWay
<1>8. CASE ConnectFails
  BY <1>7, <1>8 DEF ConnectFails, Fails, HeldOpenIsAnswered
<1>9. CASE Connects
  BY <1>2, <1>6, <1>9 DEF Connects, UnderWay
<1>10. CASE DeviceSends
  BY <1>2, <1>6, <1>10 DEF DeviceSends, Receiving, UnderWay
<1>11. CASE DeviceCloses
  BY <1>2, <1>6, <1>11 DEF DeviceCloses, Receiving, UnderWay
<1>12. CASE ReadsHead
  <2>1. request = "head" /\ ~HeadRead
    BY <1>12 DEF ReadsHead
  <2>2. CASE Reads /\ UNCHANGED <<sent, hungUp>> /\ ~(got' > MaxResponse) /\ UNCHANGED request
    BY <1>2, <1>6, <2>1, <2>2 DEF Reads, UnderWay
  <2>3. CASE /\ Reads /\ UNCHANGED <<sent, hungUp>> /\ got' > MaxResponse
             /\ request' = "done" /\ answer' = "oversized"
    <3>1. got' \in Nat /\ got' <= Pieces
      BY <1>2, <2>3 DEF Reads
    <3>2. ~(reply.complete /\ reply.head + BodyPieces <= MaxResponse)
      BY <1>2, <2>3, <3>1
    <3>. QED
      BY <1>1, <1>4, <1>7, <2>3, <3>2 DEF HeldOpenIsAnswered
  <2>4. CASE hungUp /\ got = sent /\ Fails("cut off")
    <3>1. ~reply.complete
      BY <1>2, <1>3, <2>1, <2>4
    <3>. QED
      BY <1>1, <1>7, <2>4, <3>1 DEF Fails, HeldOpenIsAnswered
  <2>. QED
    BY <1>12, <2>2, <2>3, <2>4 DEF ReadsHead
<1>13. CASE FramesBody
  BY <1>2, <1>6, <1>13 DEF FramesBody, HeadRead, UnderWay
<1>14. CASE ReadsBody
  BY <1>2, <1>6, <1>14 DEF ReadsBody, Reads, UnderWay
<1>15. CASE Answered
  BY <1>2, <1>7, <1>15 DEF Answered, HeldOpenIsAnswered
<1>16. CASE TimesOut
  <2>1. got = sent /\ sent = Pieces /\ Fails("timed out")
    BY <1>16 DEF TimesOut
  <2>2. CASE request = "head" /\ ~HeadRead
    <3>1. ~reply.complete
      BY <1>3, <2>1, <2>2
    <3>. QED
      BY <1>1, <1>7, <2>1, <3>1 DEF Fails, HeldOpenIsAnswered
  <2>3. CASE request = "body" /\ ~Enough
    <3>1. ~(reply.declared # NoLength /\ got - reply.head >= reply.declared)
      BY <2>3 DEF Enough, Have
    <3>2. ASSUME reply.complete PROVE got - reply.head = BodyPieces
      <4>1. Pieces = reply.head + BodyPieces /\ got = Pieces
        BY <1>2, <2>1, <3>2
      <4>. QED
        BY <1>2, <4>1
    <3>3. ~(reply.complete /\ reply.declared \in 0..BodyPieces)
      BY <1>2, <3>1, <3>2 DEF NoLength
    <3>. QED
      BY <1>1, <1>4, <1>7, <2>1, <3>3 DEF Fails, HeldOpenIsAnswered
  <2>. QED
    BY <1>16, <2>2, <2>3 DEF TimesOut
<1>. QED
  BY <1>8, <1>9, <1>10, <1>11, <1>12, <1>13, <1>14, <1>15, <1>16

LEMMA FindsKeeps ==
    ASSUME UpnpInv, FindsService
    PROVE  UpnpInv'
<1>1. /\ UNCHANGED <<description, reply, posted>> /\ request' = "idle"
      /\ got \in Nat /\ reply.head \in Nat /\ got >= reply.head
      /\ description \in Seq(Blocks) /\ Len(description) \in Nat
  <2>1. /\ UNCHANGED <<description, reply, posted>> /\ request' = "idle"
        /\ request = "done" /\ answer = "answered"
    BY DEF FindsService
  <2>. QED
    BY <2>1, PiecesCounted DEF UpnpInv
<1>. DEFINE n == IF Have < Len(description) THEN Have ELSE Len(description)
<1>2. n \in 0..Len(description)
  BY <1>1 DEF Have
<1>3. service' = service \/ service' \in Find(SubSeq(description, 1, n), Asked)
  BY DEF FindsService
<1>. HIDE DEF n
<1>4. service' # service => Described(service')
  BY <1>1, <1>2, <1>3, FindFinds DEF Described
<1>. QED
  BY <1>1, <1>4 DEF UpnpInv, UnderWay, HeldOpenIsAnswered, Described

LEMMA UpnpStep ==
    ASSUME UpnpInv, [UpnpNext]_upnpVars
    PROVE  UpnpInv'
<1>1. CASE UNCHANGED upnpVars
  BY <1>1 DEF upnpVars, UpnpInv, UnderWay, Pieces, BodyPieces, HeldOpenIsAnswered, Described
<1>. QED
  BY <1>1, AsksKeeps, ReplyKeeps, FindsKeeps DEF UpnpNext

(* DeviceIsHeard for any description, any framings and any limit: a reply   *)
(* that was sent in full is answered even if the connection is held open,   *)
(* and no action leaves for an address the device did not describe.         *)
THEOREM DeviceHeard == UpnpSpec => []DeviceIsHeard
<1>1. UpnpInv => DeviceIsHeard
  <2>. SUFFICES ASSUME UpnpInv, posted # NoService
                PROVE  ActionStaysOnDevice
    BY DEF UpnpInv, DeviceIsHeard, ActionStaysOnDevice
  <2>. QED
    BY ResolveStays DEF UpnpInv, Described, ActionStaysOnDevice
<1>. QED
  BY <1>1, RequestBegins, UpnpStep, PTL DEF UpnpSpec

-----------------------------------------------------------------------------
(* The list of a scan. *)

ScanEvent == [device : Device, addresses : Announcements \cup {{"gone"}}]
ScanMessage == [device : Device, address : {"v4", "v6", Unlisted}]

AddressIn(event) ==
    IF event.addresses = {"gone"} THEN Unlisted ELSE BestAddress(event.addresses)

(* Of the words about something in a queue, the last is one of these ...   *)
EndsIn(queue, words, last) ==
    \E i \in 1..Len(queue) :
        queue[i] \in last /\ \A j \in 1..Len(queue) : j > i => queue[j] \notin words

(* ... or there is none.                                                   *)
Silent(queue, words) == \A i \in 1..Len(queue) : queue[i] \notin words

(* What the daemon has to say of a device, and what its thread has.        *)
EventsOf(d) == {e \in ScanEvent : e.device = d /\ ~ Ignored(e)}
WordsOf(d) == {m \in ScanMessage : m.device = d}
EventsAt(d, a) == {e \in EventsOf(d) : AddressIn(e) = a}
WordsAt(d, a) == {m \in WordsOf(d) : m.address = a}
Sending(d) == thread[KindOf[d]] = "sending" /\ holds[KindOf[d]].device = d

(* The last word about a device on its way to the list is what it was last *)
(* announced with; without one, the list has it.                           *)
LastWord(d) ==
    \/ EndsIn(inbox[KindOf[d]], EventsOf(d), EventsAt(d, expected[d]))
    \/ /\ Silent(inbox[KindOf[d]], EventsOf(d))
       /\ \/ Sending(d) /\ holds[KindOf[d]].address = expected[d]
          \/ /\ ~ Sending(d)
             /\ \/ EndsIn(channel, WordsOf(d), WordsAt(d, expected[d]))
                \/ Silent(channel, WordsOf(d)) /\ registry[d] = expected[d]

InboxTyped ==
    /\ inbox \in [ServiceSet -> Seq(ScanEvent)]
    /\ \A s \in ServiceSet : \A i \in 1..Len(inbox[s]) : KindOf[inbox[s][i].device] = s

ThreadsTyped ==
    /\ thread \in [ServiceSet -> {"absent", "receiving", "sending", "ended"}]
    /\ holds \in [ServiceSet -> ScanMessage \cup {NoEvent}]
    /\ \A s \in ServiceSet :
          thread[s] = "sending" => holds[s] \in ScanMessage /\ KindOf[holds[s].device] = s

(* A service has a thread only once it is browsed. *)
NotYet ==
    /\ browsed \in 0..2
    /\ browsed = 0 => thread["cast"] = "absent"
    /\ browsed < 2 => thread["airplay"] = "absent"

ListTyped ==
    /\ channel \in Seq(ScanMessage)
    /\ expected \in [Device -> {"v4", "v6", Unlisted}]
    /\ registry \in [Device -> {"v4", "v6", Unlisted}]

ScanTyped == InboxTyped /\ ThreadsTyped /\ NotYet /\ ListTyped

ScanInv ==
    /\ ScanTyped
    /\ Reading => /\ daemon # "shut down" /\ \A s \in ServiceSet : thread[s] # "ended"
                  /\ \A d \in Device : LastWord(d)

LEMMA WordAdded ==
    ASSUME NEW S, NEW queue \in Seq(S), NEW e \in S, NEW words, NEW last
    PROVE  /\ e \in last => EndsIn(Append(queue, e), words, last)
           /\ e \notin words /\ EndsIn(queue, words, last) =>
                  EndsIn(Append(queue, e), words, last)
           /\ e \notin words /\ Silent(queue, words) => Silent(Append(queue, e), words)
<1>. DEFINE longer == Append(queue, e)
            n == Len(queue)
<1>1. /\ n \in Nat /\ Len(longer) = n + 1 /\ longer[n + 1] = e
      /\ \A i \in 1..n : longer[i] = queue[i]
  OBVIOUS
<1>. HIDE DEF longer
<1>2. \A i \in 1..n + 1 : i \in 1..n \/ i = n + 1
  BY <1>1
<1>3. e \in last => EndsIn(longer, words, last)
  <2>. SUFFICES ASSUME e \in last
                PROVE  EndsIn(longer, words, last)
    OBVIOUS
  <2>1. n + 1 \in 1..Len(longer) /\ \A j \in 1..Len(longer) : ~ (j > n + 1)
    BY <1>1
  <2>. QED
    BY <1>1, <2>1 DEF EndsIn
<1>4. ASSUME e \notin words, EndsIn(queue, words, last)
      PROVE  EndsIn(longer, words, last)
  <2>1. PICK i \in 1..n :
           queue[i] \in last /\ \A j \in 1..n : j > i => queue[j] \notin words
    BY <1>4 DEF EndsIn
  <2>2. i \in 1..Len(longer) /\ longer[i] \in last
    BY <1>1, <2>1
  <2>3. \A j \in 1..Len(longer) : j > i => longer[j] \notin words
    BY <1>1, <1>2, <1>4, <2>1
  <2>. QED
    BY <2>2, <2>3 DEF EndsIn
<1>5. e \notin words /\ Silent(queue, words) => Silent(longer, words)
  BY <1>1, <1>2 DEF Silent
<1>. QED
  BY <1>3, <1>4, <1>5 DEF longer

LEMMA WordTaken ==
    ASSUME NEW S, NEW queue \in Seq(S), queue # <<>>, NEW words, NEW last
    PROVE  /\ Silent(queue, words) => Silent(Tail(queue), words) /\ Head(queue) \notin words
           /\ EndsIn(queue, words, last) =>
                 \/ EndsIn(Tail(queue), words, last)
                 \/ Head(queue) \in last /\ Silent(Tail(queue), words)
<1>. DEFINE rest == Tail(queue)
            n == Len(queue)
<1>1. /\ n \in Nat /\ n >= 1 /\ Len(rest) = n - 1 /\ Head(queue) = queue[1]
      /\ \A i \in 1..n - 1 : rest[i] = queue[i + 1]
  OBVIOUS
<1>. HIDE DEF rest
<1>2. Silent(queue, words) => Silent(rest, words) /\ Head(queue) \notin words
  BY <1>1 DEF Silent
<1>3. ASSUME EndsIn(queue, words, last)
      PROVE  \/ EndsIn(rest, words, last)
             \/ Head(queue) \in last /\ Silent(rest, words)
  <2>1. PICK i \in 1..n :
           queue[i] \in last /\ \A j \in 1..n : j > i => queue[j] \notin words
    BY <1>3 DEF EndsIn
  <2>2. CASE i = 1
    BY <1>1, <2>1, <2>2 DEF Silent
  <2>3. CASE i # 1
    <3>1. i - 1 \in 1..Len(rest) /\ rest[i - 1] \in last
      BY <1>1, <2>1, <2>3
    <3>2. \A j \in 1..Len(rest) : j > i - 1 => rest[j] \notin words
      BY <1>1, <2>1
    <3>. QED
      BY <3>1, <3>2 DEF EndsIn
  <2>. QED
    BY <2>2, <2>3
<1>. QED
  BY <1>2, <1>3 DEF rest

(* An announcement that is passed on has the address it is expected at.    *)
LEMMA RoutableIs ==
    ASSUME NEW addresses \in Announcements
    PROVE  LET routable == addresses \cap {"v4", "v6"}
           IN  /\ addresses # {"gone"}
               /\ routable = {} => BestAddress(addresses) = NoAddress
               /\ routable # {} =>
                     BestAddress(addresses) = IF "v4" \in routable THEN "v4" ELSE "v6"
<1>. DEFINE routable == addresses \cap {"v4", "v6"}
<1>1. addresses \subseteq {"v4", "v6", "loopback", "link-local v4", "link-local v6"}
  BY ScanAssumption
<1>2. Connectable(addresses) = routable
  BY <1>1 DEF Connectable
<1>3. addresses # {"gone"}
  BY <1>1
<1>4. routable = {} => BestAddress(addresses) = NoAddress
  BY <1>2 DEF BestAddress
<1>5. "v4" \in routable => BestAddress(addresses) = "v4"
  BY <1>2 DEF BestAddress
<1>6. ASSUME routable # {}, "v4" \notin routable
      PROVE  BestAddress(addresses) = "v6"
  <2>1. routable = {"v6"}
    BY <1>6
  <2>. QED
    BY <1>2, <2>1 DEF BestAddress
<1>. QED
  BY <1>3, <1>4, <1>5, <1>6

(* What a thread makes of an event it does not ignore. *)
LEMMA AddressIs ==
    ASSUME NEW e \in ScanEvent, ~ Ignored(e)
    PROVE  AddressIn(e) \in {"v4", "v6", Unlisted}
<1>1. CASE e.addresses = {"gone"}
  BY <1>1 DEF AddressIn
<1>2. CASE e.addresses # {"gone"}
  <2>1. e.addresses \in Announcements /\ BestAddress(e.addresses) # NoAddress
    BY <1>2 DEF ScanEvent, Ignored
  <2>. QED
    BY <1>2, <2>1, RoutableIs DEF AddressIn
<1>. QED
  BY <1>1, <1>2

LEMMA ScanStarts == ScanInit => ScanInv
<1>. SUFFICES ASSUME ScanInit
              PROVE  ScanInv
  OBVIOUS
<1>1. /\ \A s \in ServiceSet : inbox[s] = <<>> /\ thread[s] = "absent" /\ holds[s] = NoEvent
      /\ channel = <<>> /\ scan = "starting" /\ daemon = "absent" /\ browsed = 0
      /\ \A d \in Device : registry[d] = Unlisted /\ expected[d] = Unlisted
      /\ inbox = [s \in ServiceSet |-> <<>>]
      /\ thread = [s \in ServiceSet |-> "absent"] /\ holds = [s \in ServiceSet |-> NoEvent]
      /\ registry = [d \in Device |-> Unlisted] /\ expected = [d \in Device |-> Unlisted]
  BY DEF ScanInit
<1>2. <<>> \in Seq(ScanEvent) /\ <<>> \in Seq(ScanMessage) /\ Len(<<>>) = 0
  OBVIOUS
<1>3. ScanTyped
  <2>1. InboxTyped
    BY <1>1, <1>2 DEF InboxTyped
  <2>2. ThreadsTyped
    BY <1>1 DEF ThreadsTyped
  <2>3. NotYet
    BY <1>1 DEF NotYet, ServiceSet
  <2>4. ListTyped
    BY <1>1, <1>2 DEF ListTyped
  <2>. QED
    BY <2>1, <2>2, <2>3, <2>4 DEF ScanTyped
<1>4. ASSUME NEW d \in Device
      PROVE  LastWord(d)
  <2>1. KindOf[d] \in ServiceSet
    BY ScanAssumption
  <2>2. inbox[KindOf[d]] = <<>> /\ ~ Sending(d) /\ registry[d] = expected[d]
    BY <1>1, <2>1 DEF Sending
  <2>3. \A words : Silent(<<>>, words)
    BY DEF Silent
  <2>. QED
    BY <1>1, <2>2, <2>3 DEF LastWord
<1>. QED
  BY <1>1, <1>3, <1>4 DEF ScanInv

(* A step that leaves the words about a device as they are. *)
LEMMA WordsStay ==
    ASSUME NEW d \in Device, LastWord(d),
           inbox'[KindOf[d]] = inbox[KindOf[d]], Sending(d)' <=> Sending(d),
           Sending(d) => holds'[KindOf[d]].address = holds[KindOf[d]].address,
           channel' = channel, registry'[d] = registry[d], expected'[d] = expected[d]
    PROVE  LastWord(d)'
BY DEF LastWord, EventsAt, WordsAt

(* A step that starts no thread. *)
LEMMA NoneStarts ==
    ASSUME NotYet, browsed' = browsed,
           \A s \in ServiceSet : thread[s] = "absent" => thread'[s] = "absent"
    PROVE  NotYet'
BY DEF NotYet, ServiceSet

LEMMA BeginsKeep ==
    ASSUME ScanInv, MakesDaemon \/ Browses
    PROVE  ScanInv'
<1>1. /\ scan = "starting" /\ scan' \in {"starting", "ready", "failed"}
      /\ daemon' \in {"running", daemon}
      /\ UNCHANGED <<inbox, holds, channel, registry, expected>>
  BY DEF MakesDaemon, Browses
<1>2. /\ InboxTyped /\ ListTyped /\ NotYet
      /\ thread \in [ServiceSet -> {"absent", "receiving", "sending", "ended"}]
  BY DEF ScanInv, ScanTyped, ThreadsTyped
<1>3. /\ Services[1] = "cast" /\ Services[2] = "airplay" /\ Len(Services) = 2
      /\ ServiceSet = {"cast", "airplay"}
  BY DEF Services, ServiceSet
<1>4. \/ UNCHANGED <<browsed, thread>>
      \/ /\ browsed \in 0..1 /\ browsed' = browsed + 1
         /\ thread' = [thread EXCEPT ![Services[browsed + 1]] = "receiving"]
  <2>1. CASE MakesDaemon
    BY <2>1 DEF MakesDaemon
  <2>2. CASE Browses
    <3>1. browsed \in 0..2 /\ browsed < 2
      BY <1>2, <1>3, <2>2 DEF Browses, NotYet
    <3>. QED
      BY <2>2, <3>1 DEF Browses
  <2>. QED
    BY <2>1, <2>2
<1>5. \A s \in ServiceSet :
         \/ thread'[s] = thread[s]
         \/ thread[s] = "absent" /\ thread'[s] = "receiving"
  <2>1. CASE UNCHANGED <<browsed, thread>>
    BY <2>1
  <2>2. CASE browsed = 0 /\ thread' = [thread EXCEPT !["cast"] = "receiving"]
    BY <1>2, <1>3, <2>2 DEF NotYet
  <2>3. CASE browsed = 1 /\ thread' = [thread EXCEPT !["airplay"] = "receiving"]
    BY <1>2, <1>3, <2>3 DEF NotYet
  <2>. QED
    BY <1>3, <1>4, <2>1, <2>2, <2>3
<1>6. ScanTyped'
  <2>1. NotYet'
    <3>1. CASE UNCHANGED <<browsed, thread>>
      BY <1>2, <3>1 DEF NotYet
    <3>2. CASE browsed = 0 /\ browsed' = 1 /\ thread' = [thread EXCEPT !["cast"] = "receiving"]
      BY <1>2, <1>3, <3>2 DEF NotYet
    <3>3. CASE browsed = 1 /\ browsed' = 2
      BY <3>3 DEF NotYet
    <3>. QED
      BY <1>3, <1>4, <3>1, <3>2, <3>3
  <2>2. ThreadsTyped'
    <3>1. thread' \in [ServiceSet -> {"absent", "receiving", "sending", "ended"}]
      BY <1>2, <1>4
    <3>. QED
      BY <1>1, <1>5, <3>1 DEF ScanInv, ScanTyped, ThreadsTyped
  <2>3. InboxTyped' /\ ListTyped'
    BY <1>1, <1>2 DEF InboxTyped, ListTyped
  <2>. QED
    BY <2>1, <2>2, <2>3 DEF ScanTyped
<1>7. ASSUME NEW d \in Device
      PROVE  LastWord(d)'
  <2>1. KindOf[d] \in ServiceSet
    BY ScanAssumption
  <2>2. Sending(d)' <=> Sending(d)
    BY <1>1, <1>5, <2>1 DEF Sending
  <2>3. LastWord(d)
    BY <1>1 DEF ScanInv, Reading
  <2>. QED
    BY <1>1, <2>2, <2>3, WordsStay
<1>. QED
  BY <1>1, <1>5, <1>6, <1>7 DEF ScanInv, Reading

(* What the network says is the last word about its device, unless its     *)
(* thread will ignore it.                                                  *)
LEMMA NewsKept ==
    ASSUME ScanInv, NEW d \in Device, NEW e \in ScanEvent, e.device = d, Told(d, e),
           IF Ignored(e) THEN expected' = expected
           ELSE expected' = [expected EXCEPT ![d] = AddressIn(e)]
    PROVE  ScanInv'
<1>. DEFINE s == KindOf[d]
<1>1. KindOf \in [Device -> ServiceSet] /\ s \in ServiceSet
  BY ScanAssumption
<1>2. /\ inbox' = [inbox EXCEPT ![s] = Append(inbox[s], e)]
      /\ UNCHANGED <<daemon, browsed, thread, holds, channel, scan, registry>>
  BY DEF Told
<1>3. inbox \in [ServiceSet -> Seq(ScanEvent)] /\ expected \in [Device -> {"v4", "v6", Unlisted}]
  BY DEF ScanInv, ScanTyped, InboxTyped, ListTyped
<1>4. inbox'[s] = Append(inbox[s], e) /\ \A t \in ServiceSet \ {s} : inbox'[t] = inbox[t]
  BY <1>1, <1>2, <1>3
<1>5. /\ \A i \in 1..Len(inbox[s]) : KindOf[inbox[s][i].device] = s
      /\ inbox[s] \in Seq(ScanEvent)
  BY <1>1 DEF ScanInv, ScanTyped, InboxTyped
<1>. HIDE DEF s
<1>6. \A i \in 1..Len(Append(inbox[s], e)) : KindOf[Append(inbox[s], e)[i].device] = s
  BY <1>5 DEF s
<1>7. /\ inbox' \in [ServiceSet -> Seq(ScanEvent)]
      /\ expected' \in [Device -> {"v4", "v6", Unlisted}]
  BY <1>1, <1>2, <1>3, <1>5, AddressIs
<1>8. \A t \in ServiceSet : \A i \in 1..Len(inbox'[t]) : KindOf[inbox'[t][i].device] = t
  BY <1>4, <1>6 DEF ScanInv, ScanTyped, InboxTyped
<1>9. ScanTyped'
  <2>1. InboxTyped'
    BY <1>7, <1>8 DEF InboxTyped
  <2>2. ThreadsTyped' /\ NotYet'
    BY <1>2 DEF ScanInv, ScanTyped, ThreadsTyped, NotYet
  <2>3. ListTyped'
    BY <1>2, <1>7 DEF ScanInv, ScanTyped, ListTyped
  <2>. QED
    BY <2>1, <2>2, <2>3 DEF ScanTyped
<1>10. ASSUME NEW o \in Device, LastWord(o), o # d
       PROVE  LastWord(o)'
  <2>1. e \notin EventsOf(o) /\ expected'[o] = expected[o]
    BY <1>3, <1>10 DEF EventsOf
  <2>2. CASE KindOf[o] = s
    <3>1. /\ EndsIn(inbox[s], EventsOf(o), EventsAt(o, expected[o]))
                => EndsIn(inbox'[s], EventsOf(o), EventsAt(o, expected[o]))
          /\ Silent(inbox[s], EventsOf(o)) => Silent(inbox'[s], EventsOf(o))
      BY <1>4, <1>5, <2>1, WordAdded
    <3>2. Sending(o)' <=> Sending(o)
      BY <1>2 DEF Sending
    <3>. QED
      BY <1>2, <1>10, <2>1, <2>2, <3>1, <3>2 DEF LastWord, EventsAt, WordsAt
  <2>3. CASE KindOf[o] # s
    <3>1. inbox'[KindOf[o]] = inbox[KindOf[o]]
      BY <1>1, <1>4, <2>3
    <3>2. Sending(o)' <=> Sending(o)
      BY <1>2 DEF Sending
    <3>. QED
      BY <1>2, <1>10, <2>1, <3>1, <3>2, WordsStay
  <2>. QED
    BY <2>2, <2>3
<1>11. CASE ~ Ignored(e)
  <2>1. e \in EventsAt(d, expected'[d])
    BY <1>3, <1>11 DEF EventsAt, EventsOf
  <2>2. EndsIn(inbox'[s], EventsOf(d), EventsAt(d, expected'[d]))
    BY <1>4, <1>5, <2>1, WordAdded
  <2>3. LastWord(d)'
    BY <2>2 DEF LastWord, s, EventsAt
  <2>. QED
    BY <1>2, <1>9, <1>10, <2>3 DEF ScanInv, Reading
<1>12. CASE Ignored(e)
  <2>1. e \notin EventsOf(d) /\ expected' = expected
    BY <1>12 DEF EventsOf
  <2>2. /\ EndsIn(inbox[s], EventsOf(d), EventsAt(d, expected[d]))
              => EndsIn(inbox'[s], EventsOf(d), EventsAt(d, expected[d]))
        /\ Silent(inbox[s], EventsOf(d)) => Silent(inbox'[s], EventsOf(d))
    BY <1>4, <1>5, <2>1, WordAdded
  <2>3. Sending(d)' <=> Sending(d)
    BY <1>2 DEF Sending
  <2>4. LastWord(d) => LastWord(d)'
    BY <1>2, <2>1, <2>2, <2>3 DEF LastWord, EventsAt, WordsAt, s
  <2>. QED
    BY <1>2, <1>9, <1>10, <2>4 DEF ScanInv, Reading
<1>. QED
  BY <1>11, <1>12

LEMMA AnnouncesKeep ==
    ASSUME ScanInv, NEW d \in Device, Announces(d)
    PROVE  ScanInv'
<1>1. PICK addresses \in Announcements :
         /\ Told(d, [device |-> d, addresses |-> addresses])
         /\ LET routable == addresses \cap {"v4", "v6"}
            IN  expected' = IF routable = {} THEN expected
                            ELSE [expected EXCEPT ![d] = IF "v4" \in routable THEN "v4" ELSE "v6"]
  BY DEF Announces
<1>. DEFINE e == [device |-> d, addresses |-> addresses]
            routable == addresses \cap {"v4", "v6"}
<1>2. e \in ScanEvent /\ e.device = d /\ e.addresses = addresses
  BY DEF ScanEvent
<1>3. /\ addresses # {"gone"}
      /\ routable = {} => BestAddress(addresses) = NoAddress
      /\ routable # {} => BestAddress(addresses) = IF "v4" \in routable THEN "v4" ELSE "v6"
  BY RoutableIs
<1>4. Told(d, e)
  BY <1>1
<1>5. expected' = IF routable = {} THEN expected
                  ELSE [expected EXCEPT ![d] = IF "v4" \in routable THEN "v4" ELSE "v6"]
  BY <1>1
<1>. HIDE DEF e, routable
<1>6. /\ Ignored(e) <=> routable = {}
      /\ routable # {} => AddressIn(e) = IF "v4" \in routable THEN "v4" ELSE "v6"
  BY <1>2, <1>3 DEF Ignored, AddressIn, NoAddress
<1>. QED
  BY <1>2, <1>4, <1>5, <1>6, NewsKept

LEMMA LeavesKeep ==
    ASSUME ScanInv, NEW d \in Device, DeviceLeaves(d)
    PROVE  ScanInv'
<1>. DEFINE e == [device |-> d, addresses |-> {"gone"}]
<1>1. e \in ScanEvent /\ e.device = d /\ e.addresses = {"gone"}
  BY DEF ScanEvent
<1>2. Told(d, e) /\ expected' = [expected EXCEPT ![d] = Unlisted]
  BY DEF DeviceLeaves
<1>. HIDE DEF e
<1>3. ~ Ignored(e) /\ AddressIn(e) = Unlisted
  BY <1>1 DEF Ignored, AddressIn
<1>. QED
  BY <1>1, <1>2, <1>3, NewsKept

(* The last word about a device goes over from the inbox to its thread.    *)
LEMMA TakesKeep ==
    ASSUME ScanInv, NEW s \in ServiceSet, ThreadTakes(s)
    PROVE  ScanInv'
<1>. DEFINE e == Head(inbox[s])
            word == [device |-> e.device, address |-> AddressIn(e)]
<1>1. KindOf \in [Device -> ServiceSet]
  BY ScanAssumption
<1>2. /\ inbox \in [ServiceSet -> Seq(ScanEvent)] /\ inbox[s] \in Seq(ScanEvent) /\ inbox[s] # <<>>
      /\ thread \in [ServiceSet -> {"absent", "receiving", "sending", "ended"}]
      /\ holds \in [ServiceSet -> ScanMessage \cup {NoEvent}] /\ thread[s] = "receiving"
  BY DEF ThreadTakes, ScanInv, ScanTyped, InboxTyped, ThreadsTyped
<1>3. e \in ScanEvent /\ e.device \in Device /\ KindOf[e.device] = s
  <2>1. e = inbox[s][1] /\ 1 \in 1..Len(inbox[s])
    BY <1>2
  <2>2. inbox[s][1] \in ScanEvent /\ KindOf[inbox[s][1].device] = s
    <3>1. InboxTyped
      BY DEF ScanInv, ScanTyped
    <3>2. KindOf[inbox[s][1].device] = s
      BY <2>1, <3>1 DEF InboxTyped
    <3>3. inbox[s][1] \in ScanEvent
      BY <1>2, <2>1
    <3>. QED
      BY <3>2, <3>3
  <2>. QED
    BY <2>1, <2>2 DEF ScanEvent
<1>4. /\ inbox' = [inbox EXCEPT ![s] = Tail(inbox[s])]
      /\ UNCHANGED <<daemon, browsed, channel, scan, registry, expected>>
  BY DEF ThreadTakes
<1>5. IF Ignored(e) THEN UNCHANGED <<thread, holds>>
      ELSE /\ thread' = [thread EXCEPT ![s] = "sending"]
           /\ holds' = [holds EXCEPT ![s] = word]
  BY DEF ThreadTakes, AddressIn
<1>6. word.device = e.device /\ word.address = AddressIn(e)
  OBVIOUS
<1>7. ~ Ignored(e) => word \in ScanMessage
  BY <1>3, AddressIs DEF ScanMessage
<1>. HIDE DEF e, word
<1>8. inbox'[s] = Tail(inbox[s]) /\ \A t \in ServiceSet \ {s} : inbox'[t] = inbox[t]
  BY <1>2, <1>4
<1>9. \A t \in ServiceSet \ {s} : thread'[t] = thread[t] /\ holds'[t] = holds[t]
  BY <1>2, <1>5
<1>10. IF Ignored(e) THEN thread'[s] = "receiving"
       ELSE thread'[s] = "sending" /\ holds'[s] = word
  BY <1>2, <1>5
<1>11. ScanTyped'
  <2>1. inbox' \in [ServiceSet -> Seq(ScanEvent)]
    BY <1>2, <1>4
  <2>2. \A t \in ServiceSet : \A i \in 1..Len(inbox'[t]) : KindOf[inbox'[t][i].device] = t
    <3>1. \A i \in 1..Len(Tail(inbox[s])) :
             Tail(inbox[s])[i] = inbox[s][i + 1] /\ i + 1 \in 1..Len(inbox[s])
      BY <1>2
    <3>2. InboxTyped
      BY DEF ScanInv, ScanTyped
    <3>3. \A t \in ServiceSet : \A i \in 1..Len(inbox[t]) : KindOf[inbox[t][i].device] = t
      BY <3>2 DEF InboxTyped
    <3>4. \A i \in 1..Len(inbox'[s]) : KindOf[inbox'[s][i].device] = s
      BY <1>8, <3>1, <3>3
    <3>. QED
      BY <1>8, <3>3, <3>4
  <2>3. /\ thread' \in [ServiceSet -> {"absent", "receiving", "sending", "ended"}]
        /\ holds' \in [ServiceSet -> ScanMessage \cup {NoEvent}]
    BY <1>2, <1>5, <1>7
  <2>4. \A t \in ServiceSet :
           thread'[t] = "sending" => holds'[t] \in ScanMessage /\ KindOf[holds'[t].device] = t
    <3>1. \A t \in ServiceSet :
             thread[t] = "sending" => holds[t] \in ScanMessage /\ KindOf[holds[t].device] = t
      BY DEF ScanInv, ScanTyped, ThreadsTyped
    <3>2. thread'[s] = "sending" => holds'[s] \in ScanMessage /\ KindOf[holds'[s].device] = s
      BY <1>3, <1>6, <1>7, <1>10
    <3>. QED
      BY <1>9, <3>1, <3>2
  <2>5. \A t \in ServiceSet : thread[t] = "absent" => thread'[t] = "absent"
    BY <1>2, <1>9
  <2>6. NotYet'
    BY <1>4, <2>5, NoneStarts DEF ScanInv, ScanTyped
  <2>7. ListTyped'
    BY <1>4 DEF ScanInv, ScanTyped, ListTyped
  <2>. QED
    BY <2>1, <2>2, <2>3, <2>4, <2>6, <2>7 DEF ScanTyped, InboxTyped, ThreadsTyped
<1>12. ASSUME NEW d \in Device, LastWord(d)
       PROVE  LastWord(d)'
  <2>1. CASE KindOf[d] # s
    <3>1. KindOf[d] \in ServiceSet \ {s}
      BY <1>1, <2>1
    <3>2. /\ inbox'[KindOf[d]] = inbox[KindOf[d]] /\ holds'[KindOf[d]] = holds[KindOf[d]]
          /\ Sending(d)' <=> Sending(d)
      BY <1>8, <1>9, <3>1 DEF Sending
    <3>. QED
      BY <1>4, <1>12, <3>2, WordsStay
  <2>2. CASE KindOf[d] = s
    <3>1. ~ Sending(d)
      BY <1>2, <2>2 DEF Sending
    <3>2. Sending(d)' <=> ~ Ignored(e) /\ e.device = d
      BY <1>6, <1>10, <2>2 DEF Sending
    <3>3. e = Head(inbox[s])
      BY DEF e
    <3>4. e \in EventsOf(d) <=> ~ Ignored(e) /\ e.device = d
      BY <1>3 DEF EventsOf
    <3>5. \/ EndsIn(inbox'[s], EventsOf(d), EventsAt(d, expected[d]))
          \/ e \in EventsAt(d, expected[d]) /\ Silent(inbox'[s], EventsOf(d))
          \/ /\ Silent(inbox[s], EventsOf(d)) /\ Silent(inbox'[s], EventsOf(d)) /\ e \notin EventsOf(d)
             /\ \/ EndsIn(channel, WordsOf(d), WordsAt(d, expected[d]))
                \/ Silent(channel, WordsOf(d)) /\ registry[d] = expected[d]
      BY <1>2, <1>8, <1>12, <2>2, <3>1, <3>3, WordTaken DEF LastWord
    <3>6. CASE EndsIn(inbox'[s], EventsOf(d), EventsAt(d, expected[d]))
      BY <1>4, <2>2, <3>6 DEF LastWord, EventsAt
    <3>7. CASE e \in EventsAt(d, expected[d]) /\ Silent(inbox'[s], EventsOf(d))
      <4>1. Sending(d)' /\ AddressIn(e) = expected[d]
        BY <3>2, <3>4, <3>7 DEF EventsAt
      <4>2. holds'[s].address = expected[d]
        BY <1>6, <1>10, <3>2, <4>1
      <4>. QED
        BY <1>4, <2>2, <3>7, <4>1, <4>2 DEF LastWord
    <3>8. CASE /\ Silent(inbox'[s], EventsOf(d)) /\ e \notin EventsOf(d)
               /\ \/ EndsIn(channel, WordsOf(d), WordsAt(d, expected[d]))
                  \/ Silent(channel, WordsOf(d)) /\ registry[d] = expected[d]
      <4>1. ~ Sending(d)'
        BY <3>2, <3>4, <3>8
      <4>. QED
        BY <1>4, <2>2, <3>8, <4>1 DEF LastWord, WordsAt
    <3>. QED
      BY <3>5, <3>6, <3>7, <3>8
  <2>. QED
    BY <2>1, <2>2
<1>13. \A t \in ServiceSet : thread[t] # "ended" => thread'[t] # "ended"
  BY <1>9, <1>10
<1>. QED
  BY <1>4, <1>11, <1>12, <1>13 DEF ScanInv, Reading

(* ... from there to the stream ... *)
LEMMA SendsKeep ==
    ASSUME ScanInv, NEW s \in ServiceSet, ThreadSends(s)
    PROVE  ScanInv'
<1>. DEFINE word == holds[s]
<1>1. KindOf \in [Device -> ServiceSet]
  BY ScanAssumption
<1>2. /\ thread \in [ServiceSet -> {"absent", "receiving", "sending", "ended"}]
      /\ holds \in [ServiceSet -> ScanMessage \cup {NoEvent}] /\ thread[s] = "sending"
      /\ channel \in Seq(ScanMessage)
      /\ word \in ScanMessage /\ KindOf[word.device] = s /\ word.device \in Device
  <2>1. ThreadsTyped /\ ListTyped /\ thread[s] = "sending"
    BY DEF ThreadSends, ScanInv, ScanTyped
  <2>2. word \in ScanMessage /\ KindOf[word.device] = s
    BY <2>1 DEF ThreadsTyped
  <2>3. word.device \in Device
    BY <2>2 DEF ScanMessage
  <2>. QED
    BY <2>1, <2>2, <2>3 DEF ThreadsTyped, ListTyped
<1>3. /\ UNCHANGED <<daemon, browsed, inbox, scan, registry, expected>>
      /\ holds' = [holds EXCEPT ![s] = NoEvent]
  BY DEF ThreadSends
<1>4. IF Reading
      THEN channel' = Append(channel, word) /\ thread' = [thread EXCEPT ![s] = "receiving"]
      ELSE channel' = channel /\ thread' = [thread EXCEPT ![s] = "ended"]
  BY DEF ThreadSends
<1>. HIDE DEF word
<1>5. /\ \A t \in ServiceSet \ {s} : thread'[t] = thread[t] /\ holds'[t] = holds[t]
      /\ thread'[s] = IF Reading THEN "receiving" ELSE "ended"
  BY <1>2, <1>3, <1>4
<1>6. ScanTyped'
  <2>1. channel' \in Seq(ScanMessage)
    BY <1>2, <1>4
  <2>2. /\ thread' \in [ServiceSet -> {"absent", "receiving", "sending", "ended"}]
        /\ holds' \in [ServiceSet -> ScanMessage \cup {NoEvent}]
    BY <1>2, <1>3, <1>4
  <2>3. \A t \in ServiceSet :
           thread'[t] = "sending" => holds'[t] \in ScanMessage /\ KindOf[holds'[t].device] = t
    BY <1>5 DEF ScanInv, ScanTyped, ThreadsTyped
  <2>4. \A t \in ServiceSet : thread[t] = "absent" => thread'[t] = "absent"
    BY <1>2, <1>5
  <2>5. NotYet'
    BY <1>3, <2>4, NoneStarts DEF ScanInv, ScanTyped
  <2>6. InboxTyped' /\ ListTyped'
    BY <1>3, <2>1 DEF ScanInv, ScanTyped, InboxTyped, ListTyped
  <2>. QED
    BY <2>2, <2>3, <2>5, <2>6 DEF ScanTyped, ThreadsTyped
<1>7. CASE ~ Reading
  BY <1>3, <1>6, <1>7 DEF ScanInv, Reading
<1>8. ASSUME Reading, NEW d \in Device, LastWord(d)
      PROVE  LastWord(d)'
  <2>1. channel' = Append(channel, word) /\ thread'[s] = "receiving"
    BY <1>4, <1>5, <1>8
  <2>2. CASE word.device = d
    <3>1. KindOf[d] = s /\ Sending(d) /\ ~ Sending(d)'
      BY <1>2, <2>1, <2>2 DEF Sending, word
    <3>2. \/ EndsIn(inbox[s], EventsOf(d), EventsAt(d, expected[d]))
          \/ Silent(inbox[s], EventsOf(d)) /\ word.address = expected[d]
      BY <1>8, <3>1 DEF LastWord, word
    <3>3. CASE EndsIn(inbox[s], EventsOf(d), EventsAt(d, expected[d]))
      BY <1>3, <3>1, <3>3 DEF LastWord, EventsAt
    <3>4. CASE Silent(inbox[s], EventsOf(d)) /\ word.address = expected[d]
      <4>1. word \in WordsAt(d, expected[d])
        BY <1>2, <2>2, <3>4 DEF WordsAt, WordsOf
      <4>2. EndsIn(channel', WordsOf(d), WordsAt(d, expected[d]))
        BY <1>2, <2>1, <4>1, WordAdded
      <4>. QED
        BY <1>3, <3>1, <3>4, <4>2 DEF LastWord, WordsAt
    <3>. QED
      BY <3>2, <3>3, <3>4
  <2>3. CASE word.device # d
    <3>1. word \notin WordsOf(d)
      BY <2>3 DEF WordsOf
    <3>2. /\ EndsIn(channel, WordsOf(d), WordsAt(d, expected[d]))
               => EndsIn(channel', WordsOf(d), WordsAt(d, expected[d]))
          /\ Silent(channel, WordsOf(d)) => Silent(channel', WordsOf(d))
      BY <1>2, <2>1, <3>1, WordAdded
    <3>3. KindOf[d] \in ServiceSet
      BY <1>1
    <3>4. /\ Sending(d)' <=> Sending(d)
          /\ Sending(d) => holds'[KindOf[d]].address = holds[KindOf[d]].address
      BY <1>5, <2>1, <2>3, <3>3 DEF Sending, word
    <3>. QED
      BY <1>3, <1>8, <3>2, <3>4 DEF LastWord, EventsAt, WordsAt
  <2>. QED
    BY <2>2, <2>3
<1>9. CASE Reading
  BY <1>3, <1>5, <1>6, <1>8, <1>9 DEF ScanInv, Reading
<1>. QED
  BY <1>7, <1>9

(* ... and from the stream into the list. *)
LEMMA ReadsKeep ==
    ASSUME ScanInv, EngineReads
    PROVE  ScanInv'
<1>. DEFINE word == Head(channel)
<1>1. /\ channel \in Seq(ScanMessage) /\ channel # <<>>
      /\ registry \in [Device -> {"v4", "v6", Unlisted}]
  BY DEF EngineReads, ScanInv, ScanTyped, ListTyped
<1>2. /\ word \in ScanMessage /\ word.device \in Device /\ word.address \in {"v4", "v6", Unlisted}
  <2>1. word \in ScanMessage
    BY <1>1
  <2>. QED
    BY <2>1 DEF ScanMessage
<1>3. /\ UNCHANGED <<daemon, browsed, inbox, thread, holds, scan, expected>>
      /\ channel' = Tail(channel) /\ scan = "ready"
      /\ registry' = [registry EXCEPT ![word.device] = word.address]
  BY DEF EngineReads
<1>4. channel' \in Seq(ScanMessage) /\ registry' \in [Device -> {"v4", "v6", Unlisted}]
  BY <1>1, <1>2, <1>3
<1>5. ScanTyped'
  <2>1. InboxTyped' /\ ThreadsTyped' /\ NotYet'
    BY <1>3 DEF ScanInv, ScanTyped, InboxTyped, ThreadsTyped, NotYet
  <2>2. ListTyped'
    BY <1>3, <1>4 DEF ScanInv, ScanTyped, ListTyped
  <2>. QED
    BY <2>1, <2>2 DEF ScanTyped
<1>6. ASSUME NEW d \in Device, LastWord(d)
      PROVE  LastWord(d)'
  <2>1. Sending(d)' <=> Sending(d)
    BY <1>3 DEF Sending
  <2>2. registry'[d] = IF word.device = d THEN word.address ELSE registry[d]
    BY <1>1, <1>2, <1>3
  <2>3. /\ Silent(channel, WordsOf(d)) =>
              Silent(channel', WordsOf(d)) /\ word \notin WordsOf(d)
        /\ EndsIn(channel, WordsOf(d), WordsAt(d, expected[d])) =>
              \/ EndsIn(channel', WordsOf(d), WordsAt(d, expected[d]))
              \/ word \in WordsAt(d, expected[d]) /\ Silent(channel', WordsOf(d))
    BY <1>1, <1>3, WordTaken
  <2>4. word \notin WordsOf(d) => registry'[d] = registry[d]
    BY <1>2, <2>2 DEF WordsOf
  <2>5. word \in WordsAt(d, expected[d]) => registry'[d] = expected[d]
    BY <2>2 DEF WordsAt, WordsOf
  <2>. HIDE DEF word
  <2>. QED
    BY <1>3, <1>6, <2>1, <2>3, <2>4, <2>5 DEF LastWord, EventsAt, WordsAt
<1>. QED
  BY <1>3, <1>5, <1>6 DEF ScanInv, Reading

LEMMA EndsKeep ==
    ASSUME ScanInv, Aborts \/ \E s \in ServiceSet : ThreadEnds(s)
    PROVE  ScanInv'
<1>1. CASE Aborts
  <2>1. /\ scan' = "aborted" /\ channel' = <<>> /\ registry' = [d \in Device |-> Unlisted]
        /\ UNCHANGED <<browsed, inbox, thread, holds, expected>>
    BY <1>1 DEF Aborts
  <2>2. <<>> \in Seq(ScanMessage)
    OBVIOUS
  <2>3. ScanTyped'
    <3>1. InboxTyped' /\ ThreadsTyped' /\ NotYet'
      BY <2>1 DEF ScanInv, ScanTyped, InboxTyped, ThreadsTyped, NotYet
    <3>2. ListTyped'
      BY <2>1, <2>2 DEF ScanInv, ScanTyped, ListTyped
    <3>. QED
      BY <3>1, <3>2 DEF ScanTyped
  <2>. QED
    BY <2>1, <2>3 DEF ScanInv, Reading
<1>2. ASSUME NEW s \in ServiceSet, ThreadEnds(s)
      PROVE  ScanInv'
  <2>1. /\ thread[s] = "receiving" /\ daemon = "shut down"
        /\ thread' = [thread EXCEPT ![s] = "ended"]
        /\ UNCHANGED <<daemon, browsed, inbox, holds, channel, scan, registry, expected>>
    BY <1>2 DEF ThreadEnds
  <2>2. thread \in [ServiceSet -> {"absent", "receiving", "sending", "ended"}]
    BY DEF ScanInv, ScanTyped, ThreadsTyped
  <2>3. /\ thread' \in [ServiceSet -> {"absent", "receiving", "sending", "ended"}]
        /\ \A t \in ServiceSet : /\ thread[t] = "absent" => thread'[t] = "absent"
                                /\ thread'[t] = "sending" => thread[t] = "sending"
    BY <2>1, <2>2
  <2>4. ThreadsTyped'
    BY <2>1, <2>3 DEF ScanInv, ScanTyped, ThreadsTyped
  <2>5. NotYet'
    BY <2>1, <2>3, NoneStarts DEF ScanInv, ScanTyped
  <2>6. ScanTyped'
    BY <2>1, <2>4, <2>5 DEF ScanInv, ScanTyped, InboxTyped, ListTyped
  <2>7. ~ Reading
    BY <2>1 DEF ScanInv
  <2>. QED
    BY <2>1, <2>6, <2>7 DEF ScanInv, Reading
<1>. QED
  BY <1>1, <1>2

LEMMA ScanStays == ScanInv /\ UNCHANGED scanVars => ScanInv'
<1>. SUFFICES ASSUME ScanInv, UNCHANGED scanVars
              PROVE  ScanInv'
  OBVIOUS
<1>1. UNCHANGED <<daemon, browsed, inbox, thread, holds, channel, scan, registry, expected>>
  BY DEF scanVars
<1>2. ScanTyped'
  BY <1>1 DEF ScanInv, ScanTyped, InboxTyped, ThreadsTyped, NotYet, ListTyped
<1>3. ASSUME NEW d \in Device, LastWord(d)
      PROVE  LastWord(d)'
  BY <1>1, <1>3, WordsStay DEF Sending
<1>. QED
  BY <1>1, <1>2, <1>3 DEF ScanInv, Reading

(* While a scan lasts and nothing is on its way, the list is what was      *)
(* announced.                                                              *)
QuietListIsTrue ==
    /\ scan = "ready" /\ channel = <<>>
    /\ \A s \in ServiceSet : inbox[s] = <<>> /\ thread[s] # "sending"
    => registry = expected

(* The safety part of ScanIsSound, for any devices, announcements and room *)
(* in the stream: whatever thread, stream and engine were doing in between, *)
(* once all is read each device is listed where it was last announced to   *)
(* be, and one that left is not (MdnsProvider::discover, run_discovery).   *)
THEOREM QuietListTrue == ScanSpec => []QuietListIsTrue
<1>1. ScanInv /\ ScanNext => ScanInv'
  BY BeginsKeep, AnnouncesKeep, LeavesKeep, TakesKeep, SendsKeep, ReadsKeep, EndsKeep
     DEF ScanNext, ThreadStep
<1>2. ScanInv /\ [ScanNext]_scanVars => ScanInv'
  BY <1>1, ScanStays
<1>3. ScanInv => QuietListIsTrue
  <2>. SUFFICES ASSUME ScanInv, scan = "ready", channel = <<>>,
                       \A s \in ServiceSet : inbox[s] = <<>> /\ thread[s] # "sending"
                PROVE  registry = expected
    BY DEF QuietListIsTrue
  <2>1. ASSUME NEW d \in Device
        PROVE  registry[d] = expected[d]
    <3>1. LastWord(d)
      BY DEF ScanInv, Reading
    <3>2. KindOf[d] \in ServiceSet
      BY ScanAssumption
    <3>3. inbox[KindOf[d]] = <<>> /\ ~ Sending(d)
      BY <3>2 DEF Sending
    <3>4. \A words, last : ~ EndsIn(<<>>, words, last)
      BY DEF EndsIn
    <3>. QED
      BY <3>1, <3>3, <3>4 DEF LastWord
  <2>. QED
    <3>1. /\ registry \in [Device -> {"v4", "v6", Unlisted}]
          /\ expected \in [Device -> {"v4", "v6", Unlisted}]
      BY DEF ScanInv, ScanTyped, ListTyped
    <3>. QED
      BY <2>1, <3>1
<1>. QED
  BY <1>2, <1>3, ScanStarts, PTL DEF ScanSpec
=============================================================================
