------------------------ MODULE SessionEngine_proofs ------------------------
(***************************************************************************)
(* Proofs about SessionEngine.  The four fields that say what the session  *)
(* is decide the invariants; SameSession names the steps that leave them   *)
(* alone, which is every handler of discovery, preferences and status.     *)
(***************************************************************************)
EXTENDS SessionEngine, TLAPS

SameSession(x, y) ==
    /\ y.active_cast = x.active_cast
    /\ y.cast_cancel = x.cast_cancel
    /\ y.media_session = x.media_session
    /\ y.serial = x.serial

Registries == UNION {[S -> Arcs] : S \in SUBSET Receivers}

(* A status may be put into the engine's fields without disturbing others. *)
LEMMA StatusType ==
    ASSUME NEW x \in Engines, NEW v \in Statuses
    PROVE  /\ [x EXCEPT !.status = v] \in Engines
           /\ SameSession(x, [x EXCEPT !.status = v])
BY DEF Engines, SameSession

(* refresh_status: a status, and nothing else. *)
LEMMA RefreshType ==
    ASSUME NEW x \in Engines
    PROVE  /\ Refresh(x) \in Engines
           /\ SameSession(x, Refresh(x))
<1>1. Shown(x) \in Statuses
  BY DEF Shown, Listing, Statuses
<1>2. [x EXCEPT !.status = Shown(x)] \in Engines
  BY <1>1, StatusType
<1>3. SameSession(x, [x EXCEPT !.status = Shown(x)])
  BY <1>1, StatusType
<1>4. SameSession(x, x)
  BY DEF SameSession
<1>5. QED
  BY <1>2, <1>3, <1>4 DEF Refresh

(* status = Idle, then refresh_status. *)
LEMMA ToIdleType ==
    ASSUME NEW x \in Engines
    PROVE  /\ ToIdle(x) \in Engines
           /\ SameSession(x, ToIdle(x))
<1> DEFINE y == [x EXCEPT !.status = "idle"]
<1>1. y \in Engines /\ SameSession(x, y)
  BY StatusType DEF Statuses
<1>2. Refresh(y) \in Engines /\ SameSession(y, Refresh(y))
  BY <1>1, RefreshType
<1>3. SameSession(x, Refresh(y))
  BY <1>1, <1>2 DEF SameSession
<1>4. QED
  BY <1>2, <1>3 DEF ToIdle

(* reconcile_audio at the end of a turn. *)
LEMMA ReconciledType ==
    ASSUME NEW x \in Engines, NEW ok \in BOOLEAN, card \in BOOLEAN
    PROVE  /\ Reconciled(x, ok) \in Engines
           /\ SameSession(x, Reconciled(x, ok))
           /\ CardAfter(x, ok) \in BOOLEAN
<1>1. CardAfter(x, ok) \in BOOLEAN
  BY DEF CardAfter, Engines, Settings
<1> DEFINE v == IF ok THEN x.status ELSE "card_failed"
           y == [x EXCEPT !.audio_pending = FALSE, !.status = v]
<1>2. Reconciled(x, ok) \in Engines
  <2>1. v \in Statuses
    BY DEF Engines, Statuses
  <2>2. y \in Engines
    <3> HIDE DEF v
    <3> QED BY <2>1 DEF Engines
  <2>3. Reconciled(x, ok) = x \/ Reconciled(x, ok) = y
    BY DEF Reconciled
  <2>4. QED
    BY <2>2, <2>3
<1>3. SameSession(x, Reconciled(x, ok))
  BY DEF Reconciled, Engines, SameSession
<1>4. QED
  BY <1>1, <1>2, <1>3

(* A turn of the run loop ends with the handler's engine, up to the card. *)
LEMMA TurnType ==
    ASSUME NEW x \in Engines, card \in BOOLEAN, Turn(x)
    PROVE  e' \in Engines /\ card' \in BOOLEAN /\ SameSession(x, e')
<1>1. PICK ok \in BOOLEAN : e' = Reconciled(x, ok) /\ card' = CardAfter(x, ok)
  BY DEF Turn
<1>2. QED
  BY <1>1, ReconciledType

-----------------------------------------------------------------------------
(* Discovery: the registry stays a function from receivers to sinks. *)

LEMMA RegistryUpdate ==
    ASSUME NEW f \in Registries, NEW r \in Receivers, NEW arc \in Arcs
    PROVE  [q \in DOMAIN f \cup {r} |-> IF q = r THEN arc ELSE f[q]]
               \in Registries
<1> DEFINE g == [q \in DOMAIN f \cup {r} |-> IF q = r THEN arc ELSE f[q]]
<1>1. PICK S \in SUBSET Receivers : f \in [S -> Arcs]
  BY DEF Registries
<1>2. g \in [S \cup {r} -> Arcs]
  BY <1>1
<1>3. S \cup {r} \in SUBSET Receivers
  BY <1>1
<1>4. QED
  BY <1>2, <1>3 DEF Registries

LEMMA RegistryRestrict ==
    ASSUME NEW f \in Registries, NEW D, D \subseteq DOMAIN f
    PROVE  [q \in D |-> f[q]] \in Registries
<1>1. PICK S \in SUBSET Receivers : f \in [S -> Arcs]
  BY DEF Registries
<1>2. [q \in D |-> f[q]] \in [D -> Arcs]
  BY <1>1
<1>3. D \in SUBSET Receivers
  BY <1>1
<1>4. QED
  BY <1>2, <1>3 DEF Registries

LEMMA RegistryOf == ASSUME NEW x \in Engines PROVE x.registry \in Registries
BY DEF Engines, Registries

LEMMA ListType ==
    ASSUME NEW x \in Engines, NEW R \in Registries,
           NEW O \in SUBSET Receivers, NEW b \in BOOLEAN
    PROVE  LET y == [x EXCEPT !.registry = R, !.order = O, !.searching = b]
           IN  y \in Engines /\ SameSession(x, y)
<1> DEFINE y == [x EXCEPT !.registry = R, !.order = O, !.searching = b]
<1>1. y \in Engines
  BY DEF Engines, Registries
<1>2. SameSession(x, y)
  BY DEF Engines, SameSession
<1>3. QED
  BY <1>1, <1>2

LEMMA ScanType ==
    ASSUME NEW x \in Engines, NEW b \in BOOLEAN
    PROVE  /\ [x EXCEPT !.discovering = b] \in Engines
           /\ SameSession(x, [x EXCEPT !.discovering = b])
           /\ [x EXCEPT !.searching = b] \in Engines
           /\ SameSession(x, [x EXCEPT !.searching = b])
BY DEF Engines, SameSession

LEMMA AbortType ==
    ASSUME NEW x \in Engines
    PROVE  AbortDiscovery(x) \in Engines /\ SameSession(x, AbortDiscovery(x))
<1>1. x.generation + 1 \in Nat
  BY DEF Engines
<1>2. AbortDiscovery(x) \in Engines
  <2> DEFINE g == x.generation + 1
  <2> HIDE DEF g
  <2>1. g \in Nat
    BY <1>1 DEF g
  <2>2. [x EXCEPT !.discovering = FALSE, !.generation = g] \in Engines
    BY <2>1 DEF Engines
  <2>3. QED
    BY <2>2 DEF AbortDiscovery, g
<1>3. SameSession(x, AbortDiscovery(x))
  BY DEF AbortDiscovery, Engines, SameSession
<1>4. QED
  BY <1>2, <1>3

(* A rescan, whatever status it starts from. *)
LEMMA RescannedType ==
    ASSUME NEW x \in Engines
    PROVE  Rescanned(x) \in Engines /\ SameSession(x, Rescanned(x))
<1> DEFINE c == IF x.status \in ErrorStatuses
                THEN [x EXCEPT !.status = "idle"] ELSE x
           a == AbortDiscovery(c)
           K == DOMAIN x.registry \cap {x.active_cast}
           R == [r \in K |-> x.registry[r]]
           O == a.order \cap {x.active_cast}
           y == [a EXCEPT !.registry = R, !.order = O, !.searching = TRUE]
           z == [Refresh(y) EXCEPT !.discovering = TRUE]
<1>1. c \in Engines /\ SameSession(x, c)
  BY StatusType DEF Statuses, SameSession
<1>2. a \in Engines /\ SameSession(x, a)
  <2> HIDE DEF c
  <2> QED BY <1>1, AbortType DEF SameSession
<1>3. R \in Registries
  BY RegistryOf, RegistryRestrict
<1>4. O \in SUBSET Receivers
  <2> HIDE DEF a
  <2> QED BY <1>2 DEF Engines
<1>5. y \in Engines /\ SameSession(x, y)
  <2> HIDE DEF a, R, O
  <2>1. y \in Engines /\ SameSession(a, y)
    BY <1>2, <1>3, <1>4, ListType
  <2>2. QED
    BY <1>2, <2>1 DEF SameSession
<1>6. Refresh(y) \in Engines /\ SameSession(x, Refresh(y))
  <2> HIDE DEF y
  <2> QED BY <1>5, RefreshType DEF SameSession
<1>7. z \in Engines /\ SameSession(x, z)
  <2> DEFINE w == Refresh(y)
  <2>1. w \in Engines /\ SameSession(x, w)
    BY <1>6
  <2> HIDE DEF w
  <2>2. [w EXCEPT !.discovering = TRUE] \in Engines
    BY <2>1, ScanType
  <2>3. SameSession(x, [w EXCEPT !.discovering = TRUE])
    BY <2>1, ScanType DEF SameSession
  <2>4. QED
    BY <2>2, <2>3 DEF w
<1>8. Rescanned(x) = z
  BY DEF Rescanned
<1>9. QED
  BY <1>7, <1>8

LEMMA PreferredType ==
    ASSUME NEW x \in Engines
    PROVE  Preferred(x) \in Engines /\ SameSession(x, Preferred(x))
<1> DEFINE a == AbortDiscovery(x)
           y == [a EXCEPT !.searching = FALSE]
<1>1. a \in Engines /\ SameSession(x, a)
  BY AbortType
<1>2. y \in Engines /\ SameSession(x, y)
  <2> HIDE DEF a
  <2> QED BY <1>1, ScanType DEF SameSession
<1>3. Refresh(y) \in Engines /\ SameSession(x, Refresh(y))
  <2> HIDE DEF y
  <2> QED BY <1>2, RefreshType DEF SameSession
<1>4. QED
  BY <1>3, RescannedType DEF Preferred

LEMMA AnnouncedType ==
    ASSUME NEW x \in Engines, NEW r \in Receivers, NEW arc \in Arcs
    PROVE  Announced(x, r, arc) \in Engines
           /\ SameSession(x, Announced(x, r, arc))
<1> DEFINE U == [q \in DOMAIN x.registry \cup {r} |->
                    IF q = r THEN arc ELSE x.registry[q]]
           R == IF x.active_cast = r THEN x.registry ELSE U
           O == x.order \cup {r}
           y == [x EXCEPT !.registry = R, !.order = O, !.searching = FALSE]
<1>1. R \in Registries /\ O \in SUBSET Receivers
  <2>1. R \in Registries
    BY RegistryOf, RegistryUpdate
  <2>2. O \in SUBSET Receivers
    BY DEF Engines
  <2>3. QED
    BY <2>1, <2>2
<1>2. y \in Engines /\ SameSession(x, y)
  <2> HIDE DEF R, O
  <2> QED BY <1>1, ListType
<1>3. Refresh(y) \in Engines /\ SameSession(x, Refresh(y))
  <2> HIDE DEF y
  <2> QED BY <1>2, RefreshType DEF SameSession
<1>4. SameSession(x, x)
  BY DEF SameSession
<1>5. Announced(x, r, arc) = x \/ Announced(x, r, arc) = Refresh(y)
  BY DEF Announced
<1>6. QED
  BY <1>3, <1>4, <1>5

LEMMA WithdrawnType ==
    ASSUME NEW x \in Engines, NEW r \in Receivers
    PROVE  Withdrawn(x, r) \in Engines /\ SameSession(x, Withdrawn(x, r))
<1> DEFINE R == [q \in DOMAIN x.registry \ {r} |-> x.registry[q]]
           O == x.order \ {r}
           y == [x EXCEPT !.registry = R, !.order = O]
<1>1. R \in Registries /\ O \in SUBSET Receivers
  <2>1. R \in Registries
    BY RegistryOf, RegistryRestrict
  <2>2. O \in SUBSET Receivers
    BY DEF Engines
  <2>3. QED
    BY <2>1, <2>2
<1>2. y \in Engines /\ SameSession(x, y)
  <2> HIDE DEF R, O
  <2>1. y \in Engines
    BY <1>1 DEF Engines, Registries
  <2>2. SameSession(x, y)
    BY DEF Engines, SameSession
  <2>3. QED
    BY <2>1, <2>2
<1>3. Refresh(y) \in Engines /\ SameSession(x, Refresh(y))
  <2> HIDE DEF y
  <2> QED BY <1>2, RefreshType DEF SameSession
<1>4. SameSession(x, x)
  BY DEF SameSession
<1>5. Withdrawn(x, r) = x \/ Withdrawn(x, r) = Refresh(y)
  BY DEF Withdrawn
<1>6. QED
  BY <1>3, <1>4, <1>5

-----------------------------------------------------------------------------
(* Sessions: what each handler does to the four fields. *)

LEMMA UnrefusedType ==
    ASSUME NEW x \in Engines, NEW id
    PROVE  Unrefused(x, id) \in Engines /\ SameSession(x, Unrefused(x, id))
<1> DEFINE v == IF x.refused = id THEN None ELSE x.refused
<1>1. v \in Receivers \cup {None}
  BY DEF Engines
<1>2. [x EXCEPT !.refused = v] \in Engines
  <2> HIDE DEF v
  <2> QED BY <1>1 DEF Engines
<1>3. SameSession(x, [x EXCEPT !.refused = v])
  BY DEF Engines, SameSession
<1>4. QED
  BY <1>2, <1>3 DEF Unrefused

LEMMA AskedType ==
    ASSUME NEW x \in Engines, NEW s \in Settings
    PROVE  LET y == [x EXCEPT !.media_owner = None, !.settings = s]
           IN  y \in Engines /\ SameSession(x, y)
BY ZenonT(60) DEF Engines, SameSession

LEMMA ReloadType ==
    ASSUME NEW x \in Engines, NEW s \in Settings
    PROVE  LET y == [x EXCEPT !.settings = s]
           IN  y \in Engines /\ SameSession(x, y)
BY DEF Engines, SameSession

LEMMA DisownedType ==
    ASSUME NEW x \in Engines
    PROVE  LET y == [x EXCEPT !.media_owner = None]
           IN  y \in Engines /\ SameSession(x, y)
BY DEF Engines, SameSession

LEMMA LinkResetType ==
    ASSUME NEW x \in Engines
    PROVE  LinkReset(x) \in Engines /\ SameSession(x, LinkReset(x))
<1> DEFINE g == x.operation_generation + 1
<1>1. g \in Nat
  BY DEF Engines
<1>2. [x EXCEPT !.operation_generation = g, !.probing = FALSE,
                !.measured = None] \in Engines
  <2> HIDE DEF g
  <2> QED BY ZenonT(60), <1>1 DEF Engines
<1>3. SameSession(x, LinkReset(x))
  BY DEF LinkReset, Engines, SameSession
<1>4. QED
  BY <1>2, <1>3 DEF LinkReset

(* A begun cast holds its receiver and a fresh cancel channel. *)
LEMMA CastBegunType ==
    ASSUME NEW x \in Engines, NEW id \in Ids, NEW sink \in Sinks,
           x.serial < MaxSessions
    PROVE  LET y == CastBegun(x, id, sink)
           IN  /\ y \in Engines
               /\ y.active_cast = id
               /\ y.cast_cancel = x.serial + 1
               /\ y.media_session = x.media_session
<1> DEFINE g == x.operation_generation + 1
           n == x.serial + 1
<1>1. g \in Nat /\ n \in Nat /\ n \in 0..MaxSessions
  BY BoundsAssumption DEF Engines
<1>2. [x EXCEPT !.status = "connecting", !.operation_generation = g,
                !.probing = FALSE, !.measured = None, !.active_cast = id,
                !.active_sink = sink, !.serial = n, !.cast_cancel = n]
         \in Engines
  <2> HIDE DEF g, n
  <2> QED BY <1>1 DEF Engines, Statuses
<1>3. CastBegun(x, id, sink) \in Engines
  BY <1>2 DEF CastBegun
<1>4. QED
  BY <1>3 DEF CastBegun, Engines

LEMMA FetchBegunType ==
    ASSUME NEW x \in Engines, NEW r \in Receivers, x.serial < MaxSessions
    PROVE  LET y == FetchBegun(x, r)
           IN  /\ y \in Engines
               /\ y.active_cast = x.active_cast
               /\ y.media_session = "running"
<1> DEFINE n == x.serial + 1
           y == [x EXCEPT !.media_session = "running", !.media_target = r,
                          !.serial = n, !.status = "sending"]
<1>1. n \in 0..MaxSessions
  BY BoundsAssumption DEF Engines
<1>2. y \in Engines
  <2> HIDE DEF n
  <2> QED BY <1>1 DEF Engines, Statuses, MediaStates
<1>3. y.active_cast = x.active_cast /\ y.media_session = "running"
  BY DEF Engines
<1>4. Refresh(y) \in Engines /\ SameSession(y, Refresh(y))
  <2> HIDE DEF y
  <2> QED BY <1>2, RefreshType
<1>5. FetchBegun(x, r) = Refresh(y)
  BY DEF FetchBegun
<1>6. QED
  <2> HIDE DEF y
  <2> QED BY <1>3, <1>4, <1>5 DEF SameSession

LEMMA DecodeBegunType ==
    ASSUME NEW x \in Engines, NEW r \in DOMAIN x.registry,
           x.serial < MaxSessions
    PROVE  LET y == DecodeBegun(x, r)
           IN  y \in Engines /\ y.media_session = "running"
<1> DEFINE n == x.serial + 1
           k == x.registry[r]
           y == [x EXCEPT !.media_target = r, !.active_cast = r,
                          !.active_sink = k, !.media_session = "running",
                          !.serial = n, !.status = "sending"]
<1>1. n \in 0..MaxSessions
  BY BoundsAssumption DEF Engines
<1>2. r \in Receivers /\ k \in Arcs
  BY RegistryOf DEF Registries
<1>3. y \in Engines
  <2> HIDE DEF n, k
  <2> QED BY <1>1, <1>2 DEF Engines, Statuses, MediaStates, Ids, Sinks
<1>4. y.media_session = "running"
  BY DEF Engines
<1>5. Refresh(y) \in Engines /\ SameSession(y, Refresh(y))
  <2> HIDE DEF y
  <2> QED BY <1>3, RefreshType
<1>6. DecodeBegun(x, r) = Refresh(y)
  BY DEF DecodeBegun
<1>7. QED
  <2> HIDE DEF y
  <2> QED BY <1>4, <1>5, <1>6 DEF SameSession

LEMMA OwnedType ==
    ASSUME NEW x \in Engines, NEW p \in Players \cup {None}
    PROVE  Owned(x, p) \in Engines /\ SameSession(x, Owned(x, p))
<1> DEFINE v == IF p = None THEN None ELSE [sender |-> p, id |-> x.serial]
<1>1. v \in [sender : Players, id : Nat] \cup {None}
  BY BoundsAssumption DEF Engines
<1>2. [x EXCEPT !.media_owner = v] \in Engines
  <2> HIDE DEF v
  <2> QED BY <1>1 DEF Engines
<1>3. SameSession(x, [x EXCEPT !.media_owner = v])
  BY DEF Engines, SameSession
<1>4. QED
  BY <1>2, <1>3 DEF Owned

(* Stopping clears nothing: a file session is told, a cast keeps its place. *)
SameHolder(x, y) ==
    /\ y.active_cast = x.active_cast
    /\ y.cast_cancel = x.cast_cancel
    /\ (y.media_session = "none") = (x.media_session = "none")

LEMMA StoppedType ==
    ASSUME NEW x \in Engines
    PROVE  Stopped(x) \in Engines /\ SameHolder(x, Stopped(x))
<1> DEFINE m == IF x.media_session = "running" THEN "stopping"
                ELSE x.media_session
           y == [x EXCEPT !.media_session = m]
<1>1. m \in MediaStates /\ (m = "none") = (x.media_session = "none")
  BY DEF Engines, MediaStates
<1>2. y \in Engines /\ SameHolder(x, y)
  <2> HIDE DEF m
  <2>1. y \in Engines
    BY <1>1 DEF Engines
  <2>2. SameHolder(x, y)
    BY <1>1 DEF Engines, SameHolder
  <2>3. QED
    BY <2>1, <2>2
<1>3. Stopped(x) = ToIdle(y) \/ Stopped(x) = [y EXCEPT !.status = "stopping"]
  BY DEF Stopped
<1>4. ToIdle(y) \in Engines /\ SameSession(y, ToIdle(y))
  <2> HIDE DEF y
  <2> QED BY <1>2, ToIdleType
<1>5. /\ [y EXCEPT !.status = "stopping"] \in Engines
      /\ SameSession(y, [y EXCEPT !.status = "stopping"])
  <2> HIDE DEF y
  <2> QED BY <1>2, StatusType DEF Statuses
<1>6. QED
  <2> HIDE DEF y
  <2> QED BY <1>2, <1>3, <1>4, <1>5 DEF SameSession, SameHolder

Free(x, y) ==
    /\ y.active_cast = None
    /\ y.media_session = x.media_session

LEMMA ClearedType ==
    ASSUME NEW x \in Engines
    PROVE  Cleared(x) \in Engines /\ Free(x, Cleared(x))
BY ZenonT(60) DEF Cleared, Engines, Free

LEMMA CastClearedType ==
    ASSUME NEW x \in Engines, NEW id, NEW outcome \in Outcomes
    PROVE  LET y == CastCleared(x, id, outcome)
           IN  /\ y \in Engines
               /\ x.active_cast # id => y = x
               /\ x.active_cast = id => Free(x, y)
<1> DEFINE c == Cleared(x)
<1>1. c \in Engines /\ Free(x, c)
  BY ClearedType
<1>2. \A v \in Statuses : LET y == [c EXCEPT !.status = v]
                          IN  y \in Engines /\ Free(x, y)
  <2> HIDE DEF c
  <2> TAKE v \in Statuses
  <2>1. /\ [c EXCEPT !.status = v] \in Engines
        /\ SameSession(c, [c EXCEPT !.status = v])
    BY <1>1, StatusType
  <2>2. QED
    BY <1>1, <2>1 DEF SameSession, Free
<1>3. ToIdle(c) \in Engines /\ Free(x, ToIdle(c))
  <2> HIDE DEF c
  <2> QED BY <1>1, ToIdleType DEF SameSession, Free
<1>4. CASE x.active_cast # id
  BY <1>4 DEF CastCleared
<1>5. CASE x.active_cast = id
  <2>1. CASE outcome = "error"
    BY <1>2, <1>5, <2>1 DEF CastCleared, Statuses
  <2>2. CASE outcome = "ndi_missing"
    BY <1>2, <1>5, <2>2 DEF CastCleared, Statuses
  <2>3. CASE outcome = "ok"
    BY <1>3, <1>5, <2>3 DEF CastCleared
  <2>4. QED
    BY <2>1, <2>2, <2>3 DEF Outcomes
<1>6. QED
  BY <1>4, <1>5

LEMMA HandleDropped ==
    ASSUME NEW x \in Engines
    PROVE  [x EXCEPT !.media_session = "none", !.media_owner = None,
                     !.media_target = None] \in Engines
BY DEF Engines, MediaStates

LEMMA RefusedType ==
    ASSUME NEW x \in Engines, NEW t \in Receivers \cup {None}
    PROVE  [x EXCEPT !.status = "error", !.refused = t] \in Engines
BY DEF Engines, Statuses

LEMMA ReapedType ==
    ASSUME NEW x \in Engines
    PROVE  LET y == Reaped(x)
           IN  /\ y \in Engines
               /\ x.media_session \notin MediaEnds => y = x
               /\ x.media_session \in MediaEnds =>
                    y.active_cast = None /\ y.media_session = "none"
<1> DEFINE c == Cleared(x)
           g == [c EXCEPT !.media_session = "none", !.media_owner = None,
                          !.media_target = None]
           Gone(y) == /\ y \in Engines
                      /\ y.active_cast = None /\ y.media_session = "none"
<1>1. c \in Engines /\ c.active_cast = None
  BY ClearedType DEF Free
<1>2. Gone(g)
  <2> HIDE DEF c
  <2>1. g \in Engines
    BY <1>1, HandleDropped
  <2>2. g.active_cast = None /\ g.media_session = "none"
    BY <1>1 DEF Engines
  <2>3. QED
    BY <2>1, <2>2
<1>3. Gone(ToIdle(g))
  <2> HIDE DEF g
  <2> QED BY <1>2, ToIdleType DEF SameSession
<1>4. Gone([g EXCEPT !.status = "error"])
  <2> HIDE DEF g
  <2> QED BY <1>2, StatusType DEF SameSession, Statuses
<1>5. Gone([g EXCEPT !.status = "error", !.refused = x.media_target])
  <2> DEFINE t == x.media_target
  <2>1. t \in Receivers \cup {None}
    BY DEF Engines
  <2> HIDE DEF g, t
  <2>2. [g EXCEPT !.status = "error", !.refused = t] \in Engines
    BY <1>2, <2>1, RefusedType
  <2>3. QED
    BY <1>2, <2>2 DEF Engines, t
<1>6. CASE x.media_session = "ended"
  BY <1>3, <1>6 DEF Reaped, MediaEnds
<1>7. CASE x.media_session = "failed"
  BY <1>4, <1>7 DEF Reaped, MediaEnds
<1>8. CASE x.media_session = "impostor"
  BY <1>5, <1>8 DEF Reaped, MediaEnds
<1>9. CASE x.media_session \notin MediaEnds
  BY <1>9 DEF Reaped, MediaEnds
<1>10. QED
  BY <1>6, <1>7, <1>8, <1>9 DEF MediaEnds

LEMMA RediscoveredType ==
    ASSUME NEW x \in Engines, NEW protocol \in BOOLEAN
    PROVE  /\ Rediscovered(x, protocol) \in Engines
           /\ SameSession(x, Rediscovered(x, protocol))
<1>1. SameSession(x, x)
  BY DEF SameSession
<1>2. QED
  BY <1>1, PreferredType, RescannedType, AbortType DEF Rediscovered

LEMMA TimersType ==
    ASSUME timers \in SUBSET Nat, NEW x, NEW y \in Engines
    PROVE  TimersFor(x, y) \in SUBSET Nat
BY DEF TimersFor, Engines

(* A turn, or a step of finish_shutdown, ends with the handler's engine. *)
LEMMA SettleType ==
    ASSUME NEW x \in Engines, card \in BOOLEAN, Settle(x)
    PROVE  e' \in Engines /\ card' \in BOOLEAN /\ SameSession(x, e')
<1>1. CASE Turn(x)
  BY <1>1, TurnType
<1>2. CASE e' = x /\ UNCHANGED card
  BY <1>2 DEF SameSession
<1>3. QED
  BY <1>1, <1>2 DEF Settle

-----------------------------------------------------------------------------
(***************************************************************************)
(* The inductive invariant.  TaskHoldsSession alone says what a live task  *)
(* holds; with its converse SessionHasOwner a handler that finds nothing   *)
(* running knows that no task is alive, and may spawn one.                 *)
(***************************************************************************)
SessionInv == TypeOK /\ TaskHoldsSession /\ SessionHasOwner

TaskTable ==
    [Sessions -> [phase : TaskPhases, id : Ids \cup {None},
                  cancel : BOOLEAN, outcome : Outcomes]]

SameTasks ==
    \A s \in Sessions : /\ Alive(s)' = Alive(s)
                        /\ tasks'[s].id = tasks[s].id

(* While nothing runs, or a file session does, no cast task is alive. *)
LEMMA NoneAlive ==
    ASSUME SessionInv, e.active_cast = None \/ e.media_session # "none"
    PROVE  \A s \in Sessions : ~Alive(s)
BY NoneAssumption DEF SessionInv, TaskHoldsSession, Ids

(* A step that leaves the session and the tasks' lives alone. *)
LEMMA SameSessionKeeps ==
    ASSUME SessionInv, SameHolder(e, e'), SameTasks
    PROVE  TaskHoldsSession' /\ SessionHasOwner'
<1>1. TaskHoldsSession'
  BY DEF SessionInv, TaskHoldsSession, SameHolder, SameTasks
<1>2. SessionHasOwner'
  <2>1. SUFFICES ASSUME e'.active_cast # None, e'.media_session = "none"
                 PROVE  \E s \in Sessions :
                            Alive(s)' /\ tasks'[s].id = e'.active_cast
    BY DEF SessionHasOwner
  <2>2. PICK s \in Sessions : Alive(s) /\ tasks[s].id = e.active_cast
    BY <2>1 DEF SessionInv, SessionHasOwner, SameHolder
  <2>3. Alive(s)' /\ tasks'[s].id = e'.active_cast
    BY <2>2 DEF SameTasks, SameHolder
  <2>4. QED
    BY <2>3
<1>3. QED
  BY <1>1, <1>2

(* A step after which nothing runs but perhaps a file session. *)
LEMMA NoTaskKeeps ==
    ASSUME \A s \in Sessions : ~Alive(s)',
           e'.active_cast = None \/ e'.media_session # "none"
    PROVE  TaskHoldsSession' /\ SessionHasOwner'
BY DEF TaskHoldsSession, SessionHasOwner

LEMMA UnchangedTasks == ASSUME UNCHANGED tasks PROVE SameTasks
BY DEF SameTasks, Alive

LEMMA CancelSentType ==
    ASSUME tasks \in TaskTable, tasks' = CancelSent(e)
    PROVE  tasks' \in TaskTable /\ SameTasks
<1>1. ASSUME NEW s \in Sessions
      PROVE  /\ tasks'[s] \in [phase : TaskPhases, id : Ids \cup {None},
                                cancel : BOOLEAN, outcome : Outcomes]
             /\ tasks'[s].phase = tasks[s].phase
             /\ tasks'[s].id = tasks[s].id
  BY DEF TaskTable, CancelSent
<1>2. tasks' \in TaskTable
  BY <1>1 DEF TaskTable, CancelSent
<1>3. SameTasks
  BY <1>1 DEF SameTasks, Alive
<1>4. QED
  BY <1>2, <1>3

LEMMA HolderOfSession ==
    ASSUME NEW x, NEW y, SameSession(x, y) PROVE SameHolder(x, y)
BY DEF SameSession, SameHolder
-----------------------------------------------------------------------------
(* The invariant, operation by operation. *)

(* What is left of SessionInv' once the engine and the tasks are dealt with. *)
RestType ==
    /\ phase' \in {"running", "closing", "closed", "abandoned"}
    /\ wall' \in BOOLEAN
    /\ card' \in BOOLEAN
    /\ timers' \in SUBSET Nat
    /\ probes' \in SUBSET [generation : Nat, session : Nat]

LEMMA InvOf ==
    ASSUME e' \in Engines, tasks' \in TaskTable, RestType,
           TaskHoldsSession', SessionHasOwner'
    PROVE  SessionInv'
BY DEF SessionInv, TypeOK, TaskTable, RestType

(* A handler that only answers, or touches discovery, status or settings. *)
LEMMA QuietInv ==
    ASSUME SessionInv, e' \in Engines, SameSession(e, e'), UNCHANGED tasks,
           RestType
    PROVE  SessionInv'
<1>1. tasks' \in TaskTable
  BY DEF SessionInv, TypeOK, TaskTable
<1>2. TaskHoldsSession' /\ SessionHasOwner'
  BY UnchangedTasks, HolderOfSession, SameSessionKeeps
<1>3. QED
  BY <1>1, <1>2, InvOf

LEMMA AskedEngine ==
    ASSUME e \in Engines, NEW id, NEW s \in Files
    PROVE  Asked(id, s) \in Engines /\ SameSession(e, Asked(id, s))
<1> DEFINE u == Unrefused(e, id)
<1>1. u \in Engines /\ SameSession(e, u)
  BY UnrefusedType
<1>2. s \in Settings
  BY FilesAssumption
<1>3. LET y == [u EXCEPT !.media_owner = None, !.settings = s]
      IN  y \in Engines /\ SameSession(u, y)
  <2> HIDE DEF u
  <2> QED BY <1>1, <1>2, AskedType
<1>4. QED
  BY <1>1, <1>3 DEF Asked, SameSession

LEMMA CastRefusedInv ==
    ASSUME SessionInv, NEW id \in Ids, CastRefused(id) PROVE SessionInv'
<1>1. PICK s \in Files : Turn(Asked(id, s))
  BY DEF CastRefused
<1>2. Asked(id, s) \in Engines /\ SameSession(e, Asked(id, s))
  BY AskedEngine DEF SessionInv, TypeOK
<1>3. e' \in Engines /\ card' \in BOOLEAN /\ SameSession(e, e')
  BY <1>1, <1>2, TurnType DEF SessionInv, TypeOK, SameSession
<1>4. RestType /\ UNCHANGED tasks
  BY <1>3 DEF RestType, CastRefused, SessionInv, TypeOK
<1>5. QED
  BY <1>3, <1>4, QuietInv

(* The guard leaves no task alive, so the new one is the only one. *)
LEMMA CastInv ==
    ASSUME SessionInv, NEW id \in Ids, Cast(id) PROVE SessionInv'
<1>0. PICK n : n = e.serial + 1
  OBVIOUS
<1> DEFINE t == [phase |-> "new", id |-> id, cancel |-> FALSE,
                 outcome |-> "ok"]
<1>1. PICK s \in Files, sink \in Offered(id) :
         Turn(CastBegun(Asked(id, s), id, sink))
  BY DEF Cast
<1>2. Asked(id, s) \in Engines /\ SameSession(e, Asked(id, s))
  BY AskedEngine DEF SessionInv, TypeOK
<1>3. sink \in Sinks
  <2>1. CASE id \in Publishers
    BY <2>1 DEF Offered, Sinks
  <2>2. CASE id \notin Publishers
    BY <2>2, RegistryOf DEF Offered, Sinks, Registries, SessionInv, TypeOK
  <2>3. QED
    BY <2>1, <2>2
<1>4. /\ CastBegun(Asked(id, s), id, sink) \in Engines
      /\ CastBegun(Asked(id, s), id, sink).active_cast = id
      /\ CastBegun(Asked(id, s), id, sink).cast_cancel = n
      /\ CastBegun(Asked(id, s), id, sink).media_session = "none"
  BY <1>0, <1>2, <1>3, CastBegunType DEF Cast, Running, SameSession
<1>5. /\ e' \in Engines /\ card' \in BOOLEAN
      /\ e'.active_cast = id
      /\ e'.cast_cancel = n
      /\ e'.media_session = "none"
  BY <1>1, <1>4, TurnType DEF SessionInv, TypeOK, SameSession
<1>6. n \in Sessions
  BY <1>0, BoundsAssumption DEF SessionInv, TypeOK, Engines, Cast, Sessions
<1>7. /\ tasks' \in TaskTable
      /\ tasks'[n] = t
      /\ \A q \in Sessions \ {n} : tasks'[q] = tasks[q]
  <2>1. t \in [phase : TaskPhases, id : Ids \cup {None}, cancel : BOOLEAN,
               outcome : Outcomes]
    BY DEF TaskPhases, Outcomes
  <2>2. tasks' = [tasks EXCEPT ![n] = t]
    BY <1>0 DEF Cast
  <2>3. tasks \in TaskTable
    BY DEF SessionInv, TypeOK, TaskTable
  <2>4. QED
    <3> HIDE DEF t
    <3> QED BY <1>6, <2>1, <2>2, <2>3 DEF TaskTable
<1>8. \A q \in Sessions : ~Alive(q)
  BY NoneAlive DEF Cast, Running
<1>9. \A q \in Sessions : Alive(q)' => q = n
  BY <1>7, <1>8 DEF Alive
<1>10. Alive(n)' /\ tasks'[n].id = id
  BY <1>7 DEF Alive
<1>11. TaskHoldsSession'
  BY <1>5, <1>9, <1>10 DEF TaskHoldsSession
<1>12. SessionHasOwner'
  BY <1>5, <1>6, <1>10 DEF SessionHasOwner
<1>13. RestType
  BY <1>5 DEF RestType, Cast, SessionInv, TypeOK
<1>14. QED
  BY <1>5, <1>7, <1>11, <1>12, <1>13, InvOf

(* Stop, and the three other commands that end in stop_everything. *)
LEMMA StopInv ==
    ASSUME SessionInv, Turn(Stopped(e)), tasks' = CancelSent(e),
           UNCHANGED <<phase, wall, timers, probes>>
    PROVE  SessionInv'
<1>1. Stopped(e) \in Engines /\ SameHolder(e, Stopped(e))
  BY StoppedType DEF SessionInv, TypeOK
<1>2. e' \in Engines /\ card' \in BOOLEAN /\ SameSession(Stopped(e), e')
  BY <1>1, TurnType DEF SessionInv, TypeOK
<1>3. SameHolder(e, e')
  BY <1>1, <1>2 DEF SameHolder, SameSession
<1>4. tasks' \in TaskTable /\ SameTasks
  BY CancelSentType DEF SessionInv, TypeOK, TaskTable
<1>5. TaskHoldsSession' /\ SessionHasOwner'
  BY <1>3, <1>4, SameSessionKeeps
<1>6. RestType
  BY <1>2 DEF RestType, SessionInv, TypeOK
<1>7. QED
  BY <1>2, <1>4, <1>5, <1>6, InvOf

LEMMA ShutdownInv == ASSUME SessionInv, Shutdown PROVE SessionInv'
<1>1. Stopped(e) \in Engines /\ SameHolder(e, Stopped(e))
  BY StoppedType DEF SessionInv, TypeOK
<1>2. e' \in Engines /\ SameSession(Stopped(e), e')
  BY <1>1, AbortType DEF Shutdown
<1>3. SameHolder(e, e')
  BY <1>1, <1>2 DEF SameHolder, SameSession
<1>4. tasks' \in TaskTable /\ SameTasks
  BY CancelSentType DEF SessionInv, TypeOK, TaskTable, Shutdown
<1>5. TaskHoldsSession' /\ SessionHasOwner'
  BY <1>3, <1>4, SameSessionKeeps
<1>6. RestType
  BY DEF RestType, SessionInv, TypeOK, Shutdown
<1>7. QED
  BY <1>2, <1>4, <1>5, <1>6, InvOf

LEMMA RescanInv == ASSUME SessionInv, Rescan PROVE SessionInv'
<1>1. Rescanned(e) \in Engines /\ SameSession(e, Rescanned(e))
  BY RescannedType DEF SessionInv, TypeOK
<1>2. e' \in Engines /\ card' \in BOOLEAN /\ SameSession(e, e')
  BY <1>1, TurnType DEF SessionInv, TypeOK, Rescan, SameSession
<1>3. timers' \in SUBSET Nat
  BY <1>1, TimersType DEF Rescan, SessionInv, TypeOK
<1>4. RestType /\ UNCHANGED tasks
  BY <1>2, <1>3 DEF RestType, Rescan, SessionInv, TypeOK
<1>5. QED
  BY <1>2, <1>4, QuietInv

LEMMA PreferenceType ==
    ASSUME NEW x \in Engines, NEW on \in BOOLEAN
    PROVE  LET y == [x EXCEPT !.settings.auto_discovery = on]
           IN  y \in Engines /\ SameSession(x, y)
<1> DEFINE s == [x.settings EXCEPT !.auto_discovery = on]
<1>1. s \in Settings
  BY DEF Engines, Settings
<1>2. QED
  <2> HIDE DEF s
  <2>1. [x EXCEPT !.settings = s] \in Engines
        /\ SameSession(x, [x EXCEPT !.settings = s])
    BY <1>1, ReloadType
  <2>2. QED
    BY <2>1 DEF s

LEMMA SetAutoDiscoveryInv ==
    ASSUME SessionInv, NEW on \in BOOLEAN, SetAutoDiscovery(on)
    PROVE  SessionInv'
<1> DEFINE x == [e EXCEPT !.settings.auto_discovery = on]
<1>1. x \in Engines /\ SameSession(e, x)
  BY PreferenceType DEF SessionInv, TypeOK
<1>2. Turn(Preferred(x)) /\ timers' = TimersFor(x, Preferred(x))
  BY DEF SetAutoDiscovery
<1>3. Preferred(x) \in Engines /\ SameSession(e, Preferred(x))
  <2> HIDE DEF x
  <2> QED BY <1>1, PreferredType DEF SameSession
<1>4. e' \in Engines /\ card' \in BOOLEAN /\ SameSession(e, e')
  <2> HIDE DEF x
  <2> QED BY <1>2, <1>3, TurnType DEF SessionInv, TypeOK, SameSession
<1>5. timers' \in SUBSET Nat
  <2> HIDE DEF x
  <2> QED BY <1>2, <1>3, TimersType DEF SessionInv, TypeOK
<1>6. RestType /\ UNCHANGED tasks
  BY <1>4, <1>5 DEF RestType, SetAutoDiscovery, SessionInv, TypeOK
<1>7. QED
  BY <1>4, <1>6, QuietInv
LEMMA ApplySettingsInv ==
    ASSUME SessionInv, NEW new \in Files, NEW protocol \in BOOLEAN,
           ApplySettings(new, protocol)
    PROVE  SessionInv'
<1> DEFINE retry == e.status = "card_failed"
           p == e.audio_pending \/ retry \/ new.card # e.settings.card
           x == [e EXCEPT !.settings = new, !.audio_pending = p]
           y == Rediscovered(x, protocol)
<1>1. x \in Engines /\ SameSession(e, x)
  <2>1. p \in BOOLEAN /\ new \in Settings
    BY FilesAssumption
  <2> HIDE DEF p
  <2>2. x \in Engines
    BY ZenonT(60), <2>1 DEF SessionInv, TypeOK, Engines
  <2>3. SameSession(e, x)
    BY DEF SessionInv, TypeOK, Engines, SameSession
  <2>4. QED
    BY <2>2, <2>3
<1>2. y \in Engines /\ SameSession(e, y)
  <2> HIDE DEF x
  <2> QED BY <1>1, RediscoveredType DEF SameSession
<1>3. PICK ok \in BOOLEAN :
         /\ \/ e' = ToIdle(Reconciled(y, ok))
            \/ e' = Reconciled(y, ok)
         /\ card' = CardAfter(y, ok)
  BY DEF ApplySettings
<1>4. /\ Reconciled(y, ok) \in Engines
      /\ SameSession(e, Reconciled(y, ok))
      /\ card' \in BOOLEAN
  <2> HIDE DEF y
  <2> QED BY <1>2, <1>3, ReconciledType DEF SessionInv, TypeOK, SameSession
<1>5. e' \in Engines /\ SameSession(e, e')
  <2> HIDE DEF y
  <2> QED BY <1>3, <1>4, ToIdleType DEF SameSession
<1>6. timers' \in SUBSET Nat
  <2>1. timers' = TimersFor(x, y)
    BY DEF ApplySettings
  <2> HIDE DEF x, y
  <2>2. QED
    BY <1>2, <2>1, TimersType DEF SessionInv, TypeOK
<1>7. RestType /\ UNCHANGED tasks
  BY <1>4, <1>6 DEF RestType, ApplySettings, SessionInv, TypeOK
<1>8. QED
  BY <1>5, <1>7, QuietInv

LEMMA SendableEngine ==
    ASSUME e \in Engines, NEW r, NEW s \in Files
    PROVE  /\ [e EXCEPT !.settings = s] \in Engines
           /\ SameSession(e, [e EXCEPT !.settings = s])
           /\ Unrefused([e EXCEPT !.settings = s], r) \in Engines
           /\ SameSession(e, Unrefused([e EXCEPT !.settings = s], r))
           /\ Sendable(r, s) \in Engines
           /\ SameSession(e, Sendable(r, s))
           /\ Sendable(r, s).registry = e.registry
<1> DEFINE x == [e EXCEPT !.settings = s]
           u == Unrefused(x, r)
<1>1. s \in Settings
  BY FilesAssumption
<1>2. x \in Engines /\ SameSession(e, x) /\ x.registry = e.registry
  BY <1>1, ReloadType DEF Engines
<1>3. u \in Engines /\ SameSession(e, u) /\ u.registry = e.registry
  <2> HIDE DEF x
  <2>1. u \in Engines /\ SameSession(e, u)
    BY <1>2, UnrefusedType DEF SameSession
  <2>2. u.registry = e.registry
    BY <1>2 DEF Unrefused, Engines
  <2>3. QED
    BY <2>1, <2>2
<1>4. LET y == [u EXCEPT !.media_owner = None]
      IN  y \in Engines /\ SameSession(e, y) /\ y.registry = e.registry
  <2> HIDE DEF u
  <2>1. LET y == [u EXCEPT !.media_owner = None]
        IN  y \in Engines /\ SameSession(u, y)
    BY <1>3, DisownedType
  <2>2. QED
    BY <1>3, <2>1 DEF SameSession, Engines
<1>5. QED
  BY <1>2, <1>3, <1>4 DEF Sendable

(* Files start only where no cast task is alive, and none is spawned. *)
LEMMA SendMediaInv ==
    ASSUME SessionInv, NEW r \in Receivers, NEW p \in Players \cup {None},
           NEW fetch \in BOOLEAN, SendMedia(r, p, fetch)
    PROVE  SessionInv'
<1>1. PICK s \in Files :
         Turn(Owned(IF fetch THEN FetchBegun(Sendable(r, s), r)
                    ELSE DecodeBegun(LinkReset(Sendable(r, s)), r), p))
  BY DEF SendMedia
<1> DEFINE x == Sendable(r, s)
           l == LinkReset(x)
           y == IF fetch THEN FetchBegun(x, r) ELSE DecodeBegun(l, r)
<1>2. x \in Engines /\ x.serial < MaxSessions /\ x.registry = e.registry
  BY ZenonT(60), SendableEngine DEF SendMedia, SameSession, SessionInv, TypeOK
<1>3. l \in Engines /\ l.serial < MaxSessions /\ l.registry = e.registry
  <2> HIDE DEF x
  <2>1. l \in Engines /\ l.serial < MaxSessions
    BY <1>2, LinkResetType DEF SameSession
  <2>2. l.registry = e.registry
    BY <1>2 DEF LinkReset, Engines
  <2>3. QED
    BY <2>1, <2>2
<1>4. y \in Engines /\ y.media_session = "running"
  <2>1. CASE fetch
    <3> HIDE DEF x
    <3> QED BY <1>2, <2>1, FetchBegunType
  <2>2. CASE ~fetch
    <3> HIDE DEF l
    <3>1. r \in DOMAIN l.registry
      BY <1>3 DEF SendMedia
    <3>2. QED
      BY <1>3, <2>2, <3>1, DecodeBegunType
  <2>3. QED
    BY <2>1, <2>2
<1>5. Owned(y, p) \in Engines /\ Owned(y, p).media_session = "running"
  <2> HIDE DEF y
  <2> QED BY <1>4, OwnedType DEF SameSession
<1>6. e' \in Engines /\ card' \in BOOLEAN /\ e'.media_session = "running"
  <2>1. Turn(Owned(y, p))
    BY <1>1
  <2> HIDE DEF y
  <2>2. QED
    BY <1>5, <2>1, TurnType DEF SameSession, SessionInv, TypeOK
<1>7. UNCHANGED tasks /\ \A s2 \in Sessions : ~Alive(s2)'
  BY NoneAlive DEF SendMedia, Running, Alive
<1>8. TaskHoldsSession' /\ SessionHasOwner'
  BY <1>6, <1>7, NoTaskKeeps
<1>9. RestType /\ tasks' \in TaskTable
  BY <1>6 DEF RestType, TaskTable, SendMedia, SessionInv, TypeOK
<1>10. QED
  BY <1>6, <1>8, <1>9, InvOf

LEMMA SendMediaRefusedInv ==
    ASSUME SessionInv, NEW r \in Receivers, NEW p \in Players \cup {None},
           SendMediaRefused(r, p)
    PROVE  SessionInv'
<1>1. PICK s \in Files :
         \/ Turn([e EXCEPT !.settings = s])
         \/ Turn(Unrefused([e EXCEPT !.settings = s], r))
         \/ Turn(Sendable(r, s))
         \/ Turn(LinkReset(Sendable(r, s)))
  BY DEF SendMediaRefused
<1>2. LinkReset(Sendable(r, s)) \in Engines
      /\ SameSession(e, LinkReset(Sendable(r, s)))
  <2> DEFINE y == Sendable(r, s)
  <2>1. y \in Engines /\ SameSession(e, y)
    BY SendableEngine DEF SessionInv, TypeOK
  <2> HIDE DEF y
  <2>2. LinkReset(y) \in Engines /\ SameSession(e, LinkReset(y))
    BY <2>1, LinkResetType DEF SameSession
  <2>3. QED
    BY <2>2 DEF y
<1>3. PICK x \in Engines : Turn(x) /\ SameSession(e, x)
  BY <1>1, <1>2, SendableEngine DEF SessionInv, TypeOK
<1>4. e' \in Engines /\ card' \in BOOLEAN /\ SameSession(e, e')
  BY <1>3, TurnType DEF SessionInv, TypeOK, SameSession
<1>5. RestType /\ UNCHANGED tasks
  BY <1>4 DEF RestType, SendMediaRefused, SessionInv, TypeOK
<1>6. QED
  BY <1>4, <1>5, QuietInv

LEMMA ControlMediaFailsInv ==
    ASSUME SessionInv, ControlMediaFails PROVE SessionInv'
<1> DEFINE x == [e EXCEPT !.status = "error"]
<1>1. x \in Engines /\ SameSession(e, x)
  BY StatusType DEF SessionInv, TypeOK, Statuses
<1>2. Turn(x)
  BY DEF ControlMediaFails
<1>3. e' \in Engines /\ card' \in BOOLEAN /\ SameSession(e, e')
  <2> HIDE DEF x
  <2> QED BY <1>1, <1>2, TurnType DEF SessionInv, TypeOK, SameSession
<1>4. RestType /\ UNCHANGED tasks
  BY <1>3 DEF RestType, ControlMediaFails, SessionInv, TypeOK
<1>5. QED
  BY <1>3, <1>4, QuietInv

(* finish_shutdown's ends change neither the engine nor the tasks. *)
LEMMA CloseInv == ASSUME SessionInv, Close \/ Abandon PROVE SessionInv'
<1>1. e' \in Engines /\ SameSession(e, e') /\ UNCHANGED tasks
  BY DEF Close, Abandon, SessionInv, TypeOK, SameSession
<1>2. RestType
  BY DEF Close, Abandon, SessionInv, TypeOK, RestType
<1>3. QED
  BY <1>1, <1>2, QuietInv

LEMMA CommandInv == ASSUME SessionInv, Command PROVE SessionInv'
<1>1. ASSUME NEW id \in Ids, CastRefused(id) \/ Cast(id) PROVE SessionInv'
  BY <1>1, CastRefusedInv, CastInv
<1>2. CASE Stop
  BY <1>2, StopInv DEF Stop
<1>3. CASE Rescan
  BY <1>3, RescanInv
<1>4. ASSUME NEW on \in BOOLEAN, SetAutoDiscovery(on) PROVE SessionInv'
  BY <1>4, SetAutoDiscoveryInv
<1>5. ASSUME NEW s \in Files, NEW protocol \in BOOLEAN,
             ApplySettings(s, protocol)
      PROVE  SessionInv'
  BY <1>5, ApplySettingsInv
<1>6. ASSUME NEW r \in Receivers, NEW p \in Players \cup {None},
             \/ \E fetch \in BOOLEAN : SendMedia(r, p, fetch)
             \/ SendMediaRefused(r, p)
      PROVE  SessionInv'
  BY <1>6, SendMediaInv, SendMediaRefusedInv
<1>7. CASE ControlMediaFails
  BY <1>7, ControlMediaFailsInv
<1>8. ASSUME NEW p \in Players,
             \/ \E id \in Sessions : StopPlayer(p, id)
             \/ PlayerGone(p)
      PROVE  SessionInv'
  BY <1>8, StopInv DEF StopPlayer, PlayerGone
<1>9. CASE Shutdown
  BY <1>9, ShutdownInv
<1>10. QED
  BY <1>1, <1>2, <1>3, <1>4, <1>5, <1>6, <1>7, <1>8, <1>9 DEF Command
-----------------------------------------------------------------------------
(* Events, ticks, and the tasks' own steps. *)

LEMMA DiscoveredInv ==
    ASSUME SessionInv, NEW g, NEW x \in Engines, SameSession(e, x),
           Discovered(g, x)
    PROVE  SessionInv'
<1>1. PICK y \in {x, e} : Settle(y)
  BY DEF Discovered
<1>2. y \in Engines /\ SameSession(e, y)
  BY <1>1 DEF SessionInv, TypeOK, SameSession
<1>3. e' \in Engines /\ card' \in BOOLEAN /\ SameSession(e, e')
  BY <1>1, <1>2, SettleType DEF SessionInv, TypeOK, SameSession
<1>4. RestType /\ UNCHANGED tasks
  BY <1>3 DEF RestType, Discovered, SessionInv, TypeOK
<1>5. QED
  BY <1>3, <1>4, QuietInv

LEMMA SearchTimedOutInv ==
    ASSUME SessionInv, NEW g, SearchTimedOut(g) PROVE SessionInv'
<1> DEFINE x == [e EXCEPT !.searching = FALSE]
<1>1. x \in Engines /\ SameSession(e, x)
  BY ScanType DEF SessionInv, TypeOK
<1>2. Refresh(x) \in Engines /\ SameSession(e, Refresh(x))
  <2> HIDE DEF x
  <2> QED BY <1>1, RefreshType DEF SameSession
<1>3. PICK y \in {Refresh(x), e} : Settle(y)
  BY DEF SearchTimedOut
<1>4. y \in Engines /\ SameSession(e, y)
  BY <1>2, <1>3 DEF SessionInv, TypeOK, SameSession
<1>5. e' \in Engines /\ card' \in BOOLEAN /\ SameSession(e, e')
  BY <1>3, <1>4, SettleType DEF SessionInv, TypeOK, SameSession
<1>6. RestType /\ UNCHANGED tasks
  BY <1>5 DEF RestType, SearchTimedOut, SessionInv, TypeOK
<1>7. QED
  BY <1>5, <1>6, QuietInv

LEMMA ProbeType ==
    ASSUME NEW x \in Engines, NEW b \in BOOLEAN, NEW v \in Nat \cup {None}
    PROVE  /\ [x EXCEPT !.probing = b] \in Engines
           /\ SameSession(x, [x EXCEPT !.probing = b])
           /\ [x EXCEPT !.probing = b, !.measured = v] \in Engines
           /\ SameSession(x, [x EXCEPT !.probing = b, !.measured = v])
<1>1. [x EXCEPT !.probing = b] \in Engines
  BY DEF Engines
<1>2. [x EXCEPT !.probing = b, !.measured = v] \in Engines
  BY ZenonT(60) DEF Engines
<1>3. /\ SameSession(x, [x EXCEPT !.probing = b])
      /\ SameSession(x, [x EXCEPT !.probing = b, !.measured = v])
  BY DEF Engines, SameSession
<1>4. QED
  BY <1>1, <1>2, <1>3

LEMMA LinkMeasuredInv ==
    ASSUME SessionInv, NEW p \in probes, LinkMeasured(p) PROVE SessionInv'
<1> DEFINE v == IF e.active_sink # None THEN p.session ELSE e.measured
           x == [e EXCEPT !.probing = FALSE, !.measured = v]
<1>1. v \in Nat \cup {None}
  BY DEF SessionInv, TypeOK, Engines
<1>2. x \in Engines /\ SameSession(e, x)
  <2> HIDE DEF v
  <2> QED BY <1>1, ProbeType DEF SessionInv, TypeOK
<1>3. PICK y \in {x, e} : Settle(y)
  BY DEF LinkMeasured
<1>4. y \in Engines /\ SameSession(e, y)
  BY <1>2, <1>3 DEF SessionInv, TypeOK, SameSession
<1>5. e' \in Engines /\ card' \in BOOLEAN /\ SameSession(e, e')
  BY <1>3, <1>4, SettleType DEF SessionInv, TypeOK, SameSession
<1>6. RestType /\ UNCHANGED tasks
  BY <1>5 DEF RestType, LinkMeasured, SessionInv, TypeOK
<1>7. QED
  BY <1>5, <1>6, QuietInv

(* The reporting task was the one that held the session: when its report   *)
(* is consumed nothing holds it, and no other task is alive.               *)
LEMMA CastFinishedInv ==
    ASSUME SessionInv, NEW s \in Sessions, CastFinished(s) PROVE SessionInv'
<1> DEFINE id == tasks[s].id
           y == CastCleared(e, id, tasks[s].outcome)
           t == [Idle EXCEPT !.phase = "gone"]
<1>1. Alive(s) /\ tasks \in TaskTable
  BY DEF CastFinished, Alive, SessionInv, TypeOK, TaskTable
<1>2. /\ e.active_cast = id /\ e.media_session = "none"
      /\ \A q \in Sessions \ {s} : ~Alive(q)
  BY <1>1 DEF SessionInv, TaskHoldsSession
<1>3. tasks[s].outcome \in Outcomes
  BY <1>1 DEF TaskTable
<1>4. y \in Engines /\ y.active_cast = None /\ y.media_session = "none"
  BY <1>2, <1>3, CastClearedType DEF Free, SessionInv, TypeOK
<1>5. /\ e' \in Engines /\ card' \in BOOLEAN
      /\ e'.active_cast = None /\ e'.media_session = "none"
  <2>1. Settle(y)
    BY DEF CastFinished
  <2> HIDE DEF y
  <2>2. QED
    BY <1>4, <2>1, SettleType DEF SessionInv, TypeOK, SameSession
<1>6. t \in [phase : TaskPhases, id : Ids \cup {None}, cancel : BOOLEAN,
             outcome : Outcomes] /\ t.phase = "gone"
  BY DEF Idle, TaskPhases, Outcomes
<1>7. tasks' = [tasks EXCEPT ![s] = t]
  BY DEF CastFinished
<1>8. tasks' \in TaskTable
  <2> HIDE DEF t
  <2> QED BY <1>1, <1>6, <1>7 DEF TaskTable
<1>9. \A q \in Sessions : ~Alive(q)'
  <2> HIDE DEF t
  <2> QED BY <1>1, <1>2, <1>6, <1>7 DEF TaskTable, Alive
<1>10. TaskHoldsSession' /\ SessionHasOwner'
  BY <1>5, <1>9, NoTaskKeeps
<1>11. RestType
  BY <1>5 DEF RestType, CastFinished, SessionInv, TypeOK
<1>12. QED
  BY <1>5, <1>8, <1>10, <1>11, InvOf

(* A reaped engine has nothing running; before it was, no task was alive.  *)
LEMMA ReapKeeps ==
    ASSUME SessionInv, NEW y, SameSession(Reaped(e), y), e' = y, UNCHANGED tasks
    PROVE  TaskHoldsSession' /\ SessionHasOwner'
<1>1. CASE e.media_session \in MediaEnds
  <2>1. y.active_cast = None
    BY <1>1, ReapedType DEF SameSession, SessionInv, TypeOK
  <2>2. \A s \in Sessions : ~Alive(s)'
    BY <1>1, NoneAlive DEF MediaEnds, Alive
  <2>3. QED
    BY <2>1, <2>2, NoTaskKeeps
<1>2. CASE e.media_session \notin MediaEnds
  <2>1. SameSession(e, e')
    BY <1>2, ReapedType DEF SameSession, SessionInv, TypeOK
  <2>2. QED
    BY <2>1, UnchangedTasks, HolderOfSession, SameSessionKeeps
<1>3. QED
  BY <1>1, <1>2

LEMMA TickInv ==
    ASSUME SessionInv, NEW linked \in BOOLEAN, Tick(linked) PROVE SessionInv'
<1> DEFINE x == Reaped(e)
           asks == linked /\ x.active_sink # None /\ ~x.probing
           b == x.probing \/ asks
           z == [x EXCEPT !.probing = b]
<1>1. x \in Engines
  BY ReapedType DEF SessionInv, TypeOK
<1>2. z \in Engines /\ SameSession(x, z)
  <2>1. b \in BOOLEAN
    <3> HIDE DEF x
    <3> QED BY <1>1 DEF Engines
  <2> HIDE DEF b, x
  <2>2. QED
    BY <1>1, <2>1, ProbeType
<1>3. Refresh(z) \in Engines /\ SameSession(x, Refresh(z))
  <2> HIDE DEF z, x
  <2> QED BY <1>2, RefreshType DEF SameSession
<1>4. e' \in Engines /\ card' \in BOOLEAN /\ SameSession(x, e')
  <2>1. Turn(Refresh(z))
    BY DEF Tick
  <2> HIDE DEF z, x
  <2>2. QED
    BY <1>3, <2>1, TurnType DEF SessionInv, TypeOK, SameSession
<1>5. UNCHANGED tasks /\ tasks' \in TaskTable
  BY DEF Tick, SessionInv, TypeOK, TaskTable
<1>6. TaskHoldsSession' /\ SessionHasOwner'
  BY <1>4, <1>5, ReapKeeps
<1>7. probes' \in SUBSET [generation : Nat, session : Nat]
  <2>1. x.operation_generation \in Nat /\ x.serial \in Nat
    <3> HIDE DEF x
    <3> QED BY <1>1, BoundsAssumption DEF Engines
  <2>2. probes' \subseteq probes \cup
          {[generation |-> x.operation_generation, session |-> x.serial]}
    BY DEF Tick
  <2>3. QED
    BY <2>1, <2>2 DEF SessionInv, TypeOK
<1>8. RestType
  BY <1>4, <1>7 DEF RestType, Tick, SessionInv, TypeOK
<1>9. QED
  BY <1>4, <1>5, <1>6, <1>8, InvOf

LEMMA ClosingTickInv == ASSUME SessionInv, ClosingTick PROVE SessionInv'
<1>1. Reaped(e) \in Engines
  BY ReapedType DEF SessionInv, TypeOK
<1>2. e' \in Engines /\ card' \in BOOLEAN /\ SameSession(Reaped(e), e')
  BY <1>1, SettleType DEF ClosingTick, SessionInv, TypeOK
<1>3. UNCHANGED tasks /\ tasks' \in TaskTable
  BY DEF ClosingTick, SessionInv, TypeOK, TaskTable
<1>4. TaskHoldsSession' /\ SessionHasOwner'
  BY <1>2, <1>3, ReapKeeps
<1>5. RestType
  BY <1>2 DEF RestType, ClosingTick, SessionInv, TypeOK
<1>6. QED
  BY <1>2, <1>3, <1>4, <1>5, InvOf

Living == TaskPhases \ {"none", "gone"}

(* A live task that stays alive leaves every conjunct as it was. *)
LEMMA LivingStep ==
    ASSUME SessionInv, NEW s \in Sessions, NEW from, NEW to \in Living,
           NEW outcome \in Outcomes, from \in Living,
           Goes(s, from, to) \/ Ends(s, from, to, outcome),
           wall' \in BOOLEAN, card' \in BOOLEAN
    PROVE  SessionInv'
<1>1. tasks \in TaskTable /\ tasks[s].phase = from
  BY DEF SessionInv, TypeOK, TaskTable, Goes, Ends
<1>2. \/ tasks' = [tasks EXCEPT ![s].phase = to]
      \/ tasks' = [tasks EXCEPT ![s].phase = to, ![s].outcome = outcome]
  BY DEF Goes, Ends
<1>3. tasks' \in TaskTable
  BY <1>1, <1>2 DEF TaskTable, Living
<1>4. SameTasks
  BY <1>1, <1>2 DEF TaskTable, SameTasks, Alive, Living
<1>5. e' = e
  BY DEF Goes, Ends
<1>6. TaskHoldsSession' /\ SessionHasOwner'
  BY <1>4, <1>5, SameSessionKeeps DEF SameHolder
<1>7. RestType
  BY DEF RestType, SessionInv, TypeOK, Goes, Ends
<1>8. QED
  BY <1>3, <1>5, <1>6, <1>7, InvOf DEF SessionInv, TypeOK

LEMMA TaskStepInv ==
    ASSUME SessionInv, NEW s \in Sessions, TaskStep(s) PROVE SessionInv'
<1>1. wall' \in BOOLEAN /\ card' \in BOOLEAN
  BY DEF SessionInv, TypeOK, TaskStep, TaskStarts, NdiChecked, CardEnsured,
         BackendSelected, SelectionCancelled, CaptureStarted, StreamReturned,
         StreamCancelled, StopStreamReturned, BackendStopped, Reports
<1>2. \E from \in Living, to \in Living, outcome \in Outcomes :
         Goes(s, from, to) \/ Ends(s, from, to, outcome)
  <2> DEFINE P == \E from \in Living, to \in Living, outcome \in Outcomes :
                    Goes(s, from, to) \/ Ends(s, from, to, outcome)
  <2>0. Living = {"new", "checking", "ensuring", "selecting", "capturing",
                  "playing", "stopping", "draining", "closing", "done",
                  "reported"}
    BY DEF Living, TaskPhases
  <2>1. TaskStarts(s) => P
    BY <2>0 DEF TaskStarts, Outcomes
  <2>2. NdiChecked(s) => P
    BY <2>0 DEF NdiChecked, Outcomes
  <2>3. CardEnsured(s) => P
    BY <2>0 DEF CardEnsured, Outcomes
  <2>4. BackendSelected(s) \/ SelectionCancelled(s) => P
    BY <2>0 DEF BackendSelected, SelectionCancelled, Outcomes
  <2>5. CaptureStarted(s) => P
    BY <2>0 DEF CaptureStarted, Outcomes
  <2>6. StreamReturned(s) \/ StreamCancelled(s) => P
    BY <2>0 DEF StreamReturned, StreamCancelled, Outcomes
  <2>7. StopStreamReturned(s) \/ BackendStopped(s) \/ Reports(s) => P
    BY <2>0 DEF StopStreamReturned, BackendStopped, Reports, Outcomes
  <2>8. QED
    BY <2>1, <2>2, <2>3, <2>4, <2>5, <2>6, <2>7 DEF TaskStep
<1>3. QED
  BY <1>1, <1>2, LivingStep

(* The file session's end changes which handle the engine holds, not whether. *)
LEMMA MediaReturnsInv == ASSUME SessionInv, MediaReturns PROVE SessionInv'
<1>1. PICK end \in MediaEnds : e' = [e EXCEPT !.media_session = end]
  BY DEF MediaReturns
<1>2. e' \in Engines
  BY <1>1 DEF SessionInv, TypeOK, Engines, MediaEnds, MediaStates
<1>3. SameHolder(e, e')
  BY <1>1 DEF SessionInv, TypeOK, Engines, MediaEnds, SameHolder, MediaReturns
<1>4. tasks' \in TaskTable /\ SameTasks
  BY UnchangedTasks DEF MediaReturns, SessionInv, TypeOK, TaskTable
<1>5. RestType
  BY DEF RestType, MediaReturns, SessionInv, TypeOK
<1>6. QED
  BY <1>2, <1>3, <1>4, <1>5, SameSessionKeeps, InvOf

LEMMA SinkStateInv == ASSUME SessionInv, SinkStateChanges PROVE SessionInv'
<1>1. e' \in Engines /\ SameSession(e, e') /\ UNCHANGED tasks /\ RestType
  BY DEF SinkStateChanges, SessionInv, TypeOK, SameSession, RestType
<1>2. QED
  BY <1>1, QuietInv

LEMMA EventInv == ASSUME SessionInv, Event PROVE SessionInv'
<1>1. ASSUME NEW r \in Receivers, NEW g \in 0..MaxGenerations + 1,
             \/ \E arc \in Arcs : Added(r, arc, g)
             \/ Removed(r, g)
      PROVE  SessionInv'
  <2>1. ASSUME NEW arc \in Arcs, Added(r, arc, g) PROVE SessionInv'
    <3>1. Announced(e, r, arc) \in Engines
          /\ SameSession(e, Announced(e, r, arc))
      BY AnnouncedType DEF SessionInv, TypeOK
    <3>2. QED
      BY <2>1, <3>1, DiscoveredInv DEF Added
  <2>2. CASE Removed(r, g)
    <3>1. Withdrawn(e, r) \in Engines /\ SameSession(e, Withdrawn(e, r))
      BY WithdrawnType DEF SessionInv, TypeOK
    <3>2. QED
      BY <2>2, <3>1, DiscoveredInv DEF Removed
  <2>3. QED
    BY <1>1, <2>1, <2>2
<1>2. ASSUME NEW g \in timers, SearchTimedOut(g) PROVE SessionInv'
  BY <1>2, SearchTimedOutInv
<1>3. ASSUME NEW p \in probes, LinkMeasured(p) PROVE SessionInv'
  BY <1>3, LinkMeasuredInv
<1>4. ASSUME NEW s \in Sessions, CastFinished(s) PROVE SessionInv'
  BY <1>4, CastFinishedInv
<1>5. QED
  BY <1>1, <1>2, <1>3, <1>4 DEF Event

-----------------------------------------------------------------------------
(* Theorems. *)

LEMMA FirstEngine ==
    ASSUME NEW s \in Settings, NEW R \in Registries, NEW v \in Statuses
    PROVE  [registry |-> R, order |-> {},
            searching |-> s.auto_discovery,
            discovering |-> s.auto_discovery, generation |-> 0,
            settings |-> s, audio_pending |-> s.card,
            active_cast |-> None, active_sink |-> None,
            cast_cancel |-> None, media_session |-> "none",
            media_owner |-> None, media_target |-> None, refused |-> None,
            measured |-> None, probing |-> FALSE,
            operation_generation |-> 0, serial |-> 0,
            status |-> v] \in Engines
<1>1. s.auto_discovery \in BOOLEAN /\ s.card \in BOOLEAN
  BY DEF Settings
<1>2. 0 \in 0..MaxSessions
  BY BoundsAssumption
<1>3. "none" \in MediaStates
  BY DEF MediaStates
<1>4. QED
  <2> HIDE DEF MediaStates, Statuses, Settings
  <2> QED BY <1>1, <1>2, <1>3 DEF Engines, Registries

LEMMA InitInv == Init => SessionInv
<1> SUFFICES ASSUME Init PROVE SessionInv
  OBVIOUS
<1>1. PICK s \in Files :
        /\ e = [registry |-> [r \in {} |-> None], order |-> {},
                searching |-> s.auto_discovery,
                discovering |-> s.auto_discovery, generation |-> 0,
                settings |-> s, audio_pending |-> s.card,
                active_cast |-> None, active_sink |-> None,
                cast_cancel |-> None, media_session |-> "none",
                media_owner |-> None, media_target |-> None, refused |-> None,
                measured |-> None, probing |-> FALSE,
                operation_generation |-> 0, serial |-> 0,
                status |-> IF s.auto_discovery THEN "searching"
                                               ELSE "discovery_off"]
        /\ phase = "running"
        /\ tasks = [q \in Sessions |-> Idle]
        /\ wall = FALSE
        /\ card = FALSE
        /\ timers = IF s.auto_discovery THEN {0} ELSE {}
        /\ probes = {}
  BY DEF Init
<1>2. [r \in {} |-> None] \in Registries
  <2>1. [r \in {} |-> None] \in [{} -> Arcs]
    OBVIOUS
  <2>2. {} \in SUBSET Receivers
    OBVIOUS
  <2>3. QED
    BY <2>1, <2>2 DEF Registries
<1>3. s \in Settings
  BY FilesAssumption
<1>4. e \in Engines
  <2>1. (IF s.auto_discovery THEN "searching" ELSE "discovery_off") \in Statuses
    BY DEF Statuses
  <2>2. PICK v \in Statuses :
           v = IF s.auto_discovery THEN "searching" ELSE "discovery_off"
    BY <2>1
  <2>3. PICK R \in Registries : R = [r \in {} |-> None]
    BY <1>2
  <2>4. QED
    BY <1>1, <1>3, <2>2, <2>3, FirstEngine
<1>5. tasks \in TaskTable /\ \A q \in Sessions : ~Alive(q)
  BY <1>1 DEF TaskTable, Idle, TaskPhases, Outcomes, Alive
<1>6. timers \in SUBSET Nat
  BY <1>1
<1>7. TypeOK
  BY <1>1, <1>4, <1>5, <1>6 DEF TypeOK, TaskTable
<1>8. TaskHoldsSession /\ SessionHasOwner
  BY <1>1, <1>5 DEF TaskHoldsSession, SessionHasOwner
<1>9. QED
  BY <1>7, <1>8 DEF SessionInv

LEMMA NextInv == SessionInv /\ [Next]_vars => SessionInv'
<1> SUFFICES ASSUME SessionInv, [Next]_vars PROVE SessionInv'
  OBVIOUS
<1>1. CASE Command
  BY <1>1, CommandInv
<1>2. CASE Event
  BY <1>2, EventInv
<1>3. ASSUME NEW linked \in BOOLEAN, Tick(linked) PROVE SessionInv'
  BY <1>3, TickInv
<1>4. CASE ClosingTick
  BY <1>4, ClosingTickInv
<1>5. CASE Close \/ Abandon
  BY <1>5, CloseInv
<1>6. ASSUME NEW s \in Sessions, TaskStep(s) PROVE SessionInv'
  BY <1>6, TaskStepInv
<1>7. CASE MediaReturns
  BY <1>7, MediaReturnsInv
<1>8. CASE SinkStateChanges
  BY <1>8, SinkStateInv
<1>9. CASE UNCHANGED vars
  <2>1. e' \in Engines /\ SameSession(e, e') /\ UNCHANGED tasks /\ RestType
    BY <1>9 DEF vars, SessionInv, TypeOK, SameSession, RestType
  <2>2. QED
    BY <2>1, QuietInv
<1>10. QED
  BY <1>1, <1>2, <1>3, <1>4, <1>5, <1>6, <1>7, <1>8, <1>9 DEF Next

(* Every behaviour of the engine keeps the inductive invariant. *)
THEOREM SessionInvariant == Spec => []SessionInv
BY InitInv, NextInv, PTL DEF Spec

(* The fields of struct Engine, the cast tasks and what is in flight stay  *)
(* within their types, for any receivers, files and bounds.                *)
THEOREM TypeCorrect == Spec => []TypeOK
<1>1. SessionInv => TypeOK
  BY DEF SessionInv
<1>2. QED
  BY <1>1, SessionInvariant, PTL

(* begin_cast, send_media and cast_finished together: a cast task that has *)
(* not been accounted for is the one session, whatever was commanded,      *)
(* discovered, stopped or reloaded in between.                             *)
THEOREM CastTaskHoldsSession == Spec => []TaskHoldsSession
<1>1. SessionInv => TaskHoldsSession
  BY DEF SessionInv
<1>2. QED
  BY <1>1, SessionInvariant, PTL

(* No client is ever left looking at a session nobody will clear: behind   *)
(* an active cast there is a task that has still to report, or a file      *)
(* session the tick reaps.                                                 *)
THEOREM ActiveSessionHasOwner == Spec => []SessionHasOwner
<1>1. SessionInv => SessionHasOwner
  BY DEF SessionInv
<1>2. QED
  BY <1>1, SessionInvariant, PTL

(* finish_shutdown returned with nothing running: strengthens SessionInv    *)
(* for CardStaysGone.                                                      *)
ClosedIsQuiet == phase = "closed" => ~Running(e)

(* Once closed no command, event or tick is handled.  A cast task would    *)
(* hold a session, and so would a file session that returned.              *)
LEMMA ClosedStep ==
    ASSUME SessionInv, ClosedIsQuiet, [Next]_vars, phase = "closed"
    PROVE  UNCHANGED <<e, phase, card>>
<1>1. ~Running(e)
  BY DEF ClosedIsQuiet
<1>2. \A s \in Sessions : ~Alive(s)
  BY <1>1, NoneAlive DEF Running
<1>3. ASSUME NEW x PROVE ~Settle(x)
  BY DEF Settle, Loop
<1>4. CASE Command
  BY <1>4 DEF Command, CastRefused, Cast, Stop, Rescan, SetAutoDiscovery,
              ApplySettings, SendMedia, SendMediaRefused, ControlMediaFails,
              StopPlayer, PlayerGone, Shutdown, Loop
<1>5. CASE Event
  BY <1>3, <1>5 DEF Event, Added, Removed, Discovered, SearchTimedOut,
                    LinkMeasured, CastFinished
<1>6. ASSUME NEW linked \in BOOLEAN, Tick(linked) PROVE FALSE
  BY <1>6 DEF Tick, Loop
<1>7. CASE ClosingTick \/ Close \/ Abandon
  BY <1>7 DEF ClosingTick, Close, Abandon
<1>8. ASSUME NEW s \in Sessions, TaskStep(s) PROVE FALSE
  <2>1. tasks[s].phase \in {"none", "gone"}
    BY <1>2 DEF Alive
  <2>2. QED
    BY <1>8, <2>1
       DEF TaskStep, TaskStarts, NdiChecked, CardEnsured, BackendSelected,
           SelectionCancelled, CaptureStarted, StreamReturned,
           StreamCancelled, StopStreamReturned, BackendStopped, Reports,
           Goes, Ends
<1>9. CASE MediaReturns
  BY <1>1, <1>9 DEF MediaReturns, Running
<1>10. CASE SinkStateChanges
  BY <1>10 DEF SinkStateChanges
<1>11. CASE UNCHANGED vars
  BY <1>11 DEF vars
<1>12. QED
  BY <1>4, <1>5, <1>6, <1>7, <1>8, <1>9, <1>10, <1>11 DEF Next

LEMMA ClosedIsQuietStep ==
    ASSUME SessionInv, ClosedIsQuiet, [Next]_vars
    PROVE  ClosedIsQuiet'
<1> SUFFICES ASSUME phase' = "closed" PROVE ~Running(e)'
  BY DEF ClosedIsQuiet
<1>1. CASE phase = "closed"
  BY <1>1, ClosedStep DEF ClosedIsQuiet, Running
<1>2. CASE phase # "closed"
  <2>1. Close
    <3>1. phase' # phase
      BY <1>2
    <3>2. QED
      BY <3>1
         DEF Next, vars, Command, CastRefused, Cast, Stop, Rescan,
             SetAutoDiscovery, ApplySettings, SendMedia, SendMediaRefused,
             ControlMediaFails, StopPlayer, PlayerGone, Shutdown, Event,
             Added, Removed, Discovered, SearchTimedOut, LinkMeasured,
             CastFinished, Tick, ClosingTick, Abandon, TaskStep, TaskStarts,
             NdiChecked, CardEnsured, BackendSelected, SelectionCancelled,
             CaptureStarted, StreamReturned, StreamCancelled,
             StopStreamReturned, BackendStopped, Reports, Goes, Ends,
             MediaReturns, SinkStateChanges
  <2>2. QED
    BY <2>1 DEF Close, Running
<1>3. QED
  BY <1>1, <1>2

(* Nothing brings back the sound card an orderly shutdown removed: a cast  *)
(* task's ensure would need a session, and finish_shutdown returned        *)
(* because there was none.                                                 *)
THEOREM CardGoneAfterShutdown == Spec => CardStaysGone
<1>1. Init => ClosedIsQuiet
  BY DEF Init, ClosedIsQuiet
<1>2. SessionInv /\ ClosedIsQuiet /\ [Next]_vars => ClosedIsQuiet'
  BY ClosedIsQuietStep
<1>3. SessionInv /\ ClosedIsQuiet /\ [Next]_vars
        => [phase = "closed" => (card' => card)]_vars
  BY ClosedStep
<1>4. QED
  BY <1>1, <1>2, <1>3, SessionInvariant, PTL DEF Spec, CardStaysGone

-----------------------------------------------------------------------------
(***************************************************************************)
(* What is published about the session.  Most handlers leave it alone:     *)
(* Keeps says how, record to record, and composes.  Rows says that a       *)
(* handler lists no new receiver.                                          *)
(***************************************************************************)
Listed(x) == DOMAIN x.registry \subseteq x.order

RowStays(x, y) ==
    /\ x.active_cast \in x.order /\ x.active_cast \in DOMAIN x.registry =>
          /\ x.active_cast \in y.order
          /\ x.active_cast \in DOMAIN y.registry
          /\ y.registry[x.active_cast] = x.registry[x.active_cast]
    /\ Listed(x) => Listed(y)

Holds(x, y) ==
    /\ y.active_cast = x.active_cast
    /\ y.active_sink = x.active_sink
    /\ y.media_session = x.media_session
    /\ y.serial = x.serial
    /\ y.media_owner \in {x.media_owner, None}
    /\ y.measured \in {x.measured, None}
    /\ y.operation_generation >= x.operation_generation
    /\ y.status = "stopping" => x.status = "stopping"
    /\ RowStays(x, y)

Keeps(x, y) == Holds(x, y) /\ (x.status = "stopping" => y.status = "stopping")

(* The same, but for an error that is published instead. *)
Told(x, y) ==
    /\ Holds(x, y)
    /\ x.status = "stopping" => y.status \in ErrorStatuses \cup {"stopping"}

Rows(x, y) == DOMAIN y.registry \subseteq DOMAIN x.registry

(* The fields Keeps and Rows look at are the same. *)
Agrees(x, y) ==
    /\ y.active_cast = x.active_cast
    /\ y.active_sink = x.active_sink
    /\ y.media_session = x.media_session
    /\ y.serial = x.serial
    /\ y.media_owner = x.media_owner
    /\ y.measured = x.measured
    /\ y.operation_generation = x.operation_generation
    /\ y.status = x.status
    /\ y.registry = x.registry
    /\ y.order = x.order

LEMMA AgreesKeeps ==
    ASSUME NEW x \in Engines, NEW y, Agrees(x, y)
    PROVE  Keeps(x, y) /\ Rows(x, y)
<1>1. x.operation_generation \in Nat
  BY DEF Engines
<1>2. QED
  BY <1>1 DEF Agrees, Keeps, Holds, Rows, RowStays, Listed

LEMMA KeepsSame ==
    ASSUME NEW x \in Engines PROVE Keeps(x, x) /\ Rows(x, x)
BY AgreesKeeps DEF Agrees

LEMMA HoldsTrans ==
    ASSUME NEW x \in Engines, NEW y \in Engines, NEW z \in Engines,
           Holds(x, y), Holds(y, z)
    PROVE  Holds(x, z)
<1>1. /\ x.operation_generation \in Nat
      /\ y.operation_generation \in Nat
      /\ z.operation_generation \in Nat
  BY DEF Engines
<1>2. z.operation_generation >= x.operation_generation
  BY <1>1 DEF Holds
<1>3. RowStays(x, z)
  BY DEF Holds, RowStays
<1>4. QED
  BY <1>2, <1>3 DEF Holds

LEMMA KeepsTrans ==
    ASSUME NEW x \in Engines, NEW y \in Engines, NEW z \in Engines,
           Keeps(x, y)
    PROVE  /\ Keeps(y, z) => Keeps(x, z)
           /\ Told(y, z) => Told(x, z)
BY HoldsTrans DEF Keeps, Told

LEMMA RowsTrans ==
    ASSUME NEW x, NEW y, NEW z, Rows(x, y), Rows(y, z) PROVE Rows(x, z)
BY DEF Rows

LEMMA StatusKeeps ==
    ASSUME NEW x \in Engines, NEW v,
           v = "stopping" => x.status = "stopping"
    PROVE  LET y == [x EXCEPT !.status = v]
           IN  /\ Rows(x, y)
               /\ (x.status = "stopping" => v = "stopping") => Keeps(x, y)
               /\ v \in ErrorStatuses => Told(x, y)
<1>1. x.operation_generation \in Nat
  BY DEF Engines
<1>2. QED
  BY <1>1 DEF Engines, Keeps, Told, Holds, Rows, RowStays, Listed

LEMMA ShownIsLive ==
    ASSUME NEW x
    PROVE  Shown(x) \notin ErrorStatuses \cup {"stopping"}
BY DEF Shown, Listing, ErrorStatuses

LEMMA RefreshKeeps ==
    ASSUME NEW x \in Engines
    PROVE  Keeps(x, Refresh(x)) /\ Rows(x, Refresh(x))
<1> DEFINE v == Shown(x)
<1>1. v # "stopping"
  BY ShownIsLive
<1>2. CASE x.status \in ErrorStatuses \cup {"stopping"}
  BY <1>2, KeepsSame DEF Refresh
<1>3. CASE x.status \notin ErrorStatuses \cup {"stopping"}
  <2> HIDE DEF v
  <2>1. Keeps(x, [x EXCEPT !.status = v]) /\ Rows(x, [x EXCEPT !.status = v])
    BY <1>1, <1>3, StatusKeeps
  <2>2. QED
    BY <1>3, <2>1 DEF Refresh, v
<1>4. QED
  BY <1>2, <1>3

LEMMA ToIdleKeeps ==
    ASSUME NEW x \in Engines
    PROVE  /\ ToIdle(x).status # "stopping"
           /\ Holds(x, ToIdle(x))
           /\ Rows(x, ToIdle(x))
<1> DEFINE y == [x EXCEPT !.status = "idle"]
<1>1. y \in Engines /\ y.status = "idle" /\ Rows(x, y)
  BY StatusType, StatusKeeps DEF Statuses, Engines
<1>2. Holds(x, y)
  <2>1. x.operation_generation \in Nat
    BY DEF Engines
  <2>2. QED
    BY <2>1 DEF Engines, Holds, RowStays, Listed
<1>3. Refresh(y) \in Engines /\ Keeps(y, Refresh(y)) /\ Rows(y, Refresh(y))
  <2> HIDE DEF y
  <2> QED BY <1>1, RefreshType, RefreshKeeps
<1>4. QED
  <2> HIDE DEF y
  <2>1. Holds(x, Refresh(y)) /\ Rows(x, Refresh(y))
    BY <1>1, <1>2, <1>3, HoldsTrans, RowsTrans DEF Keeps
  <2>2. Refresh(y).status # "stopping"
    BY <1>1, <1>3 DEF Keeps, Holds
  <2>3. QED
    BY <2>1, <2>2 DEF ToIdle, y

(* reconcile_audio touches no session; the card it may change is nobody's. *)
LEMMA TurnKeeps ==
    ASSUME NEW x \in Engines, card \in BOOLEAN, Turn(x)
    PROVE  /\ e' \in Engines
           /\ Told(x, e') /\ Rows(x, e')
           /\ e'.status \in {x.status, "card_failed"}
           /\ Running(e') => card' = card
<1>1. PICK ok \in BOOLEAN : e' = Reconciled(x, ok) /\ card' = CardAfter(x, ok)
  BY DEF Turn
<1> DEFINE v == IF ok THEN x.status ELSE "card_failed"
           y == [x EXCEPT !.audio_pending = FALSE, !.status = v]
<1>2. e' \in Engines
  BY TurnType
<1>3. Told(x, x) /\ Rows(x, x)
  BY KeepsSame DEF Keeps, Told
<1>4. Told(x, y) /\ Rows(x, y)
  <2>1. x.operation_generation \in Nat
    BY DEF Engines
  <2>2. v \in {x.status, "card_failed"}
    OBVIOUS
  <2> HIDE DEF v
  <2>3. QED
    BY <2>1, <2>2
       DEF Engines, Told, Holds, Rows, RowStays, Listed, ErrorStatuses
<1>5. e' = x \/ e' = y
  BY <1>1 DEF Reconciled
<1>6. Running(e') => card' = card
  <2>1. Running(e') = Running(x)
    BY <1>3, <1>4, <1>5 DEF Told, Holds, Running
  <2>2. QED
    BY <1>1, <2>1 DEF CardAfter, Deferred
<1>7. y.status \in {x.status, "card_failed"}
  BY DEF Engines
<1>8. QED
  <2> HIDE DEF y
  <2> QED BY <1>2, <1>3, <1>4, <1>5, <1>6, <1>7

LEMMA SettleKeeps ==
    ASSUME NEW x \in Engines, card \in BOOLEAN, Settle(x)
    PROVE  /\ e' \in Engines
           /\ Told(x, e') /\ Rows(x, e')
           /\ Running(e') => card' = card
<1>1. CASE Turn(x)
  BY <1>1, TurnKeeps
<1>2. CASE e' = x /\ UNCHANGED card
  BY <1>2, KeepsSame DEF Keeps, Told
<1>3. QED
  BY <1>1, <1>2 DEF Settle

(* The handlers of discovery, one by one. *)

LEMMA ScanKeeps ==
    ASSUME NEW x \in Engines, NEW b
    PROVE  /\ Keeps(x, [x EXCEPT !.discovering = b])
           /\ Rows(x, [x EXCEPT !.discovering = b])
           /\ Keeps(x, [x EXCEPT !.searching = b])
           /\ Rows(x, [x EXCEPT !.searching = b])
<1>1. /\ Agrees(x, [x EXCEPT !.discovering = b])
      /\ Agrees(x, [x EXCEPT !.searching = b])
  BY DEF Engines, Agrees
<1>2. QED
  BY <1>1, AgreesKeeps

LEMMA AbortKeeps ==
    ASSUME NEW x \in Engines
    PROVE  Keeps(x, AbortDiscovery(x)) /\ Rows(x, AbortDiscovery(x))
<1>1. Agrees(x, AbortDiscovery(x))
  BY DEF AbortDiscovery, Engines, Agrees
<1>2. QED
  BY <1>1, AgreesKeeps

LEMMA ListKeeps ==
    ASSUME NEW x \in Engines, NEW R, NEW O, NEW b,
           x.active_cast \in x.order => x.active_cast \in O,
           x.active_cast \in DOMAIN x.registry =>
               x.active_cast \in DOMAIN R
               /\ R[x.active_cast] = x.registry[x.active_cast],
           Listed(x) => DOMAIN R \subseteq O
    PROVE  LET y == [x EXCEPT !.registry = R, !.order = O, !.searching = b]
           IN  Keeps(x, y) /\ (DOMAIN R \subseteq DOMAIN x.registry => Rows(x, y))
<1>1. x.operation_generation \in Nat
  BY DEF Engines
<1>2. QED
  BY <1>1 DEF Engines, Keeps, Holds, Rows, RowStays, Listed

(* A rescan keeps the row of the receiver on the air, and no other. *)
LEMMA RescannedKeeps ==
    ASSUME NEW x \in Engines
    PROVE  Keeps(x, Rescanned(x)) /\ Rows(x, Rescanned(x))
<1> DEFINE c == IF x.status \in ErrorStatuses
                THEN [x EXCEPT !.status = "idle"] ELSE x
           a == AbortDiscovery(c)
           K == DOMAIN x.registry \cap {x.active_cast}
           R == [r \in K |-> x.registry[r]]
           O == a.order \cap {x.active_cast}
           y == [a EXCEPT !.registry = R, !.order = O, !.searching = TRUE]
           z == [Refresh(y) EXCEPT !.discovering = TRUE]
           Good(w) == w \in Engines /\ Keeps(x, w) /\ Rows(x, w)
<1>1. Good(c) /\ c.registry = x.registry
  <2>1. CASE x.status \in ErrorStatuses
    <3>1. [x EXCEPT !.status = "idle"] \in Engines
      BY StatusType DEF Statuses
    <3>2. x.status # "stopping"
      BY <2>1 DEF ErrorStatuses
    <3>3. Keeps(x, [x EXCEPT !.status = "idle"])
          /\ Rows(x, [x EXCEPT !.status = "idle"])
      BY <3>2, StatusKeeps
    <3>4. QED
      BY <2>1, <3>1, <3>3 DEF Engines
  <2>2. CASE x.status \notin ErrorStatuses
    BY <2>2, KeepsSame
  <2>3. QED
    BY <2>1, <2>2
<1>2. Good(a) /\ a.registry = x.registry
  <2> HIDE DEF c
  <2>1. a \in Engines /\ Keeps(c, a) /\ Rows(c, a)
    BY <1>1, AbortType, AbortKeeps
  <2>2. a.registry = c.registry
    BY <1>1 DEF AbortDiscovery, Engines
  <2>3. QED
    BY <1>1, <2>1, <2>2, KeepsTrans, RowsTrans
<1>3. R \in Registries
  BY RegistryOf, RegistryRestrict
<1>4. O \in SUBSET Receivers
  <2> HIDE DEF a
  <2> QED BY <1>2 DEF Engines
<1>5. Good(y)
  <2>1. a.active_cast = x.active_cast
    <3> HIDE DEF a
    <3> QED BY <1>2 DEF Keeps, Holds
  <2>2. /\ a.active_cast \in a.order => a.active_cast \in O
        /\ a.active_cast \in DOMAIN a.registry =>
               a.active_cast \in DOMAIN R
               /\ R[a.active_cast] = a.registry[a.active_cast]
        /\ Listed(a) => DOMAIN R \subseteq O
        /\ DOMAIN R \subseteq DOMAIN a.registry
    <3> HIDE DEF a
    <3> QED BY <1>2, <2>1 DEF Listed
  <2> HIDE DEF a, R, O
  <2>3. y \in Engines
    BY <1>2, <1>3, <1>4, ListType
  <2>4. Keeps(a, y) /\ Rows(a, y)
    BY <1>2, <2>2, ListKeeps
  <2>5. QED
    BY <1>2, <2>3, <2>4, KeepsTrans, RowsTrans
<1>6. Good(Refresh(y))
  <2> HIDE DEF y
  <2> QED BY <1>5, RefreshType, RefreshKeeps, KeepsTrans, RowsTrans
<1>7. Good(z)
  <2> DEFINE w == Refresh(y)
  <2>1. Good(w)
    BY <1>6
  <2> HIDE DEF w
  <2>2. [w EXCEPT !.discovering = TRUE] \in Engines
        /\ Keeps(w, [w EXCEPT !.discovering = TRUE])
        /\ Rows(w, [w EXCEPT !.discovering = TRUE])
    BY <2>1, ScanType, ScanKeeps
  <2>3. Good([w EXCEPT !.discovering = TRUE])
    BY <2>1, <2>2, KeepsTrans, RowsTrans
  <2>4. QED
    BY <2>3 DEF w
<1>8. QED
  BY <1>7 DEF Rescanned

LEMMA PreferredKeeps ==
    ASSUME NEW x \in Engines
    PROVE  Keeps(x, Preferred(x)) /\ Rows(x, Preferred(x))
<1> DEFINE a == AbortDiscovery(x)
           y == [a EXCEPT !.searching = FALSE]
<1>1. a \in Engines /\ Keeps(x, a) /\ Rows(x, a)
  BY AbortType, AbortKeeps
<1>2. y \in Engines /\ Keeps(x, y) /\ Rows(x, y)
  <2> HIDE DEF a
  <2> QED BY <1>1, ScanType, ScanKeeps, KeepsTrans, RowsTrans
<1>3. Keeps(x, Refresh(y)) /\ Rows(x, Refresh(y))
  <2> HIDE DEF y
  <2> QED BY <1>2, RefreshType, RefreshKeeps, KeepsTrans, RowsTrans
<1>4. QED
  BY <1>3, RescannedKeeps DEF Preferred

LEMMA RediscoveredKeeps ==
    ASSUME NEW x \in Engines, NEW protocol \in BOOLEAN
    PROVE  /\ Keeps(x, Rediscovered(x, protocol))
           /\ Rows(x, Rediscovered(x, protocol))
BY KeepsSame, PreferredKeeps, RescannedKeeps, AbortKeeps DEF Rediscovered

LEMMA AnnouncedKeeps ==
    ASSUME NEW x \in Engines, NEW r \in Receivers, NEW arc \in Arcs
    PROVE  Keeps(x, Announced(x, r, arc))
<1> DEFINE U == [q \in DOMAIN x.registry \cup {r} |->
                    IF q = r THEN arc ELSE x.registry[q]]
           R == IF x.active_cast = r THEN x.registry ELSE U
           O == x.order \cup {r}
           y == [x EXCEPT !.registry = R, !.order = O, !.searching = FALSE]
<1>1. R \in Registries /\ O \in SUBSET Receivers
  <2>1. R \in Registries
    BY RegistryOf, RegistryUpdate
  <2>2. O \in SUBSET Receivers
    BY DEF Engines
  <2>3. QED
    BY <2>1, <2>2
<1>2. y \in Engines /\ Keeps(x, y)
  <2>1. /\ x.active_cast \in x.order => x.active_cast \in O
        /\ x.active_cast \in DOMAIN x.registry =>
               x.active_cast \in DOMAIN R
               /\ R[x.active_cast] = x.registry[x.active_cast]
        /\ Listed(x) => DOMAIN R \subseteq O
    BY DEF Listed
  <2> HIDE DEF R, O
  <2>2. QED
    BY <1>1, <2>1, ListType, ListKeeps
<1>3. Keeps(x, Refresh(y))
  <2> HIDE DEF y
  <2> QED BY <1>2, RefreshType, RefreshKeeps, KeepsTrans
<1>4. QED
  BY <1>3, KeepsSame DEF Announced

LEMMA WithdrawnKeeps ==
    ASSUME NEW x \in Engines, NEW r \in Receivers
    PROVE  Keeps(x, Withdrawn(x, r)) /\ Rows(x, Withdrawn(x, r))
<1> DEFINE R == [q \in DOMAIN x.registry \ {r} |-> x.registry[q]]
           O == x.order \ {r}
           y == [x EXCEPT !.registry = R, !.order = O]
<1>1. CASE x.active_cast = r
  BY <1>1, KeepsSame DEF Withdrawn
<1>2. CASE x.active_cast # r
  <2>1. R \in Registries /\ O \in SUBSET Receivers
    <3>1. R \in Registries
      BY RegistryOf, RegistryRestrict
    <3>2. O \in SUBSET Receivers
      BY DEF Engines
    <3>3. QED
      BY <3>1, <3>2
  <2>2. /\ x.active_cast \in x.order => x.active_cast \in O
        /\ x.active_cast \in DOMAIN x.registry =>
               x.active_cast \in DOMAIN R
               /\ R[x.active_cast] = x.registry[x.active_cast]
        /\ Listed(x) => DOMAIN R \subseteq O
        /\ DOMAIN R \subseteq DOMAIN x.registry
    BY <1>2 DEF Listed
  <2>3. y \in Engines /\ Keeps(x, y) /\ Rows(x, y)
    <3> HIDE DEF R, O
    <3>1. y \in Engines
      BY <2>1 DEF Engines, Registries
    <3>2. x.operation_generation \in Nat
      BY DEF Engines
    <3>3. Keeps(x, y) /\ Rows(x, y)
      BY <2>2, <3>2 DEF Engines, Keeps, Holds, Rows, RowStays, Listed
    <3>4. QED
      BY <3>1, <3>3
  <2>4. Keeps(x, Refresh(y)) /\ Rows(x, Refresh(y))
    <3> HIDE DEF y
    <3> QED BY <2>3, RefreshType, RefreshKeeps, KeepsTrans, RowsTrans
  <2>5. QED
    BY <1>2, <2>4 DEF Withdrawn
<1>3. QED
  BY <1>1, <1>2

-----------------------------------------------------------------------------
(***************************************************************************)
(* The inductive invariant beside SessionInv.  A sink is held exactly      *)
(* while a receiver is; a published stop has reached every cast task that  *)
(* is left; and a probe that would still be heeded, because its operation  *)
(* is the current one, was started for the session that runs now.          *)
(***************************************************************************)
SinkWithCast == (e.active_sink = None) = (e.active_cast = None)

StopReached ==
    e.status = "stopping" =>
        \/ e.media_session \in MediaEnds \cup {"stopping"}
        \/ /\ e.active_cast # None /\ e.media_session = "none"
           /\ \A s \in Sessions : Alive(s) => Cancelled(s)

ProbesCurrent ==
    \A p \in probes :
        /\ p.generation <= e.operation_generation
        /\ p.generation = e.operation_generation /\ e.active_sink # None
             => p.session = e.serial

ShownInv ==
    /\ Listed(e) /\ SinkWithCast /\ StopReached /\ ProbesCurrent
    /\ MeasurementIsCurrent /\ OwnerHasSession /\ ActiveRowKept

(* What the step itself owes, beside the invariant. *)
StopKept ==
    e.status = "stopping" /\ e'.status # "stopping" =>
        (e'.active_cast = None /\ e'.media_session = "none")
        \/ e'.status \in ErrorStatuses

ScanSilent ==
    ~e.discovering => DOMAIN e'.registry \subseteq DOMAIN e.registry

CardKept ==
    Loop /\ Running(e') /\ card' # card =>
        card' /\ \E s \in Sessions : tasks[s].phase = "ensuring"

Owed == ShownInv' /\ StopKept /\ ScanSilent /\ CardKept

(* Tasks that were cancelled stay so, and none comes to life. *)
CancelsKept ==
    \A s \in Sessions : Alive(s)' => Alive(s) /\ (Cancelled(s) => Cancelled(s)')

Probe == [generation |-> e.operation_generation, session |-> e.serial]

(* The engine still serves the session it served; a round trip that was    *)
(* published meanwhile is this session's.                                  *)
Lasts ==
    /\ e'.active_cast = e.active_cast
    /\ e'.active_sink = e.active_sink
    /\ e'.media_session = e.media_session
    /\ e'.serial = e.serial
    /\ e'.media_owner \in {e.media_owner, None}
    /\ \/ e'.measured \in {e.measured, None}
       \/ e'.measured = e.serial /\ e.active_sink # None
    /\ e'.operation_generation >= e.operation_generation
    /\ e'.status = "stopping" => e.status = "stopping"
    /\ e.status = "stopping" => e'.status \in ErrorStatuses \cup {"stopping"}
    /\ RowStays(e, e')

(* A step that keeps the session and does no more than ask for a probe. *)
LEMMA LastingStep ==
    ASSUME SessionInv, ShownInv, e' \in Engines, Lasts, CancelsKept,
           probes' \subseteq probes \cup {Probe}
    PROVE  ShownInv' /\ StopKept
<1>0. e \in Engines
  BY DEF SessionInv, TypeOK
<1>2. SinkWithCast' /\ MeasurementIsCurrent' /\ OwnerHasSession'
  BY DEF Lasts, ShownInv, SinkWithCast, MeasurementIsCurrent, OwnerHasSession
<1>3. ActiveRowKept' /\ Listed(e)'
  BY DEF Lasts, ShownInv, ActiveRowKept, RowStays, Listed
<1>4. StopReached'
  BY DEF Lasts, ShownInv, StopReached, CancelsKept, Cancelled, ErrorStatuses
<1>5. ProbesCurrent'
  <2> SUFFICES ASSUME NEW p \in probes'
               PROVE  /\ p.generation <= e'.operation_generation
                      /\ p.generation = e'.operation_generation
                         /\ e'.active_sink # None => p.session = e'.serial
    BY DEF ProbesCurrent
  <2>1. e.operation_generation \in Nat /\ e'.operation_generation \in Nat
    BY <1>0 DEF Engines
  <2>2. CASE p \in probes
    <3>1. /\ p.generation \in Nat
          /\ p.generation <= e.operation_generation
          /\ p.generation = e.operation_generation /\ e.active_sink # None
               => p.session = e.serial
      BY <2>2 DEF ShownInv, ProbesCurrent, SessionInv, TypeOK
    <3>2. QED
      BY <2>1, <3>1 DEF Lasts
  <2>3. CASE p = Probe
    BY <2>1, <2>3 DEF Probe, Lasts
  <2>4. QED
    BY <2>2, <2>3
<1>6. StopKept
  BY DEF StopKept, Lasts
<1>7. QED
  BY <1>2, <1>3, <1>4, <1>5, <1>6 DEF ShownInv

LEMMA CalmStep ==
    ASSUME SessionInv, ShownInv, e' \in Engines, Told(e, e'), CancelsKept,
           probes' \subseteq probes \cup {Probe}
    PROVE  ShownInv' /\ StopKept
<1>1. Lasts
  BY DEF Told, Holds, Lasts
<1>2. QED
  BY <1>1, LastingStep

(* A handler that clears the session. *)
Vacated(x, y) ==
    /\ y.active_cast = None /\ y.active_sink = None
    /\ y.media_session = "none"
    /\ y.measured = None /\ y.media_owner = None
    /\ y.operation_generation >= x.operation_generation
    /\ y.status # "stopping"
    /\ Listed(x) => Listed(y)

LEMMA VacatedHolds ==
    ASSUME NEW x \in Engines, NEW y \in Engines, NEW z \in Engines,
           Vacated(x, y), Holds(y, z)
    PROVE  Vacated(x, z)
<1>1. /\ x.operation_generation \in Nat
      /\ y.operation_generation \in Nat
      /\ z.operation_generation \in Nat
  BY DEF Engines
<1>2. QED
  BY <1>1 DEF Vacated, Holds, RowStays

LEMMA VacatedStep ==
    ASSUME SessionInv, ShownInv, e' \in Engines, Vacated(e, e'),
           probes' \subseteq probes
    PROVE  ShownInv' /\ StopKept
<1>1. e \in Engines /\ e.operation_generation \in Nat
      /\ e'.operation_generation \in Nat
  BY DEF SessionInv, TypeOK, Engines
<1>2. SinkWithCast' /\ StopReached' /\ MeasurementIsCurrent'
      /\ OwnerHasSession'
  BY DEF Vacated, SinkWithCast, StopReached, MeasurementIsCurrent,
         OwnerHasSession
<1>3. ActiveRowKept' /\ Listed(e)'
  BY NoneAssumption DEF Vacated, ActiveRowKept, ShownInv, Listed
<1>4. ProbesCurrent'
  <2> SUFFICES ASSUME NEW p \in probes'
               PROVE  p.generation <= e'.operation_generation
    BY DEF ProbesCurrent, Vacated
  <2>1. p.generation \in Nat /\ p.generation <= e.operation_generation
    BY DEF ShownInv, ProbesCurrent, SessionInv, TypeOK
  <2>2. QED
    BY <1>1, <2>1 DEF Vacated
<1>5. StopKept
  BY DEF StopKept, Vacated
<1>6. QED
  BY <1>2, <1>3, <1>4, <1>5 DEF ShownInv

(* The handlers that keep the session, by the record they hand to the turn. *)
LEMMA CalmTurn ==
    ASSUME SessionInv, ShownInv, NEW x \in Engines, Keeps(e, x), Rows(e, x),
           Turn(x) \/ Settle(x), UNCHANGED tasks, probes' \subseteq probes
    PROVE  Owed
<1>1. /\ e' \in Engines /\ Told(x, e') /\ Rows(x, e')
      /\ Running(e') => card' = card
  BY TurnKeeps, SettleKeeps DEF SessionInv, TypeOK
<1>2. Told(e, e') /\ Rows(e, e')
  BY <1>1, KeepsTrans, RowsTrans DEF SessionInv, TypeOK
<1>3. CancelsKept
  BY DEF CancelsKept, Alive, Cancelled
<1>4. ShownInv' /\ StopKept
  BY <1>1, <1>2, <1>3, CalmStep
<1>5. ScanSilent /\ CardKept
  BY <1>1, <1>2 DEF ScanSilent, CardKept, Rows
<1>6. QED
  BY <1>4, <1>5 DEF Owed

(* A handler that begins a session where nothing ran. *)
Begun(y) ==
    /\ (y.active_sink = None) = (y.active_cast = None)
    /\ y.status # "stopping"
    /\ y.measured = None
    /\ y.media_owner # None =>
          y.media_session # "none" /\ y.media_owner.id = y.serial
    /\ y.active_cast \in Receivers =>
          /\ y.active_cast \in y.order
          /\ y.active_cast \in DOMAIN y.registry
          /\ y.registry[y.active_cast] = y.active_sink
    /\ Listed(y)
    /\ y.operation_generation >= e.operation_generation
    /\ y.active_sink # None => y.operation_generation > e.operation_generation
    /\ Rows(e, y)

LEMMA IdleFacts ==
    ASSUME SessionInv, ShownInv, ~Running(e)
    PROVE  /\ e.active_cast = None /\ e.active_sink = None
           /\ e.media_session = "none" /\ e.media_owner = None
           /\ e.measured = None /\ e.status # "stopping"
<1>1. e.active_cast = None /\ e.media_session = "none"
  BY DEF Running
<1>2. e.active_sink = None
  BY <1>1 DEF ShownInv, SinkWithCast
<1>3. e.status # "stopping"
  BY <1>1 DEF ShownInv, StopReached, MediaEnds
<1>4. QED
  BY <1>1, <1>2, <1>3 DEF ShownInv, MeasurementIsCurrent, OwnerHasSession

LEMMA BegunStep ==
    ASSUME SessionInv, ShownInv, ~Running(e), NEW y \in Engines, Begun(y),
           Turn(y), probes' = probes
    PROVE  Owed
<1>1. /\ e' \in Engines /\ Told(y, e') /\ Rows(y, e')
      /\ Running(e') => card' = card
  BY TurnKeeps DEF SessionInv, TypeOK
<1>2. /\ e'.active_cast = y.active_cast
      /\ e'.active_sink = y.active_sink
      /\ e'.media_session = y.media_session
      /\ e'.serial = y.serial
      /\ e'.media_owner \in {y.media_owner, None}
      /\ e'.measured = None
      /\ e'.operation_generation >= y.operation_generation
      /\ e'.status # "stopping"
      /\ RowStays(y, e')
  BY <1>1 DEF Told, Holds, Begun
<1>3. SinkWithCast' /\ StopReached' /\ MeasurementIsCurrent'
      /\ OwnerHasSession'
  BY <1>2 DEF Begun, SinkWithCast, StopReached, MeasurementIsCurrent,
              OwnerHasSession
<1>4. ActiveRowKept' /\ Listed(e)'
  BY <1>2 DEF Begun, ActiveRowKept, RowStays, Listed
<1>5. ProbesCurrent'
  <2> SUFFICES ASSUME NEW p \in probes
               PROVE  /\ p.generation <= e'.operation_generation
                      /\ e'.active_sink # None =>
                           p.generation # e'.operation_generation
    BY DEF ProbesCurrent
  <2>1. /\ e.operation_generation \in Nat /\ y.operation_generation \in Nat
        /\ e'.operation_generation \in Nat
    BY <1>1 DEF SessionInv, TypeOK, Engines
  <2>2. p.generation \in Nat /\ p.generation <= e.operation_generation
    BY DEF ShownInv, ProbesCurrent, SessionInv, TypeOK
  <2>3. QED
    BY <1>2, <2>1, <2>2 DEF Begun
<1>6. StopKept
  BY IdleFacts DEF StopKept
<1>7. ScanSilent /\ CardKept
  BY <1>1 DEF ScanSilent, CardKept, Rows, Begun
<1>8. QED
  BY <1>3, <1>4, <1>5, <1>6, <1>7 DEF Owed, ShownInv

(* What the handlers do to the engine before they begin or refuse. *)

LEMMA SettingsKeeps ==
    ASSUME NEW x \in Engines, NEW s, NEW r
    PROVE  /\ Agrees(x, [x EXCEPT !.settings = s])
           /\ Agrees(x, Unrefused(x, r))
BY DEF Engines, Agrees, Unrefused

LEMMA DisownedKeeps ==
    ASSUME NEW x \in Engines, NEW s
    PROVE  LET y == [x EXCEPT !.media_owner = None]
               z == [x EXCEPT !.media_owner = None, !.settings = s]
           IN  /\ Keeps(x, y) /\ y.media_owner = None
               /\ y.registry = x.registry /\ y.order = x.order
               /\ Keeps(x, z) /\ z.media_owner = None
               /\ z.registry = x.registry /\ z.order = x.order
<1>1. x.operation_generation \in Nat
  BY DEF Engines
<1>2. QED
  BY <1>1 DEF Engines, Keeps, Holds, RowStays, Listed

LEMMA LinkResetKeeps ==
    ASSUME NEW x \in Engines
    PROVE  LET y == LinkReset(x)
           IN  /\ Keeps(x, y) /\ y.measured = None
               /\ y.registry = x.registry /\ y.order = x.order
               /\ y.operation_generation = x.operation_generation + 1
<1>1. x.operation_generation \in Nat
  BY DEF Engines
<1>2. QED
  BY <1>1 DEF LinkReset, Engines, Keeps, Holds, RowStays, Listed

LEMMA AskedKeeps ==
    ASSUME e \in Engines, NEW id, NEW s \in Files
    PROVE  LET x == Asked(id, s)
           IN  /\ Keeps(e, x) /\ x.media_owner = None
               /\ x.registry = e.registry /\ x.order = e.order
<1> DEFINE u == Unrefused(e, id)
<1>1. u \in Engines /\ Keeps(e, u) /\ u.registry = e.registry
      /\ u.order = e.order
  BY UnrefusedType, SettingsKeeps, AgreesKeeps DEF Agrees
<1>2. LET z == [u EXCEPT !.media_owner = None, !.settings = s]
      IN  /\ z \in Engines /\ Keeps(u, z) /\ z.media_owner = None
          /\ z.registry = u.registry /\ z.order = u.order
  <2> HIDE DEF u
  <2> QED BY <1>1, DisownedKeeps, AskedType, FilesAssumption
<1>3. QED
  <2> DEFINE z == [u EXCEPT !.media_owner = None, !.settings = s]
  <2>1. z = Asked(id, s)
    BY DEF Asked
  <2> HIDE DEF u, z
  <2>2. QED
    BY ZenonT(60), <1>1, <1>2, <2>1, KeepsTrans DEF z

LEMMA SendableKeeps ==
    ASSUME e \in Engines, NEW r, NEW s \in Files
    PROVE  LET x == [e EXCEPT !.settings = s]
               y == Unrefused(x, r)
               z == Sendable(r, s)
           IN  /\ Keeps(e, x) /\ Rows(e, x)
               /\ Keeps(e, y) /\ Rows(e, y)
               /\ Keeps(e, z) /\ z.media_owner = None
               /\ z.registry = e.registry /\ z.order = e.order
<1> DEFINE x == [e EXCEPT !.settings = s]
           y == Unrefused(x, r)
<1>1. x \in Engines /\ Agrees(e, x)
  BY ReloadType, SettingsKeeps, FilesAssumption
<1>2. y \in Engines /\ Agrees(e, y)
  <2> HIDE DEF x
  <2> QED BY <1>1, UnrefusedType, SettingsKeeps DEF Agrees
<1>3. LET z == [y EXCEPT !.media_owner = None]
      IN  /\ z \in Engines /\ Keeps(e, z) /\ z.media_owner = None
          /\ z.registry = e.registry /\ z.order = e.order
  <2> DEFINE z == [y EXCEPT !.media_owner = None]
  <2> HIDE DEF y
  <2>1. /\ z \in Engines /\ Keeps(y, z) /\ z.media_owner = None
        /\ z.registry = y.registry /\ z.order = y.order
    BY <1>2, DisownedType, DisownedKeeps
  <2> HIDE DEF z
  <2>2. Keeps(e, z)
    BY <1>2, <2>1, AgreesKeeps, KeepsTrans
  <2>3. z.registry = e.registry /\ z.order = e.order
    BY <1>2, <2>1 DEF Agrees
  <2>4. QED
    BY <2>1, <2>2, <2>3 DEF z
<1>4. QED
  <2> HIDE DEF x, y
  <2>1. Keeps(e, x) /\ Rows(e, x) /\ Keeps(e, y) /\ Rows(e, y)
    BY <1>1, <1>2, AgreesKeeps
  <2>2. QED
    BY <1>3, <2>1 DEF Sendable, x, y

-----------------------------------------------------------------------------
(* What each operation owes. *)

LEMMA CastRefusedOwed ==
    ASSUME SessionInv, ShownInv, NEW id \in Ids, CastRefused(id) PROVE Owed
<1>0. e \in Engines
  BY DEF SessionInv, TypeOK
<1>1. PICK s \in Files : Turn(Asked(id, s))
  BY DEF CastRefused
<1>2. Asked(id, s) \in Engines /\ Keeps(e, Asked(id, s)) /\ Rows(e, Asked(id, s))
  BY <1>0, AskedEngine, AskedKeeps DEF Rows
<1>3. UNCHANGED tasks /\ probes' \subseteq probes
  BY DEF CastRefused
<1>4. QED
  BY <1>1, <1>2, <1>3, CalmTurn

(* A cast is given its receiver's row as it is listed, and a new operation *)
(* number, so that no probe in flight is heeded.                           *)
LEMMA CastOwed ==
    ASSUME SessionInv, ShownInv, NEW id \in Ids, Cast(id) PROVE Owed
<1>0. e \in Engines
  BY DEF SessionInv, TypeOK
<1>1. PICK s \in Files, sink \in Offered(id) :
         Turn(CastBegun(Asked(id, s), id, sink))
  BY DEF Cast
<1> DEFINE x == Asked(id, s)
           y == CastBegun(x, id, sink)
<1>2. /\ x \in Engines /\ Keeps(e, x) /\ x.media_owner = None
      /\ x.registry = e.registry /\ x.order = e.order
      /\ SameSession(e, x)
  BY <1>0, AskedEngine, AskedKeeps
<1>3. /\ sink \in Sinks
      /\ id \in Receivers => id \in DOMAIN e.registry /\ sink = e.registry[id]
  <2>1. CASE id \in Publishers
    BY <2>1, NamesAssumption DEF Offered, Sinks
  <2>2. CASE id \notin Publishers
    BY <1>0, <2>2, RegistryOf DEF Offered, Sinks, Registries
  <2>3. QED
    BY <2>1, <2>2
<1>4. /\ y \in Engines
      /\ y.active_cast = id /\ y.active_sink = sink
      /\ y.status = "connecting" /\ y.measured = None
      /\ y.media_owner = None
      /\ y.registry = e.registry /\ y.order = e.order
      /\ y.operation_generation = x.operation_generation + 1
  <2>1. y \in Engines
    <3> HIDE DEF x
    <3> QED BY <1>2, <1>3, CastBegunType DEF Cast, SameSession
  <2>2. /\ y.active_cast = id /\ y.active_sink = sink
        /\ y.status = "connecting" /\ y.measured = None
        /\ y.media_owner = x.media_owner
        /\ y.registry = x.registry /\ y.order = x.order
        /\ y.operation_generation = x.operation_generation + 1
    <3> HIDE DEF x
    <3> QED BY <1>2 DEF CastBegun, Engines
  <2>3. QED
    <3> HIDE DEF x, y
    <3> QED BY <1>2, <2>1, <2>2
<1>5. ~Running(e) /\ probes' = probes /\ Turn(y)
  BY <1>1 DEF Cast
<1>6. Begun(y)
  <2>1. x.operation_generation \in Nat /\ e.operation_generation \in Nat
        /\ x.operation_generation >= e.operation_generation
    <3> HIDE DEF x
    <3> QED BY <1>0, <1>2 DEF Engines, Keeps, Holds
  <2>2. sink # None /\ id # None
    BY <1>3, NoneAssumption DEF Sinks, Ids
  <2>3. Listed(e)
    BY DEF ShownInv
  <2> HIDE DEF x, y
  <2>4. QED
    BY <1>3, <1>4, <2>1, <2>2, <2>3 DEF Begun, Listed, Rows
<1>7. QED
  <2> HIDE DEF y
  <2> QED BY <1>4, <1>5, <1>6, BegunStep

(* What stop_everything leaves: nothing is cleared, and what can still end *)
(* is told to.                                                             *)
LEMMA StoppedKeeps ==
    ASSUME NEW x \in Engines
    PROVE  LET y == Stopped(x)
               idle == x.active_sink = None /\ x.media_session = "none"
           IN  /\ y.active_cast = x.active_cast
               /\ y.active_sink = x.active_sink
               /\ y.serial = x.serial
               /\ y.media_owner \in {x.media_owner, None}
               /\ y.measured \in {x.measured, None}
               /\ y.operation_generation >= x.operation_generation
               /\ RowStays(x, y) /\ Rows(x, y)
               /\ (y.media_session = "none") = (x.media_session = "none")
               /\ y.media_session # "running"
               /\ idle => y.status # "stopping"
               /\ ~idle => y.status = "stopping"
<1> DEFINE m == IF x.media_session = "running" THEN "stopping"
                ELSE x.media_session
           y == [x EXCEPT !.media_session = m]
<1>1. m \in MediaStates /\ (m = "none") = (x.media_session = "none")
      /\ m # "running"
  BY DEF Engines, MediaStates
<1>2. /\ y \in Engines
      /\ y.active_cast = x.active_cast /\ y.active_sink = x.active_sink
      /\ y.serial = x.serial /\ y.media_owner = x.media_owner
      /\ y.measured = x.measured /\ y.media_session = m
      /\ y.operation_generation = x.operation_generation
      /\ y.registry = x.registry /\ y.order = x.order
  <2> HIDE DEF m
  <2> QED BY <1>1 DEF Engines
<1>3. x.operation_generation \in Nat
  BY DEF Engines
<1>4. CASE x.active_sink = None /\ x.media_session = "none"
  <2>1. Stopped(x) = ToIdle(y)
    BY <1>4 DEF Stopped
  <2>2. /\ ToIdle(y).status # "stopping"
        /\ Holds(y, ToIdle(y)) /\ Rows(y, ToIdle(y))
    <3> HIDE DEF y
    <3> QED BY <1>2, ToIdleKeeps
  <2>3. RowStays(x, ToIdle(y)) /\ Rows(x, ToIdle(y))
    <3> HIDE DEF y
    <3> QED BY <1>2, <2>2 DEF Holds, RowStays, Rows, Listed
  <2>4. QED
    <3> HIDE DEF y, m
    <3> QED BY <1>1, <1>2, <1>3, <1>4, <2>1, <2>2, <2>3 DEF Holds
<1>5. CASE ~(x.active_sink = None /\ x.media_session = "none")
  <2> DEFINE z == [y EXCEPT !.status = "stopping"]
  <2>1. Stopped(x) = z
    BY <1>5 DEF Stopped
  <2>2. /\ z.active_cast = y.active_cast /\ z.active_sink = y.active_sink
        /\ z.serial = y.serial /\ z.media_owner = y.media_owner
        /\ z.measured = y.measured /\ z.media_session = y.media_session
        /\ z.operation_generation = y.operation_generation
        /\ z.registry = y.registry /\ z.order = y.order
        /\ z.status = "stopping"
    <3> HIDE DEF y
    <3> QED BY <1>2 DEF Engines
  <2>3. RowStays(x, z) /\ Rows(x, z)
    <3> HIDE DEF y, z
    <3> QED BY <1>2, <2>2 DEF RowStays, Rows, Listed
  <2>4. QED
    <3> HIDE DEF y, z, m
    <3> QED BY <1>1, <1>2, <1>3, <1>5, <2>1, <2>2, <2>3
<1>6. QED
  BY <1>4, <1>5

LEMMA StopReaches ==
    ASSUME SessionInv, ShownInv, NEW y \in Engines, y = Stopped(e),
           e' \in Engines, Told(y, e'), Rows(y, e'),
           tasks' = CancelSent(e), probes' = probes
    PROVE  ShownInv' /\ StopKept /\ ScanSilent
<1> DEFINE idle == e.active_sink = None /\ e.media_session = "none"
<1>0. e \in Engines /\ tasks \in TaskTable
  BY DEF SessionInv, TypeOK, TaskTable
<1>1. /\ y.active_cast = e.active_cast
      /\ y.active_sink = e.active_sink
      /\ y.serial = e.serial
      /\ y.media_owner \in {e.media_owner, None}
      /\ y.measured \in {e.measured, None}
      /\ y.operation_generation >= e.operation_generation
      /\ RowStays(e, y) /\ Rows(e, y)
      /\ (y.media_session = "none") = (e.media_session = "none")
      /\ y.media_session # "running"
      /\ idle => y.status # "stopping"
      /\ ~idle => y.status = "stopping"
  BY <1>0, StoppedKeeps
<1>2. /\ e'.active_cast = y.active_cast
      /\ e'.active_sink = y.active_sink
      /\ e'.media_session = y.media_session
      /\ e'.serial = y.serial
      /\ e'.media_owner \in {y.media_owner, None}
      /\ e'.measured \in {y.measured, None}
      /\ e'.operation_generation >= y.operation_generation
      /\ e'.status = "stopping" => y.status = "stopping"
      /\ y.status = "stopping" => e'.status \in ErrorStatuses \cup {"stopping"}
      /\ RowStays(y, e')
  BY DEF Told, Holds
<1>3. SinkWithCast' /\ MeasurementIsCurrent' /\ OwnerHasSession'
  BY <1>1, <1>2
     DEF ShownInv, SinkWithCast, MeasurementIsCurrent, OwnerHasSession
<1>4. ActiveRowKept' /\ Listed(e)'
  BY <1>1, <1>2 DEF ShownInv, ActiveRowKept, RowStays, Listed
<1>5. StopReached'
  <2> SUFFICES ASSUME e'.status = "stopping"
               PROVE  \/ e'.media_session \in MediaEnds \cup {"stopping"}
                      \/ /\ e'.active_cast # None /\ e'.media_session = "none"
                         /\ \A s \in Sessions : Alive(s)' => Cancelled(s)'
    BY DEF StopReached
  <2>1. ~idle
    BY <1>1, <1>2
  <2>2. CASE e'.media_session # "none"
    BY <1>1, <1>2, <2>2 DEF Engines, MediaStates
  <2>3. CASE e'.media_session = "none"
    <3>1. e.media_session = "none" /\ e.active_cast # None
      BY <1>1, <1>2, <2>1, <2>3 DEF ShownInv, SinkWithCast
    <3>2. ASSUME NEW s \in Sessions, Alive(s)' PROVE Cancelled(s)'
      <4>1. Alive(s)
        BY <1>0, <3>2, CancelSentType DEF SameTasks
      <4>2. e.cast_cancel = s
        BY <4>1 DEF SessionInv, TaskHoldsSession
      <4>3. QED
        BY <1>0, <4>2 DEF CancelSent, Cancelled, TaskTable
    <3>3. QED
      BY <1>1, <1>2, <2>3, <3>1, <3>2
  <2>4. QED
    BY <2>2, <2>3
<1>6. ProbesCurrent'
  <2> SUFFICES ASSUME NEW p \in probes
               PROVE  /\ p.generation <= e'.operation_generation
                      /\ p.generation = e'.operation_generation
                         /\ e'.active_sink # None => p.session = e'.serial
    BY DEF ProbesCurrent
  <2>1. /\ e.operation_generation \in Nat /\ y.operation_generation \in Nat
        /\ e'.operation_generation \in Nat
    BY <1>0 DEF Engines
  <2>2. /\ p.generation \in Nat
        /\ p.generation <= e.operation_generation
        /\ p.generation = e.operation_generation /\ e.active_sink # None
             => p.session = e.serial
    BY DEF ShownInv, ProbesCurrent, SessionInv, TypeOK
  <2>3. QED
    BY <1>1, <1>2, <2>1, <2>2
<1>7. StopKept
  <2>1. e.status = "stopping" => ~idle
    BY DEF ShownInv, StopReached, SinkWithCast, MediaEnds
  <2>2. QED
    BY <1>1, <1>2, <2>1 DEF StopKept
<1>8. ScanSilent
  BY <1>1 DEF ScanSilent, Rows
<1>9. QED
  BY <1>3, <1>4, <1>5, <1>6, <1>7, <1>8 DEF ShownInv

LEMMA StopOwed ==
    ASSUME SessionInv, ShownInv, Turn(Stopped(e)), tasks' = CancelSent(e),
           UNCHANGED probes
    PROVE  Owed
<1>1. PICK y \in Engines : y = Stopped(e)
  BY StoppedType DEF SessionInv, TypeOK
<1>2. /\ e' \in Engines /\ Told(y, e') /\ Rows(y, e')
      /\ Running(e') => card' = card
  BY <1>1, TurnKeeps DEF SessionInv, TypeOK
<1>3. ShownInv' /\ StopKept /\ ScanSilent
  BY <1>1, <1>2, StopReaches
<1>4. CardKept
  BY <1>2 DEF CardKept
<1>5. QED
  BY <1>3, <1>4 DEF Owed

LEMMA ShutdownOwed == ASSUME SessionInv, ShownInv, Shutdown PROVE Owed
<1>1. PICK y \in Engines : y = Stopped(e)
  BY StoppedType DEF SessionInv, TypeOK
<1>2. e' = AbortDiscovery(y) /\ tasks' = CancelSent(e) /\ probes' = probes
      /\ card' = card
  BY <1>1 DEF Shutdown
<1>3. e' \in Engines /\ Told(y, e') /\ Rows(y, e')
  BY <1>2, AbortType, AbortKeeps DEF Keeps, Told
<1>4. ShownInv' /\ StopKept /\ ScanSilent
  BY <1>1, <1>2, <1>3, StopReaches
<1>5. CardKept
  BY <1>2 DEF CardKept
<1>6. QED
  BY <1>4, <1>5 DEF Owed

LEMMA RescanOwed == ASSUME SessionInv, ShownInv, Rescan PROVE Owed
<1>1. /\ Rescanned(e) \in Engines /\ Keeps(e, Rescanned(e))
      /\ Rows(e, Rescanned(e))
  BY RescannedType, RescannedKeeps DEF SessionInv, TypeOK
<1>2. QED
  BY <1>1, CalmTurn DEF Rescan

LEMMA PreferenceKeeps ==
    ASSUME NEW x \in Engines, NEW on
    PROVE  Agrees(x, [x EXCEPT !.settings.auto_discovery = on])
BY DEF Engines, Agrees

LEMMA SetAutoDiscoveryOwed ==
    ASSUME SessionInv, ShownInv, NEW on \in BOOLEAN, SetAutoDiscovery(on)
    PROVE  Owed
<1> DEFINE x == [e EXCEPT !.settings.auto_discovery = on]
<1>0. e \in Engines
  BY DEF SessionInv, TypeOK
<1>1. x \in Engines /\ Keeps(e, x) /\ Rows(e, x)
  BY <1>0, PreferenceType, PreferenceKeeps, AgreesKeeps
<1>2. Turn(Preferred(x)) /\ UNCHANGED tasks /\ probes' \subseteq probes
  BY DEF SetAutoDiscovery
<1>3. /\ Preferred(x) \in Engines /\ Keeps(e, Preferred(x))
      /\ Rows(e, Preferred(x))
  <2> HIDE DEF x
  <2> QED BY <1>0, <1>1, PreferredType, PreferredKeeps, KeepsTrans, RowsTrans
<1>4. QED
  <2> HIDE DEF x
  <2> QED BY <1>2, <1>3, CalmTurn

(* The one error apply_settings takes back is the sound card's.            *)
LEMMA ApplySettingsOwed ==
    ASSUME SessionInv, ShownInv, NEW new \in Files, NEW protocol \in BOOLEAN,
           ApplySettings(new, protocol)
    PROVE  Owed
<1> DEFINE retry == e.status = "card_failed"
           p == e.audio_pending \/ retry \/ new.card # e.settings.card
           x == [e EXCEPT !.settings = new, !.audio_pending = p]
           y == Rediscovered(x, protocol)
<1>0. e \in Engines /\ card \in BOOLEAN
  BY DEF SessionInv, TypeOK
<1>1. x \in Engines /\ Agrees(e, x)
  <2>1. p \in BOOLEAN /\ new \in Settings
    BY FilesAssumption
  <2> HIDE DEF p
  <2>2. x \in Engines
    BY <1>0, <2>1 DEF Engines
  <2>3. Agrees(e, x)
    BY <1>0 DEF Engines, Agrees
  <2>4. QED
    BY <2>2, <2>3
<1>2. y \in Engines /\ Keeps(e, y) /\ Rows(e, y)
  <2> HIDE DEF x
  <2> QED BY <1>0, <1>1, AgreesKeeps, RediscoveredType, RediscoveredKeeps,
             KeepsTrans, RowsTrans
<1>3. PICK ok \in BOOLEAN :
         /\ \/ e' = Reconciled(y, ok)
            \/ retry /\ e' = ToIdle(Reconciled(y, ok))
         /\ card' = CardAfter(y, ok)
  BY DEF ApplySettings
<1> DEFINE z == Reconciled(y, ok)
<1>4. /\ z \in Engines /\ Told(e, z) /\ Rows(e, z)
      /\ Running(z) => card' = card
  <2> DEFINE v == IF ok THEN y.status ELSE "card_failed"
             w == [y EXCEPT !.audio_pending = FALSE, !.status = v]
  <2>1. z \in Engines
    <3> HIDE DEF y
    <3> QED BY <1>0, <1>2, ReconciledType
  <2>2. Told(y, w) /\ Rows(y, w)
    <3>1. v \in {y.status, "card_failed"} /\ y.operation_generation \in Nat
      <4> HIDE DEF y
      <4> QED BY <1>2 DEF Engines
    <3> HIDE DEF v, y
    <3>2. QED
      BY <1>2, <3>1
         DEF Engines, Told, Holds, Rows, RowStays, Listed, ErrorStatuses
  <2>3. Told(y, y) /\ Rows(y, y)
    <3> HIDE DEF y
    <3> QED BY <1>2, KeepsSame DEF Keeps, Told
  <2>4. z = y \/ z = w
    <3> HIDE DEF y
    <3> QED BY DEF Reconciled
  <2>5. Told(y, z) /\ Rows(y, z)
    <3> HIDE DEF y, z, w
    <3> QED BY <2>2, <2>3, <2>4
  <2>6. Running(z) = Running(y)
    <3> HIDE DEF y, z
    <3> QED BY <2>5 DEF Told, Holds, Running
  <2>7. Running(y) => card' = card
    <3> HIDE DEF y
    <3> QED BY <1>3 DEF CardAfter, Deferred
  <2>8. QED
    <3> HIDE DEF y, z
    <3> QED BY <1>0, <1>2, <2>1, <2>5, <2>6, <2>7, KeepsTrans, RowsTrans
<1>5. /\ e' \in Engines /\ Told(e, e') /\ Rows(e, e')
      /\ Running(e') => card' = card
  <2>1. CASE e' = z
    <3> HIDE DEF z
    <3> QED BY <1>4, <2>1
  <2>2. CASE retry /\ e' = ToIdle(z)
    <3> HIDE DEF z
    <3>1. /\ ToIdle(z) \in Engines /\ Holds(z, ToIdle(z))
          /\ Rows(z, ToIdle(z))
      BY <1>4, ToIdleType, ToIdleKeeps
    <3>2. Holds(e, ToIdle(z)) /\ Rows(e, ToIdle(z))
      BY <1>0, <1>4, <3>1, HoldsTrans, RowsTrans DEF Told
    <3>3. e.status # "stopping"
      BY <2>2
    <3>4. Running(ToIdle(z)) = Running(z)
      BY <3>1 DEF Holds, Running
    <3>5. QED
      BY <1>4, <2>2, <3>1, <3>2, <3>3, <3>4 DEF Told
  <2>3. QED
    <3> HIDE DEF y
    <3> QED BY <1>3, <2>1, <2>2
<1>6. UNCHANGED tasks /\ UNCHANGED probes
  BY DEF ApplySettings
<1>7. CancelsKept
  BY <1>6 DEF CancelsKept, Alive, Cancelled
<1>8. ShownInv' /\ StopKept
  BY <1>5, <1>6, <1>7, CalmStep
<1>9. QED
  BY <1>5, <1>8 DEF Owed, ScanSilent, CardKept, Rows

LEMMA FetchBegins ==
    ASSUME NEW x \in Engines, NEW r \in Receivers, x.serial < MaxSessions
    PROVE  LET y == FetchBegun(x, r)
           IN  /\ y \in Engines
               /\ y.active_cast = x.active_cast /\ y.active_sink = x.active_sink
               /\ y.media_session = "running"
               /\ y.measured \in {x.measured, None}
               /\ y.operation_generation >= x.operation_generation
               /\ y.status # "stopping"
               /\ Rows(x, y) /\ (Listed(x) => Listed(y))
<1> DEFINE n == x.serial + 1
           y == [x EXCEPT !.media_session = "running", !.media_target = r,
                          !.serial = n, !.status = "sending"]
<1>1. n \in 0..MaxSessions
  BY BoundsAssumption DEF Engines
<1>2. /\ y \in Engines
      /\ y.active_cast = x.active_cast /\ y.active_sink = x.active_sink
      /\ y.media_session = "running" /\ y.measured = x.measured
      /\ y.operation_generation = x.operation_generation
      /\ y.status = "sending"
      /\ y.registry = x.registry /\ y.order = x.order
  <2> HIDE DEF n
  <2> QED BY ZenonT(60), <1>1 DEF Engines, Statuses, MediaStates
<1>3. /\ Refresh(y) \in Engines /\ Keeps(y, Refresh(y))
      /\ Rows(y, Refresh(y))
  <2> HIDE DEF y
  <2> QED BY <1>2, RefreshType, RefreshKeeps
<1>4. FetchBegun(x, r) = Refresh(y)
  BY DEF FetchBegun
<1>5. QED
  <2> HIDE DEF y
  <2> QED BY <1>2, <1>3, <1>4 DEF Keeps, Holds, RowStays, Rows, Listed

LEMMA DecodedType ==
    ASSUME NEW x \in Engines, NEW r \in Receivers, NEW k \in Arcs,
           NEW n \in 0..MaxSessions
    PROVE  [x EXCEPT !.media_target = r, !.active_cast = r,
                     !.active_sink = k, !.media_session = "running",
                     !.serial = n, !.status = "sending"] \in Engines
BY DEF Engines, Statuses, MediaStates, Ids, Sinks

LEMMA DecodeBegins ==
    ASSUME NEW x \in Engines, NEW r \in DOMAIN x.registry,
           x.serial < MaxSessions, x.measured = None, Listed(x)
    PROVE  LET y == DecodeBegun(x, r)
           IN  /\ y \in Engines
               /\ y.active_cast = r /\ y.active_sink # None
               /\ y.media_session = "running"
               /\ y.measured = None
               /\ y.operation_generation >= x.operation_generation
               /\ y.status # "stopping"
               /\ r \in y.order /\ r \in DOMAIN y.registry
               /\ y.registry[r] = y.active_sink
               /\ Rows(x, y) /\ Listed(y)
<1> DEFINE n == x.serial + 1
           k == x.registry[r]
           y == [x EXCEPT !.media_target = r, !.active_cast = r,
                          !.active_sink = k, !.media_session = "running",
                          !.serial = n, !.status = "sending"]
<1>1. n \in 0..MaxSessions
  BY BoundsAssumption DEF Engines
<1>2. r \in Receivers /\ k \in Arcs
  BY RegistryOf DEF Registries
<1>3. /\ y \in Engines
      /\ y.active_cast = r /\ y.active_sink = k
      /\ y.media_session = "running" /\ y.measured = x.measured
      /\ y.operation_generation = x.operation_generation
      /\ y.status = "sending"
      /\ y.registry = x.registry /\ y.order = x.order
  <2> HIDE DEF n, k
  <2>1. y \in Engines
    BY <1>1, <1>2, DecodedType
  <2>2. /\ y.active_cast = r /\ y.active_sink = k
        /\ y.media_session = "running" /\ y.measured = x.measured
        /\ y.operation_generation = x.operation_generation
        /\ y.status = "sending"
        /\ y.registry = x.registry /\ y.order = x.order
    BY DEF Engines
  <2>3. QED
    BY <2>1, <2>2
<1>4. /\ Refresh(y) \in Engines /\ Keeps(y, Refresh(y))
      /\ Rows(y, Refresh(y))
  <2> HIDE DEF y
  <2> QED BY <1>3, RefreshType, RefreshKeeps
<1>5. DecodeBegun(x, r) = Refresh(y)
  BY DEF DecodeBegun
<1>6. /\ y.registry[r] = k /\ r \in y.order /\ r \in DOMAIN y.registry
      /\ Listed(y) /\ Rows(x, y)
  <2> HIDE DEF y
  <2> QED BY <1>3 DEF Listed, Rows
<1>7. QED
  <2> DEFINE z == Refresh(y)
  <2>1. /\ z \in Engines /\ Keeps(y, z) /\ Rows(y, z)
        /\ DecodeBegun(x, r) = z
    BY <1>4, <1>5
  <2> HIDE DEF y, z, k
  <2>2. /\ z.active_cast = r /\ z.active_sink = k /\ z.active_sink # None
        /\ z.media_session = "running" /\ z.measured = None
        /\ z.operation_generation >= x.operation_generation
        /\ z.status # "stopping"
    BY <1>2, <1>3, <2>1, NoneAssumption DEF Keeps, Holds
  <2>3. /\ r \in z.order /\ r \in DOMAIN z.registry
        /\ z.registry[r] = k /\ Listed(z)
    BY <1>3, <1>6, <2>1 DEF Keeps, Holds, RowStays
  <2>4. Rows(x, z)
    BY <1>6, <2>1, RowsTrans
  <2>5. QED
    BY <2>1, <2>2, <2>3, <2>4

LEMMA OwnedKeeps ==
    ASSUME NEW y \in Engines, NEW p \in Players \cup {None}
    PROVE  LET z == Owned(y, p)
           IN  /\ z.media_owner # None => z.media_owner.id = y.serial
               /\ z.active_cast = y.active_cast
               /\ z.active_sink = y.active_sink
               /\ z.media_session = y.media_session /\ z.serial = y.serial
               /\ z.measured = y.measured /\ z.status = y.status
               /\ z.operation_generation = y.operation_generation
               /\ z.registry = y.registry /\ z.order = y.order
BY DEF Owned, Engines

(* A file session begins beside no other: played by its URL it takes no    *)
(* receiver; decoded here it takes the row listed, under a new operation.  *)
LEMMA SendMediaOwed ==
    ASSUME SessionInv, ShownInv, NEW r \in Receivers,
           NEW p \in Players \cup {None}, NEW fetch \in BOOLEAN,
           SendMedia(r, p, fetch)
    PROVE  Owed
<1>0. e \in Engines /\ e.operation_generation \in Nat
  BY DEF SessionInv, TypeOK, Engines
<1>1. PICK s \in Files :
         Turn(Owned(IF fetch THEN FetchBegun(Sendable(r, s), r)
                    ELSE DecodeBegun(LinkReset(Sendable(r, s)), r), p))
  BY DEF SendMedia
<1> DEFINE x == Sendable(r, s)
           l == LinkReset(x)
           y == IF fetch THEN FetchBegun(x, r) ELSE DecodeBegun(l, r)
           z == Owned(y, p)
<1>2. /\ x \in Engines /\ Keeps(e, x) /\ SameSession(e, x)
      /\ x.registry = e.registry /\ x.order = e.order
  BY <1>0, SendableEngine, SendableKeeps
<1>3. /\ l \in Engines /\ Keeps(e, l) /\ l.serial = e.serial
      /\ l.measured = None
      /\ l.registry = e.registry /\ l.order = e.order
      /\ l.operation_generation > e.operation_generation
  <2> HIDE DEF x
  <2>1. /\ l \in Engines /\ SameSession(x, l) /\ Keeps(x, l)
        /\ l.measured = None
        /\ l.registry = x.registry /\ l.order = x.order
        /\ l.operation_generation = x.operation_generation + 1
    BY <1>2, LinkResetType, LinkResetKeeps
  <2> HIDE DEF l
  <2>2. x.operation_generation \in Nat
        /\ x.operation_generation >= e.operation_generation
    BY <1>2 DEF Engines, Keeps, Holds
  <2>3. Keeps(e, l)
    BY <1>0, <1>2, <2>1, KeepsTrans
  <2>4. QED
    BY <1>0, <1>2, <2>1, <2>2, <2>3 DEF SameSession
<1>4. /\ ~Running(e) /\ Turn(z) /\ probes' = probes
      /\ r \in DOMAIN e.registry /\ e.serial < MaxSessions
  BY <1>1 DEF SendMedia
<1>5. /\ e.active_cast = None /\ e.active_sink = None /\ e.measured = None
      /\ Listed(e)
  BY <1>4, IdleFacts DEF ShownInv
<1>6. /\ y \in Engines
      /\ y.media_session = "running" /\ y.status # "stopping"
      /\ y.measured = None /\ Rows(e, y) /\ Listed(y)
      /\ (y.active_sink = None) = (y.active_cast = None)
      /\ y.active_cast \in Receivers =>
            /\ y.active_cast \in y.order
            /\ y.active_cast \in DOMAIN y.registry
            /\ y.registry[y.active_cast] = y.active_sink
      /\ y.operation_generation >= e.operation_generation
      /\ y.active_sink # None =>
            y.operation_generation > e.operation_generation
  <2>1. CASE fetch
    <3> DEFINE w == FetchBegun(x, r)
    <3>1. y = w
      BY <2>1
    <3>2. /\ w \in Engines
          /\ w.active_cast = x.active_cast /\ w.active_sink = x.active_sink
          /\ w.media_session = "running"
          /\ w.measured \in {x.measured, None}
          /\ w.operation_generation >= x.operation_generation
          /\ w.status # "stopping"
          /\ Rows(x, w) /\ (Listed(x) => Listed(w))
      <4> HIDE DEF x
      <4> QED BY <1>2, <1>4, FetchBegins DEF SameSession
    <3>3. /\ x.active_cast = None /\ x.active_sink = None
          /\ x.measured = None /\ Listed(x)
          /\ x.operation_generation \in Nat
          /\ x.operation_generation >= e.operation_generation
      <4> HIDE DEF x
      <4> QED BY <1>2, <1>5 DEF Keeps, Holds, Listed, Engines
    <3>4. Rows(e, w) /\ w.operation_generation \in Nat
      <4> HIDE DEF x, w
      <4> QED BY <1>2, <3>2 DEF Rows, Engines
    <3> HIDE DEF w, x, y
    <3>5. QED
      BY <1>0, <3>1, <3>2, <3>3, <3>4, NoneAssumption
  <2>2. CASE ~fetch
    <3> DEFINE w == DecodeBegun(l, r)
    <3>1. y = w
      BY <2>2
    <3>2. /\ w \in Engines
          /\ w.active_cast = r /\ w.active_sink # None
          /\ w.media_session = "running"
          /\ w.measured = None
          /\ w.operation_generation >= l.operation_generation
          /\ w.status # "stopping"
          /\ r \in w.order /\ r \in DOMAIN w.registry
          /\ w.registry[r] = w.active_sink
          /\ Rows(l, w) /\ Listed(w)
      <4>1. Listed(l)
        <5> HIDE DEF l
        <5> QED BY <1>3, <1>5 DEF Listed
      <4> HIDE DEF l
      <4>2. QED
        BY <1>3, <1>4, <4>1, DecodeBegins
    <3>3. /\ Rows(e, w) /\ w.operation_generation \in Nat
          /\ l.operation_generation \in Nat
      <4> HIDE DEF l, w
      <4> QED BY <1>3, <3>2 DEF Rows, Engines
    <3> HIDE DEF w, l, x, y
    <3>4. QED
      BY <1>0, <1>3, <3>1, <3>2, <3>3, NoneAssumption
  <2>3. QED
    BY <2>1, <2>2
<1>7. z \in Engines /\ Begun(z)
  <2> HIDE DEF y
  <2>1. z \in Engines
    BY <1>6, OwnedType
  <2>2. /\ z.media_owner # None => z.media_owner.id = y.serial
        /\ z.active_cast = y.active_cast
        /\ z.active_sink = y.active_sink
        /\ z.media_session = y.media_session /\ z.serial = y.serial
        /\ z.measured = y.measured /\ z.status = y.status
        /\ z.operation_generation = y.operation_generation
        /\ z.registry = y.registry /\ z.order = y.order
    BY <1>6, OwnedKeeps
  <2> HIDE DEF z
  <2>3. Begun(z)
    BY <1>6, <2>2 DEF Begun, Listed, Rows
  <2>4. QED
    BY <2>1, <2>3
<1>8. QED
  <2> HIDE DEF z
  <2> QED BY <1>4, <1>7, BegunStep

LEMMA SendMediaRefusedOwed ==
    ASSUME SessionInv, ShownInv, NEW r \in Receivers,
           NEW p \in Players \cup {None}, SendMediaRefused(r, p)
    PROVE  Owed
<1>0. e \in Engines
  BY DEF SessionInv, TypeOK
<1>1. PICK s \in Files :
         \/ Turn([e EXCEPT !.settings = s])
         \/ Turn(Unrefused([e EXCEPT !.settings = s], r))
         \/ Turn(Sendable(r, s))
         \/ Turn(LinkReset(Sendable(r, s)))
  BY DEF SendMediaRefused
<1>2. /\ LinkReset(Sendable(r, s)) \in Engines
      /\ Keeps(e, LinkReset(Sendable(r, s)))
      /\ Rows(e, LinkReset(Sendable(r, s)))
      /\ Rows(e, Sendable(r, s))
  <2> DEFINE y == Sendable(r, s)
  <2>1. y \in Engines /\ Keeps(e, y) /\ y.registry = e.registry
    BY <1>0, SendableEngine, SendableKeeps
  <2> HIDE DEF y
  <2>2. /\ LinkReset(y) \in Engines /\ Keeps(y, LinkReset(y))
        /\ LinkReset(y).registry = y.registry
    BY <2>1, LinkResetType, LinkResetKeeps
  <2>3. Keeps(e, LinkReset(y)) /\ Rows(e, LinkReset(y)) /\ Rows(e, y)
    BY <1>0, <2>1, <2>2, KeepsTrans DEF Rows
  <2>4. QED
    BY <2>2, <2>3 DEF y
<1>3. PICK x \in Engines : Turn(x) /\ Keeps(e, x) /\ Rows(e, x)
  BY <1>0, <1>1, <1>2, SendableEngine, SendableKeeps
<1>4. UNCHANGED tasks /\ probes' \subseteq probes
  BY DEF SendMediaRefused
<1>5. QED
  BY <1>3, <1>4, CalmTurn

LEMMA ControlMediaFailsOwed ==
    ASSUME SessionInv, ShownInv, ControlMediaFails PROVE Owed
<1>0. e \in Engines /\ card \in BOOLEAN
  BY DEF SessionInv, TypeOK
<1>1. PICK x : x = [e EXCEPT !.status = "error"]
  OBVIOUS
<1>2. /\ x \in Engines /\ Told(e, x) /\ Rows(e, x)
      /\ x.status = "error"
  <2>1. [e EXCEPT !.status = "error"] \in Engines
    BY <1>0, StatusType DEF Statuses
  <2>2. /\ Told(e, [e EXCEPT !.status = "error"])
        /\ Rows(e, [e EXCEPT !.status = "error"])
    BY <1>0, StatusKeeps DEF ErrorStatuses
  <2>3. QED
    BY <1>0, <1>1, <2>1, <2>2 DEF Engines
<1>3. Turn(x) /\ UNCHANGED tasks /\ UNCHANGED probes
  BY <1>1 DEF ControlMediaFails
<1>4. /\ e' \in Engines /\ Told(x, e') /\ Rows(x, e')
      /\ e'.status \in {x.status, "card_failed"}
      /\ Running(e') => card' = card
  BY <1>0, <1>2, <1>3, TurnKeeps
<1>5. Told(e, e') /\ Rows(e, e')
  <2>1. Holds(e, e')
    BY <1>0, <1>2, <1>4, HoldsTrans DEF Told
  <2>2. e'.status \in ErrorStatuses
    BY <1>2, <1>4 DEF ErrorStatuses
  <2>3. QED
    BY <1>2, <1>4, <2>1, <2>2, RowsTrans DEF Told
<1>6. CancelsKept
  BY <1>3 DEF CancelsKept, Alive, Cancelled
<1>7. ShownInv' /\ StopKept
  BY <1>3, <1>4, <1>5, <1>6, CalmStep
<1>8. QED
  BY <1>4, <1>5, <1>7 DEF Owed, ScanSilent, CardKept, Rows

(* Events.  An announcement may list a receiver: only of the scan that is  *)
(* running, so discovery is on.                                            *)
LEMMA DiscoveredOwed ==
    ASSUME SessionInv, ShownInv, NEW g \in Nat, NEW x \in Engines, Keeps(e, x),
           Discovered(g, x)
    PROVE  Owed
<1>0. e \in Engines /\ card \in BOOLEAN /\ e.generation \in Nat
  BY DEF SessionInv, TypeOK, Engines
<1>1. PICK y \in Engines :
         Settle(y) /\ Keeps(e, y) /\ (~e.discovering => y = e)
  BY <1>0, KeepsSame DEF Discovered, Queued
<1>2. /\ e' \in Engines /\ Told(y, e') /\ Rows(y, e')
      /\ Running(e') => card' = card
  BY <1>0, <1>1, SettleKeeps
<1>3. Told(e, e')
  BY <1>0, <1>1, <1>2, KeepsTrans
<1>4. UNCHANGED tasks /\ UNCHANGED probes
  BY DEF Discovered
<1>5. ShownInv' /\ StopKept
  BY <1>2, <1>3, <1>4, CalmStep DEF CancelsKept, Alive, Cancelled
<1>6. ScanSilent /\ CardKept
  BY <1>1, <1>2 DEF ScanSilent, CardKept, Rows
<1>7. QED
  BY <1>5, <1>6 DEF Owed

LEMMA SearchTimedOutOwed ==
    ASSUME SessionInv, ShownInv, NEW g, SearchTimedOut(g) PROVE Owed
<1>0. e \in Engines
  BY DEF SessionInv, TypeOK
<1> DEFINE x == [e EXCEPT !.searching = FALSE]
<1>1. x \in Engines /\ Keeps(e, x) /\ Rows(e, x)
  BY <1>0, ScanType, ScanKeeps
<1>2. /\ Refresh(x) \in Engines /\ Keeps(e, Refresh(x))
      /\ Rows(e, Refresh(x))
  <2> HIDE DEF x
  <2> QED BY <1>0, <1>1, RefreshType, RefreshKeeps, KeepsTrans, RowsTrans
<1>3. PICK y \in {Refresh(x), e} : Settle(y)
  BY DEF SearchTimedOut
<1>4. y \in Engines /\ Keeps(e, y) /\ Rows(e, y)
  <2> HIDE DEF x
  <2> QED BY <1>0, <1>2, <1>3, KeepsSame
<1>5. UNCHANGED tasks /\ probes' \subseteq probes
  BY DEF SearchTimedOut
<1>6. QED
  BY <1>3, <1>4, <1>5, CalmTurn

(* What link_measured may write: nothing of an earlier operation, and      *)
(* otherwise a round trip of the session the probe was sent for.           *)
Noted(y) ==
    /\ y.active_cast = e.active_cast
    /\ y.active_sink = e.active_sink
    /\ y.media_session = e.media_session
    /\ y.serial = e.serial
    /\ y.media_owner = e.media_owner
    /\ \/ y.measured = e.measured
       \/ y.measured = e.serial /\ e.active_sink # None
    /\ y.operation_generation = e.operation_generation
    /\ y.status = e.status
    /\ y.registry = e.registry
    /\ y.order = e.order

LEMMA NotedLasts ==
    ASSUME e \in Engines, NEW y \in Engines, Noted(y), e' \in Engines,
           Told(y, e')
    PROVE  Lasts
<1>1. /\ e.operation_generation \in Nat
      /\ e'.operation_generation >= e.operation_generation
  BY DEF Noted, Told, Holds, Engines
<1>2. RowStays(e, e')
  BY DEF Noted, Told, Holds, RowStays, Listed
<1>3. \/ e'.measured \in {e.measured, None}
      \/ e'.measured = e.serial /\ e.active_sink # None
  BY DEF Noted, Told, Holds
<1>4. QED
  BY <1>1, <1>2, <1>3 DEF Noted, Told, Holds, Lasts

LEMMA LinkMeasuredOwed ==
    ASSUME SessionInv, ShownInv, NEW p \in probes, LinkMeasured(p) PROVE Owed
<1> DEFINE v == IF e.active_sink # None THEN p.session ELSE e.measured
           x == [e EXCEPT !.probing = FALSE, !.measured = v]
<1>0. e \in Engines /\ card \in BOOLEAN
  BY DEF SessionInv, TypeOK
<1>1. v \in Nat \cup {None}
  BY DEF SessionInv, TypeOK, Engines
<1>2. Noted(e)
  BY DEF Noted
<1>3. p.generation = e.operation_generation => x \in Engines /\ Noted(x)
  <2> SUFFICES ASSUME p.generation = e.operation_generation
               PROVE  x \in Engines /\ Noted(x)
    OBVIOUS
  <2>1. v = e.measured \/ (v = e.serial /\ e.active_sink # None)
    BY DEF ShownInv, ProbesCurrent
  <2> HIDE DEF v
  <2>2. x \in Engines
    BY <1>0, <1>1, ProbeType
  <2>3. Noted(x)
    BY <1>0, <2>1 DEF Noted, Engines
  <2>4. QED
    BY <2>2, <2>3
<1>4. PICK y \in Engines : Noted(y) /\ Settle(y)
  <2>1. Settle(IF p.generation # e.operation_generation THEN e ELSE x)
    BY DEF LinkMeasured
  <2> HIDE DEF x
  <2>2. QED
    BY <1>0, <1>2, <1>3, <2>1
<1>5. /\ e' \in Engines /\ Told(y, e') /\ Rows(y, e')
      /\ Running(e') => card' = card
  BY <1>0, <1>4, SettleKeeps
<1>6. UNCHANGED tasks /\ probes' \subseteq probes
  BY DEF LinkMeasured
<1>7. ShownInv' /\ StopKept
  BY <1>0, <1>4, <1>5, <1>6, NotedLasts, LastingStep
     DEF CancelsKept, Alive, Cancelled
<1>8. ScanSilent /\ CardKept
  BY <1>4, <1>5 DEF ScanSilent, CardKept, Rows, Noted
<1>9. QED
  BY <1>7, <1>8 DEF Owed

(* Clearing a session, before a status is given to what is left. *)
Emptied(x, y) ==
    /\ y.active_cast = None /\ y.active_sink = None
    /\ y.media_session = "none"
    /\ y.measured = None /\ y.media_owner = None
    /\ y.operation_generation = x.operation_generation
    /\ y.registry = x.registry /\ y.order = x.order

LEMMA StatusVacates ==
    ASSUME NEW x \in Engines, NEW c \in Engines, Emptied(x, c)
    PROVE  /\ Rows(x, c)
           /\ Vacated(x, ToIdle(c)) /\ Rows(x, ToIdle(c))
           /\ Vacated(x, [c EXCEPT !.status = "error"])
           /\ Rows(x, [c EXCEPT !.status = "error"])
           /\ Vacated(x, [c EXCEPT !.status = "ndi_missing"])
           /\ Rows(x, [c EXCEPT !.status = "ndi_missing"])
<1>1. x.operation_generation \in Nat
  BY DEF Engines
<1>2. Rows(x, c)
  BY DEF Emptied, Rows
<1>3. \A v \in Statuses \ {"stopping"} :
          /\ Vacated(x, [c EXCEPT !.status = v])
          /\ Rows(x, [c EXCEPT !.status = v])
  BY <1>1 DEF Emptied, Vacated, Rows, Listed, Engines
<1>4. /\ Holds(c, ToIdle(c)) /\ Rows(c, ToIdle(c))
      /\ ToIdle(c).status # "stopping" /\ ToIdle(c) \in Engines
  BY ToIdleKeeps, ToIdleType
<1>5. Vacated(x, ToIdle(c)) /\ Rows(x, ToIdle(c))
  BY <1>1, <1>4 DEF Emptied, Vacated, Holds, Rows, RowStays, Listed
<1>6. QED
  BY <1>2, <1>3, <1>5 DEF Statuses

LEMMA VacatedTurn ==
    ASSUME SessionInv, ShownInv, NEW y \in Engines, Vacated(e, y), Rows(e, y),
           Settle(y), probes' = probes
    PROVE  Owed
<1>1. /\ e' \in Engines /\ Told(y, e') /\ Rows(y, e')
      /\ Running(e') => card' = card
  BY SettleKeeps DEF SessionInv, TypeOK
<1>2. Vacated(e, e') /\ Rows(e, e')
  BY <1>1, VacatedHolds, RowsTrans DEF SessionInv, TypeOK, Told
<1>3. ShownInv' /\ StopKept
  BY <1>1, <1>2, VacatedStep
<1>4. ScanSilent /\ CardKept
  BY <1>1, <1>2 DEF ScanSilent, CardKept, Rows
<1>5. QED
  BY <1>3, <1>4 DEF Owed

LEMMA CastFinishedOwed ==
    ASSUME SessionInv, ShownInv, NEW s \in Sessions, CastFinished(s)
    PROVE  Owed
<1> DEFINE c == Cleared(e)
           y == CastCleared(e, tasks[s].id, tasks[s].outcome)
<1>0. e \in Engines
  BY DEF SessionInv, TypeOK
<1>1. Alive(s) /\ tasks[s].outcome \in Outcomes
  BY DEF CastFinished, Alive, SessionInv, TypeOK
<1>2. e.active_cast = tasks[s].id /\ e.media_session = "none"
      /\ e.media_owner = None
  BY <1>1 DEF SessionInv, TaskHoldsSession, ShownInv, OwnerHasSession
<1>3. c \in Engines /\ Emptied(e, c)
  <2>1. c \in Engines
    BY <1>0, ClearedType
  <2>2. Emptied(e, c)
    BY <1>0, <1>2 DEF Cleared, Emptied, Engines
  <2>3. QED
    BY <2>1, <2>2
<1>4. y \in Engines
  BY <1>0, <1>1, CastClearedType
<1>5. Vacated(e, y) /\ Rows(e, y)
  <2>1. y \in {ToIdle(c), [c EXCEPT !.status = "error"],
               [c EXCEPT !.status = "ndi_missing"]}
    BY <1>1, <1>2 DEF CastCleared, Outcomes
  <2> HIDE DEF c, y
  <2>2. QED
    BY <1>0, <1>3, <2>1, StatusVacates
<1>6. Settle(y) /\ probes' = probes
  BY DEF CastFinished
<1>7. QED
  <2> HIDE DEF y
  <2> QED BY <1>4, <1>5, <1>6, VacatedTurn

(* The tick. *)
LEMMA ReapedVacates ==
    ASSUME NEW x \in Engines, x.media_session \in MediaEnds
    PROVE  Vacated(x, Reaped(x)) /\ Rows(x, Reaped(x))
<1> DEFINE c == Cleared(x)
           g == [c EXCEPT !.media_session = "none", !.media_owner = None,
                          !.media_target = None]
<1>1. c \in Engines
  BY ClearedType
<1>2. g \in Engines /\ Emptied(x, g)
  <2>1. g \in Engines
    <3> HIDE DEF c
    <3> QED BY <1>1, HandleDropped
  <2>2. Emptied(x, g)
    BY DEF Cleared, Emptied, Engines
  <2>3. QED
    BY <2>1, <2>2
<1>3. /\ Vacated(x, ToIdle(g)) /\ Rows(x, ToIdle(g))
      /\ Vacated(x, [g EXCEPT !.status = "error"])
      /\ Rows(x, [g EXCEPT !.status = "error"])
  <2> HIDE DEF g
  <2> QED BY <1>2, StatusVacates
<1>4. LET y == [g EXCEPT !.status = "error", !.refused = x.media_target]
      IN  Vacated(x, y) /\ Rows(x, y)
  <2> DEFINE t == x.media_target
             f == [g EXCEPT !.status = "error"]
  <2>1. f \in Engines /\ Vacated(x, f) /\ Rows(x, f)
    <3> HIDE DEF g
    <3> QED BY <1>2, <1>3, StatusType DEF Statuses
  <2>2. [g EXCEPT !.status = "error", !.refused = t]
          = [f EXCEPT !.refused = t]
    <3> HIDE DEF g, t
    <3> QED BY <1>2 DEF Engines
  <2>3. /\ Vacated(x, [f EXCEPT !.refused = t])
        /\ Rows(x, [f EXCEPT !.refused = t])
    <3> HIDE DEF f, t
    <3> QED BY <2>1 DEF Engines, Vacated, Rows, Listed
  <2>4. QED
    BY <2>2, <2>3
<1>5. CASE x.media_session = "ended"
  BY <1>3, <1>5 DEF Reaped
<1>6. CASE x.media_session = "failed"
  BY <1>3, <1>6 DEF Reaped
<1>7. CASE x.media_session = "impostor"
  BY <1>4, <1>7 DEF Reaped
<1>8. QED
  BY <1>5, <1>6, <1>7 DEF MediaEnds

LEMMA ProbingAgrees ==
    ASSUME NEW x \in Engines, NEW b
    PROVE  Agrees(x, [x EXCEPT !.probing = b])
BY DEF Engines, Agrees

LEMMA TickOwed ==
    ASSUME SessionInv, ShownInv, NEW linked \in BOOLEAN, Tick(linked)
    PROVE  Owed
<1> DEFINE x == Reaped(e)
           asks == linked /\ x.active_sink # None /\ ~x.probing
           b == x.probing \/ asks
           z == [x EXCEPT !.probing = b]
<1>0. e \in Engines /\ card \in BOOLEAN
  BY DEF SessionInv, TypeOK
<1>1. x \in Engines
  BY <1>0, ReapedType
<1>2. z \in Engines /\ Keeps(x, z) /\ Rows(x, z)
  <2>1. b \in BOOLEAN
    <3> HIDE DEF x
    <3> QED BY <1>1 DEF Engines
  <2> HIDE DEF b, x
  <2>2. QED
    BY <1>1, <2>1, ProbeType, ProbingAgrees, AgreesKeeps
<1>3. PICK y \in Engines : y = Refresh(z) /\ Keeps(x, y) /\ Rows(x, y)
  <2> HIDE DEF z, x
  <2> QED BY <1>1, <1>2, RefreshType, RefreshKeeps, KeepsTrans, RowsTrans
<1>4. Turn(y) /\ UNCHANGED tasks
  BY <1>3 DEF Tick
<1>5. CASE e.media_session \in MediaEnds
  <2>1. Vacated(e, x) /\ Rows(e, x)
    BY <1>0, <1>5, ReapedVacates
  <2>2. probes' = probes
    BY <2>1 DEF Tick, Vacated
  <2>3. Vacated(e, y) /\ Rows(e, y)
    <3> HIDE DEF x
    <3> QED BY <1>0, <1>1, <1>3, <2>1, VacatedHolds, RowsTrans DEF Keeps
  <2>4. Settle(y)
    BY <1>4 DEF Settle, Tick
  <2>5. QED
    BY <2>2, <2>3, <2>4, VacatedTurn
<1>6. CASE e.media_session \notin MediaEnds
  <2>1. x = e
    BY <1>0, <1>6, ReapedType
  <2>2. probes' \subseteq probes \cup {Probe}
    BY <2>1 DEF Tick, Probe
  <2> HIDE DEF x
  <2>3. /\ e' \in Engines /\ Told(y, e') /\ Rows(y, e')
        /\ Running(e') => card' = card
    BY <1>0, <1>4, TurnKeeps
  <2>4. Told(e, e') /\ Rows(e, e')
    BY <1>0, <1>3, <2>1, <2>3, KeepsTrans, RowsTrans
  <2>5. ShownInv' /\ StopKept
    BY <1>4, <2>2, <2>3, <2>4, CalmStep DEF CancelsKept, Alive, Cancelled
  <2>6. ScanSilent /\ CardKept
    BY <2>3, <2>4 DEF ScanSilent, CardKept, Rows
  <2>7. QED
    BY <2>5, <2>6 DEF Owed
<1>7. QED
  BY <1>5, <1>6

LEMMA ClosingTickOwed == ASSUME SessionInv, ShownInv, ClosingTick PROVE Owed
<1>0. e \in Engines
  BY DEF SessionInv, TypeOK
<1>1. Settle(Reaped(e)) /\ UNCHANGED <<tasks, probes>>
  BY DEF ClosingTick
<1>2. CASE e.media_session \in MediaEnds
  BY <1>0, <1>1, <1>2, ReapedType, ReapedVacates, VacatedTurn
<1>3. CASE e.media_session \notin MediaEnds
  <2>1. Reaped(e) = e
    BY <1>0, <1>3, ReapedType
  <2>2. QED
    BY <1>0, <1>1, <2>1, KeepsSame, CalmTurn
<1>4. QED
  BY <1>2, <1>3

LEMMA EventOwed == ASSUME SessionInv, ShownInv, Event PROVE Owed
<1>0. e \in Engines
  BY DEF SessionInv, TypeOK
<1>1. ASSUME NEW r \in Receivers, NEW g \in 0..MaxGenerations + 1,
             \/ \E arc \in Arcs : Added(r, arc, g)
             \/ Removed(r, g)
      PROVE  Owed
  <2>0. g \in Nat
    BY BoundsAssumption
  <2>1. ASSUME NEW arc \in Arcs, Added(r, arc, g) PROVE Owed
    BY <1>0, <2>0, <2>1, AnnouncedType, AnnouncedKeeps, DiscoveredOwed
       DEF Added
  <2>2. CASE Removed(r, g)
    BY <1>0, <2>0, <2>2, WithdrawnType, WithdrawnKeeps, DiscoveredOwed
       DEF Removed
  <2>3. QED
    BY <1>1, <2>1, <2>2
<1>2. ASSUME NEW g \in timers, SearchTimedOut(g) PROVE Owed
  BY <1>2, SearchTimedOutOwed
<1>3. ASSUME NEW p \in probes, LinkMeasured(p) PROVE Owed
  BY <1>3, LinkMeasuredOwed
<1>4. ASSUME NEW s \in Sessions, CastFinished(s) PROVE Owed
  BY <1>4, CastFinishedOwed
<1>5. QED
  BY <1>1, <1>2, <1>3, <1>4 DEF Event

LEMMA CommandOwed == ASSUME SessionInv, ShownInv, Command PROVE Owed
<1>1. ASSUME NEW id \in Ids, CastRefused(id) \/ Cast(id) PROVE Owed
  BY <1>1, CastRefusedOwed, CastOwed
<1>2. CASE Stop
  BY <1>2, StopOwed DEF Stop
<1>3. CASE Rescan
  BY <1>3, RescanOwed
<1>4. ASSUME NEW on \in BOOLEAN, SetAutoDiscovery(on) PROVE Owed
  BY <1>4, SetAutoDiscoveryOwed
<1>5. ASSUME NEW s \in Files, NEW protocol \in BOOLEAN,
             ApplySettings(s, protocol)
      PROVE  Owed
  BY <1>5, ApplySettingsOwed
<1>6. ASSUME NEW r \in Receivers, NEW p \in Players \cup {None},
             \/ \E fetch \in BOOLEAN : SendMedia(r, p, fetch)
             \/ SendMediaRefused(r, p)
      PROVE  Owed
  BY <1>6, SendMediaOwed, SendMediaRefusedOwed
<1>7. CASE ControlMediaFails
  BY <1>7, ControlMediaFailsOwed
<1>8. ASSUME NEW p \in Players,
             (\E id \in Sessions : StopPlayer(p, id)) \/ PlayerGone(p)
      PROVE  Owed
  BY <1>8, StopOwed DEF StopPlayer, PlayerGone
<1>9. CASE Shutdown
  BY <1>9, ShutdownOwed
<1>10. QED
  BY <1>1, <1>2, <1>3, <1>4, <1>5, <1>6, <1>7, <1>8, <1>9 DEF Command

(* Steps beside the run loop: the engine is as it was, or its file session *)
(* has ended.                                                              *)
LEMMA QuietOwed ==
    ASSUME SessionInv, ShownInv, e' = e, CancelsKept, probes' = probes, CardKept
    PROVE  Owed
<1>1. e' \in Engines /\ Told(e, e') /\ Rows(e, e')
  BY KeepsSame DEF SessionInv, TypeOK, Keeps, Told
<1>2. ShownInv' /\ StopKept
  BY <1>1, CalmStep
<1>3. QED
  BY <1>1, <1>2 DEF Owed, ScanSilent, Rows

LEMMA TaskStepOwed ==
    ASSUME SessionInv, ShownInv, NEW s \in Sessions, TaskStep(s) PROVE Owed
<1>1. /\ e' = e /\ probes' = probes
      /\ card' # card => card' /\ tasks[s].phase = "ensuring"
  BY DEF TaskStep, TaskStarts, NdiChecked, CardEnsured, BackendSelected,
         SelectionCancelled, CaptureStarted, StreamReturned, StreamCancelled,
         StopStreamReturned, BackendStopped, Reports, Goes, Ends,
         SessionInv, TypeOK
<1>2. CancelsKept
  <2>1. tasks \in TaskTable
    BY DEF SessionInv, TypeOK, TaskTable
  <2>2. \E to : \/ tasks' = [tasks EXCEPT ![s].phase = to]
                \/ \E outcome : tasks' = [tasks EXCEPT ![s].phase = to,
                                                      ![s].outcome = outcome]
    BY DEF TaskStep, TaskStarts, NdiChecked, CardEnsured, BackendSelected,
           SelectionCancelled, CaptureStarted, StreamReturned,
           StreamCancelled, StopStreamReturned, BackendStopped, Reports,
           Goes, Ends
  <2>3. tasks[s].phase \notin {"none", "gone"}
    BY DEF TaskStep, TaskStarts, NdiChecked, CardEnsured, BackendSelected,
           SelectionCancelled, CaptureStarted, StreamReturned,
           StreamCancelled, StopStreamReturned, BackendStopped, Reports,
           Goes, Ends
  <2>4. QED
    BY <2>1, <2>2, <2>3 DEF CancelsKept, Alive, Cancelled, TaskTable
<1>3. CardKept
  BY <1>1 DEF CardKept
<1>4. QED
  BY <1>1, <1>2, <1>3, QuietOwed

LEMMA MediaReturnsOwed == ASSUME SessionInv, ShownInv, MediaReturns PROVE Owed
<1>0. e \in Engines
  BY DEF SessionInv, TypeOK
<1>1. PICK end \in MediaEnds : e' = [e EXCEPT !.media_session = end]
  BY DEF MediaReturns
<1>2. /\ e'.active_cast = e.active_cast /\ e'.active_sink = e.active_sink
      /\ e'.media_session \in MediaEnds /\ e'.serial = e.serial
      /\ e'.media_owner = e.media_owner /\ e'.measured = e.measured
      /\ e'.operation_generation = e.operation_generation
      /\ e'.status = e.status
      /\ e'.registry = e.registry /\ e'.order = e.order
  BY <1>0, <1>1 DEF Engines
<1>3. UNCHANGED <<probes, card>>
  BY DEF MediaReturns
<1>4. SinkWithCast' /\ MeasurementIsCurrent' /\ StopReached'
  BY <1>2 DEF ShownInv, SinkWithCast, MeasurementIsCurrent, StopReached
<1>5. OwnerHasSession'
  BY <1>2 DEF ShownInv, OwnerHasSession, MediaEnds
<1>6. ActiveRowKept' /\ Listed(e)'
  BY <1>2 DEF ShownInv, ActiveRowKept, Listed
<1>7. ProbesCurrent'
  BY <1>2, <1>3 DEF ShownInv, ProbesCurrent
<1>8. StopKept /\ ScanSilent /\ CardKept
  BY <1>2, <1>3 DEF StopKept, ScanSilent, CardKept
<1>9. QED
  BY <1>4, <1>5, <1>6, <1>7, <1>8 DEF Owed, ShownInv

LEMMA NextOwed == ASSUME SessionInv, ShownInv, [Next]_vars PROVE Owed
<1>1. CASE Command
  BY <1>1, CommandOwed
<1>2. CASE Event
  BY <1>2, EventOwed
<1>3. ASSUME NEW linked \in BOOLEAN, Tick(linked) PROVE Owed
  BY <1>3, TickOwed
<1>4. CASE ClosingTick
  BY <1>4, ClosingTickOwed
<1>5. CASE Close \/ Abandon
  <2>1. UNCHANGED <<e, tasks, probes>> /\ ~Loop
    BY <1>5 DEF Close, Abandon, Loop
  <2>2. QED
    BY <2>1, QuietOwed DEF CancelsKept, Alive, Cancelled, CardKept
<1>6. ASSUME NEW s \in Sessions, TaskStep(s) PROVE Owed
  BY <1>6, TaskStepOwed
<1>7. CASE MediaReturns
  BY <1>7, MediaReturnsOwed
<1>8. CASE SinkStateChanges \/ UNCHANGED vars
  <2>1. UNCHANGED <<e, tasks, probes, card>>
    BY <1>8 DEF SinkStateChanges, vars
  <2>2. QED
    BY <2>1, QuietOwed DEF CancelsKept, Alive, Cancelled, CardKept
<1>9. QED
  BY <1>1, <1>2, <1>3, <1>4, <1>5, <1>6, <1>7, <1>8 DEF Next

LEMMA InitShown == Init => ShownInv
<1> SUFFICES ASSUME Init PROVE ShownInv
  OBVIOUS
<1>1. /\ e.registry = [r \in {} |-> None] /\ e.order = {}
      /\ e.active_cast = None /\ e.active_sink = None
      /\ e.media_session = "none" /\ e.media_owner = None
      /\ e.measured = None /\ e.status # "stopping" /\ probes = {}
  BY DEF Init
<1>2. Listed(e)
  <2>1. DOMAIN [r \in {} |-> None] = {}
    OBVIOUS
  <2>2. QED
    BY <1>1, <2>1 DEF Listed
<1>3. /\ SinkWithCast /\ StopReached /\ ProbesCurrent
      /\ MeasurementIsCurrent /\ OwnerHasSession
  BY <1>1 DEF SinkWithCast, StopReached, ProbesCurrent, MeasurementIsCurrent,
              OwnerHasSession
<1>4. ActiveRowKept
  BY <1>1, NoneAssumption DEF ActiveRowKept
<1>5. QED
  BY <1>2, <1>3, <1>4 DEF ShownInv

(* What the service publishes of a session is so, whatever its clients,    *)
(* receivers and tasks do in between: it has an owner that will clear it,  *)
(* a shown stop is under way, the round trip and the player's token are of *)
(* the session that runs now, and discovery leaves its row (cast_finished, *)
(* reap_finished_media, link_measured and the discovery arms).             *)
THEOREM SessionIsConsistent == Spec => []SessionConsistent
<1>1. SessionInv /\ ShownInv => SessionConsistent
  <2> SUFFICES ASSUME SessionInv, ShownInv PROVE SessionConsistent
    OBVIOUS
  <2>1. StoppingIsUnderWay
    <3> SUFFICES ASSUME e.status = "stopping",
                        e.media_session \notin MediaEnds \cup {"stopping"}
                 PROVE  \E s \in Sessions : Alive(s) /\ Cancelled(s)
      BY DEF StoppingIsUnderWay
    <3>1. /\ e.active_cast # None /\ e.media_session = "none"
          /\ \A s \in Sessions : Alive(s) => Cancelled(s)
      BY DEF ShownInv, StopReached
    <3>2. PICK s \in Sessions : Alive(s)
      BY <3>1 DEF SessionInv, SessionHasOwner
    <3>3. QED
      BY <3>1, <3>2
  <2>2. QED
    BY <2>1 DEF SessionConsistent, SessionInv, ShownInv
<1>2. SessionInv /\ ShownInv /\ [Next]_vars => ShownInv'
  BY NextOwed DEF Owed
<1>3. QED
  BY <1>1, <1>2, InitShown, SessionInvariant, PTL DEF Spec

(* And no step takes a published stop back while the session is still      *)
(* there, lists a receiver that a scan found after it was ended, or puts   *)
(* up or takes down the sound card under a session (refresh_status, the    *)
(* generation of discovery events, reconcile_audio).                       *)
THEOREM SessionStepsKeepTheirWord == Spec => StepsKeepTheirWord
<1>1. SessionInv /\ ShownInv /\ [Next]_vars => ShownInv'
  BY NextOwed DEF Owed
<1>2. SessionInv /\ ShownInv /\ [Next]_vars
        => [e.status = "stopping" /\ e'.status # "stopping" =>
              (e'.active_cast = None /\ e'.media_session = "none")
              \/ e'.status \in ErrorStatuses]_vars
  BY NextOwed DEF Owed, StopKept
<1>3. SessionInv /\ ShownInv /\ [Next]_vars
        => [~e.discovering =>
              DOMAIN e'.registry \subseteq DOMAIN e.registry]_vars
  BY NextOwed DEF Owed, ScanSilent
<1>4. SessionInv /\ ShownInv /\ [Next]_vars
        => [Loop /\ Running(e') /\ card' # card =>
              card' /\ \E s \in Sessions : tasks[s].phase = "ensuring"]_vars
  BY NextOwed DEF Owed, CardKept
<1>5. Spec => StoppingUntilCleared
  BY <1>1, <1>2, InitShown, SessionInvariant, PTL
     DEF Spec, StoppingUntilCleared
<1>6. Spec => AbortedScanIsSilent
  BY <1>1, <1>3, InitShown, SessionInvariant, PTL
     DEF Spec, AbortedScanIsSilent
<1>7. Spec => CardKeptDuringSession
  BY <1>1, <1>4, InitShown, SessionInvariant, PTL
     DEF Spec, CardKeptDuringSession
<1>8. QED
  BY <1>5, <1>6, <1>7 DEF StepsKeepTheirWord

=============================================================================
