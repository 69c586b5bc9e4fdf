--------------------------- MODULE Playback_proofs ---------------------------
(***************************************************************************)
(* Proofs about FilePlayback, for any items, commands and number of        *)
(* reports; about FileServer, for any connections, requests and sizes; and *)
(* about MediaFiles, for any contents, televisions and requests.           *)
(***************************************************************************)
EXTENDS FilePlayback, MediaFiles, FileServer, FiniteSetTheorems, TLAPS

-----------------------------------------------------------------------------
(* Subsequences. *)

Distinct(s) == \A i, j \in DOMAIN s : s[i] = s[j] => i = j
Elements(s) == {s[i] : i \in DOMAIN s}

Rank(P, i) == Cardinality({j \in P : j <= i})

(* Places differ in rank, so that each rank is some place's.               *)
LEMMA EveryRank ==
    ASSUME NEW P \in SUBSET Nat, IsFiniteSet(P)
    PROVE  \A n \in 1..Cardinality(P) : \E i \in P : Rank(P, i) = n
<1>. DEFINE Below(i) == {j \in P : j <= i}
            rank == [i \in P |-> Rank(P, i)]
            ranks == 1..Cardinality(P)
<1>1. \A i \in P : IsFiniteSet(Below(i)) /\ Rank(P, i) \in ranks
  <2>. TAKE i \in P
  <2>1. Below(i) \in SUBSET P /\ i \in Below(i)
    OBVIOUS
  <2>2. IsFiniteSet(Below(i)) /\ Cardinality(Below(i)) <= Cardinality(P)
    BY <2>1, FS_Subset
  <2>3. Cardinality(Below(i)) \in Nat /\ Cardinality(P) \in Nat
    BY <2>2, FS_CardinalityType
  <2>4. Cardinality(Below(i)) # 0
    BY <2>1, <2>2, FS_EmptySet
  <2>. QED
    BY <2>2, <2>3, <2>4 DEF Rank
<1>2. \A i, j \in P : i < j => Rank(P, i) # Rank(P, j)
  <2>. SUFFICES ASSUME NEW i \in P, NEW j \in P, i < j
                PROVE  Rank(P, i) # Rank(P, j)
    OBVIOUS
  <2>1. Below(i) \in SUBSET Below(j) /\ j \in Below(j) /\ j \notin Below(i)
    <3>1. i \in Nat /\ j \in Nat /\ \A k \in P : k \in Nat
      OBVIOUS
    <3>2. \A k \in Below(i) : k \in Below(j)
      BY <3>1
    <3>3. j <= j /\ ~(j <= i)
      BY <3>1
    <3>. QED
      BY <3>2, <3>3
  <2>. QED
    BY <1>1, <2>1, FS_Subset DEF Rank
<1>3. rank \in Injection(P, ranks)
  <2>1. rank \in [P -> ranks]
    BY <1>1
  <2>2. \A i, j \in P : i # j => rank[i] # rank[j]
    BY <1>2
  <2>. QED
    BY <2>1, <2>2 DEF Injection, IsInjective
<1>4. IsFiniteSet(ranks) /\ Cardinality(ranks) = Cardinality(P)
  <2>1. Cardinality(P) \in Nat
    BY FS_CardinalityType
  <2>. QED
    BY <2>1, FS_Interval
<1>5. rank \in Surjection(P, ranks)
  <2>. HIDE DEF rank, ranks
  <2>. QED
    BY <1>3, <1>4, FS_Injection
<1>. QED
  BY <1>5 DEF Surjection

(* A subsequence has nothing but what stands at its places, once if that   *)
(* is distinct, and begins where the sequence does if it has its head.     *)
LEMMA SubsequenceIs ==
    ASSUME NEW T, NEW s \in Seq(T), NEW P \in SUBSET DOMAIN s,
           NEW t, t = Subsequence(s, P)
    PROVE  /\ t \in Seq(T)
           /\ \A n \in DOMAIN t : \E i \in P : t[n] = s[i]
           /\ (\A i, j \in P : s[i] = s[j] => i = j) => Distinct(t)
           /\ 1 \in P => t # <<>> /\ Head(t) = s[1]
<1>. DEFINE nth(n) == CHOOSE i \in P : Rank(P, i) = n
            count == Cardinality(P)
<1>1. IsFiniteSet(P) /\ count \in Nat /\ P \in SUBSET Nat
  <2>1. DOMAIN s = 1..Len(s) /\ Len(s) \in Nat
    OBVIOUS
  <2>2. IsFiniteSet(1..Len(s))
    BY <2>1, FS_Interval
  <2>. QED
    BY <2>1, <2>2, FS_Subset, FS_CardinalityType
<1>2. \A n \in 1..count : nth(n) \in P /\ Rank(P, nth(n)) = n
  BY <1>1, EveryRank
<1>3. t = [n \in 1..count |-> s[nth(n)]]
  BY DEF Subsequence, Rank
<1>. HIDE DEF nth
<1>4. t \in Seq(T) /\ DOMAIN t = 1..count /\ Len(t) = count
  <2>1. \A n \in 1..count : s[nth(n)] \in T
    BY <1>2
  <2>. QED
    BY <1>1, <1>3, <2>1
<1>5. \A n \in DOMAIN t : \E i \in P : t[n] = s[i]
  BY <1>2, <1>3, <1>4
<1>6. (\A i, j \in P : s[i] = s[j] => i = j) => Distinct(t)
  <2>. SUFFICES ASSUME \A i, j \in P : s[i] = s[j] => i = j,
                       NEW m \in 1..count, NEW n \in 1..count, t[m] = t[n]
                PROVE  m = n
    BY <1>4 DEF Distinct
  <2>1. nth(m) = nth(n)
    BY <1>2, <1>3
  <2>. QED
    BY <1>2, <2>1
<1>7. 1 \in P => t # <<>> /\ Head(t) = s[1]
  <2>. SUFFICES ASSUME 1 \in P
                PROVE  t # <<>> /\ Head(t) = s[1]
    OBVIOUS
  <2>1. count # 0
    BY <1>1, FS_EmptySet
  <2>2. 1 \in 1..count
    BY <1>1, <2>1
  <2>3. {1, nth(1)} \in SUBSET {j \in P : j <= nth(1)}
    BY <1>1, <1>2, <2>2
  <2>4. IsFiniteSet({j \in P : j <= nth(1)}) /\ Cardinality({j \in P : j <= nth(1)}) = 1
    <3>1. {j \in P : j <= nth(1)} \in SUBSET P
      OBVIOUS
    <3>. QED
      BY <1>1, <1>2, <2>2, <3>1, FS_Subset DEF Rank
  <2>5. nth(1) = 1
    <3>. DEFINE Under == {j \in P : j <= nth(1)}
    <3>. HIDE DEF Under
    <3>1. PICK x : Under = {x}
      BY <2>4, FS_Singleton DEF Under
    <3>2. 1 \in Under /\ nth(1) \in Under
      BY <2>3 DEF Under
    <3>. QED
      BY <3>1, <3>2
  <2>. QED
    BY <1>3, <1>4, <2>2, <2>5
<1>. QED
  BY <1>4, <1>5, <1>6, <1>7

(* The same of what `retain` leaves.                                       *)
LEMMA RetainedIs ==
    ASSUME NEW T, NEW s \in Seq(T), NEW kept
    PROVE  /\ Retained(s, kept) \in Seq(T)
           /\ Elements(Retained(s, kept)) \subseteq Elements(s) \cap kept
           /\ Distinct(s) => Distinct(Retained(s, kept))
           /\ s # <<>> /\ Head(s) \in kept =>
                Retained(s, kept) # <<>> /\ Head(Retained(s, kept)) = Head(s)
<1>. DEFINE P == {i \in DOMAIN s : s[i] \in kept}
            t == Subsequence(s, P)
<1>1. P \in SUBSET DOMAIN s /\ Retained(s, kept) = t
  BY DEF Retained
<1>2. s # <<>> => Head(s) = s[1] /\ 1 \in DOMAIN s
  OBVIOUS
<1>3. /\ t \in Seq(T)
      /\ \A n \in DOMAIN t : \E i \in P : t[n] = s[i]
      /\ (\A i, j \in P : s[i] = s[j] => i = j) => Distinct(t)
      /\ 1 \in P => t # <<>> /\ Head(t) = s[1]
  <2>. HIDE DEF P
  <2>. QED
    BY <1>1, SubsequenceIs
<1>4. Distinct(s) => \A i, j \in P : s[i] = s[j] => i = j
  BY DEF Distinct
<1>5. Elements(t) \subseteq Elements(s) \cap kept
  BY <1>3 DEF Elements
<1>6. s # <<>> /\ Head(s) \in kept => 1 \in P
  BY <1>2
<1>. HIDE DEF P, t
<1>. QED
  BY <1>1, <1>2, <1>3, <1>4, <1>5, <1>6

-----------------------------------------------------------------------------
(* The session: what the state is made of. *)

QueueType == [pending : Seq(Items), completed : Nat]
Begun == {"none", "plays", "paused"}
Froms == {"none", "holding", "playing"}
TaskType ==
    [at : Points, from : Froms, hand : Controls \cup {None}, end : Ends, idle : 0..2]
TvType ==
    [on : BOOLEAN, item : Items \cup {None}, end : {"no", "finished", "failed"}, told : BOOLEAN]
Report == [item : Items \cup {None}, end : {"finished", "failed", "closed"}]
Statuses == [item : Items \cup {None}, queue : Seq(Items), paused : BOOLEAN, failed : BOOLEAN]

SessionTypes ==
    /\ left \in Nat /\ mode \in Modes
    /\ queue \in QueueType /\ start \in Begun
    /\ task \in TaskType
    /\ inbox \in Seq(Controls)
    /\ latest \in [SlotNames -> Controls \cup {None}]
    /\ status \in Statuses
    /\ stopping \in BOOLEAN
    /\ asked \in [SlotNames -> Int] /\ done \in [SlotNames -> Int]
    /\ tv \in TvType /\ reports \in Seq(Report)

PageTypes ==
    /\ page \in [chosen : Seq(Items), status : Seq(Items) \cup {None}, generation : Nat,
                 picked : Nat]
    /\ Distinct(page.chosen)
    /\ link \in Seq([queue : Seq(Items) \cup {None}])
    /\ \A p \in picks : p.files \in Seq(Items)

(* Each mode goes its own way: a stream is begun with its item, and only a *)
(* stream holds one back or is waited for.                                 *)
WaysApart ==
    /\ mode \in Streaming =>
         task.at \notin {"connecting", "launching", "loading", "closing"}
    /\ mode \notin Streaming => task.at \notin {"holding", "ending"} /\ task.from # "holding"
    /\ task.at = "launching" => mode = "cast"
    /\ mode # "cast" => reports = <<>>
    /\ task.at \in {"took", "working"} => task.hand # None /\ task.from # "none"
    /\ task.at \in {"none", "connecting", "launching", "loading", "holding", "playing"} =>
         task.from = "none"

-----------------------------------------------------------------------------
(* Seeks and volume. *)

SlotHeld(s) == task.at = "took" /\ SlotOf(task.hand) = s
SlotAt(s, i) == SlotOf(inbox[i]) = s

(* A slot has one place at a time, in the channel or in the task's hand,   *)
(* and something waits in it for as long.                                  *)
OnePlace ==
    \A s \in SlotNames :
        /\ \A i \in DOMAIN inbox : SlotAt(s, i) => latest[s] # None /\ ~SlotHeld(s)
        /\ SlotHeld(s) => latest[s] # None
        /\ \A i, j \in DOMAIN inbox : SlotAt(s, i) /\ SlotAt(s, j) => i = j
        /\ latest[s] # None => SlotOf(latest[s]) = s

SlotInv == OnePlace /\ SeeksAddUp

-----------------------------------------------------------------------------
(* The receiver. *)

(* Nothing plays before the app is launched or while an item is held.      *)
Before ==
    \/ task.at \in {"none", "connecting", "launching", "holding"}
    \/ task.at \in {"took", "working"} /\ task.from = "holding"
NotYetOn == Before => ~tv.on

LeftInv == NotYetOn /\ NothingLeftPlaying

-----------------------------------------------------------------------------
(* The items. *)

AtItem ==
    \/ task.at = "playing"
    \/ task.at \in {"took", "working"} /\ task.from = "playing"
Ahead == Elements(queue.pending)

NeverEmpty ==
    task.at \in {"connecting", "launching", "loading", "holding", "playing", "took", "working"}
        => queue.pending # <<>>

QueueInv ==
    /\ Distinct(queue.pending)
    /\ task.at = "none" => queue.completed = 0
    /\ NeverEmpty

(* The receiver has the head of the queue or what was there before it, and *)
(* a report about what is still ahead is true.                             *)
ReportsTrue ==
    /\ task.at \in {"none", "connecting", "launching"} => tv.item = None /\ reports = <<>>
    /\ AtItem => tv.item = Head(queue.pending)
    /\ tv.item \in Ahead => tv.item = Head(queue.pending)
    /\ task.at = "loading" => tv.item \notin Ahead
    /\ \A i \in DOMAIN reports :
         reports[i].end # "closed" /\ reports[i].item \in Ahead =>
             tv.item = reports[i].item /\ tv.end = reports[i].end

ItemInv == QueueInv /\ ReportsTrue

PlayInv ==
    /\ SessionTypes /\ PageTypes /\ WaysApart
    /\ SlotInv /\ LeftInv /\ ItemInv /\ QueueShownPlays
-----------------------------------------------------------------------------
(* Controls and the two slots. *)

InSlot(c) == c \in [op : Seeks \cup {"volume"}, by : Int]

LEMMA ControlsAre ==
    /\ \A c \in Controls : c # None
    /\ \A c \in Controls : SlotOf(c) \in SlotNames <=> InSlot(c)
    /\ \A c \in Controls : SlotOf(c) \in SlotNames \cup {None}
    /\ \A c \in Controls : SlotOf(c) = None <=> SlotOf(c) \notin SlotNames
    /\ \A i \in Items : [op |-> "remove", item |-> i] \in Controls
    /\ \A c \in Controls : c.op = "remove" => c.item \in Items
<1>. USE MediaAssumption DEF Controls, Seeks, SlotNames
<1>1. \A c \in Controls : c # None
  OBVIOUS
<1>2. \A c \in [op : Seeks \cup {"volume"}, by : Int] :
         SlotOf(c) \in SlotNames /\ InSlot(c) /\ c.op # "remove"
  BY DEF SlotOf, InSlot
<1>3. \A c \in [op : {"next", "toggle"}] : SlotOf(c) = None /\ ~InSlot(c) /\ c.op # "remove"
  BY DEF SlotOf, InSlot
<1>4. \A c \in [op : {"remove"}, item : Items] :
         SlotOf(c) = None /\ ~InSlot(c) /\ c.item \in Items
  BY DEF SlotOf, InSlot
<1>5. \A i \in Items : [op |-> "remove", item |-> i] \in Controls
  OBVIOUS
<1>. QED
  BY <1>1, <1>2, <1>3, <1>4, <1>5

(* Steps that wait in a slot add up to what they would have done in turn.  *)
LEMMA MergeAddsUp ==
    ASSUME NEW earlier, InSlot(earlier), NEW later, InSlot(later),
           SlotOf(earlier) = SlotOf(later), earlier # None
    PROVE  /\ InSlot(Merge(earlier, later))
           /\ SlotOf(Merge(earlier, later)) = SlotOf(later)
           /\ \A at \in Int : Applied(at, Merge(earlier, later)) = Applied(Applied(at, earlier), later)
<1>. USE DEF InSlot, Seeks
<1>1. CASE later.op = "seekBy"
  <2>1. earlier.op \in Seeks
    BY <1>1, MediaAssumption DEF SlotOf, SlotNames
  <2>2. Merge(earlier, later) = [earlier EXCEPT !.by = @ + later.by]
    BY <1>1 DEF Merge
  <2>3. /\ Merge(earlier, later).op = earlier.op
        /\ Merge(earlier, later).by = earlier.by + later.by
        /\ InSlot(Merge(earlier, later))
    BY <2>2
  <2>. QED
    BY <1>1, <2>1, <2>3 DEF SlotOf, Applied
<1>2. CASE later.op # "seekBy"
  BY <1>2 DEF Merge, Applied
<1>. QED
  BY <1>1, <1>2

LEMMA AppliedIs ==
    ASSUME NEW c, InSlot(c), NEW at \in Int
    PROVE  Applied(at, c) \in Int
BY DEF InSlot, Applied

LEMMA NotedIs ==
    ASSUME NEW ledger \in [SlotNames -> Int], NEW c \in Controls
    PROVE  /\ Noted(ledger, c) \in [SlotNames -> Int]
           /\ \A s \in SlotNames : Noted(ledger, c)[s] = With1(ledger[s], c, s)
<1>1. CASE InSlot(c)
  <2>1. SlotOf(c) \in SlotNames /\ SlotOf(c) # None /\ c # None
    BY <1>1, ControlsAre, MediaAssumption
  <2>2. Applied(ledger[SlotOf(c)], c) \in Int
    BY <1>1, <2>1, AppliedIs
  <2>3. Noted(ledger, c) = [ledger EXCEPT ![SlotOf(c)] = Applied(ledger[SlotOf(c)], c)]
    BY <2>1 DEF Noted
  <2>. QED
    BY <2>1, <2>2, <2>3 DEF With1
<1>2. CASE ~InSlot(c)
  BY <1>2, ControlsAre DEF Noted, With1
<1>. QED
  BY <1>1, <1>2

-----------------------------------------------------------------------------
(* How a step ends or goes on. *)

LEMMA Words ==
    /\ {"none", "connecting", "launching", "loading", "holding", "playing", "took", "working",
        "ending", "closing", "over"} \subseteq Points
    /\ {"none", "holding", "playing"} \subseteq Froms
    /\ {"none", "next", "restart", "stop", "ok", "failed"} \subseteq Ends
    /\ 0 \in 0..2 /\ 1 \in 0..2 /\ None \in Controls \cup {None}
BY DEF Points, Froms, Ends

LEMMA FilesTyped ==
    ASSUME NEW s \in Seq(Items)
    PROVE  Files(s) \in Seq(Items)
BY RetainedIs DEF Files

LEMMA PublishedTyped ==
    ASSUME NEW st \in Statuses, NEW q \in QueueType, NEW new \in BOOLEAN,
           new => q.pending # <<>>
    PROVE  Published(st, q, new) \in Statuses
<1>1. Files(q.pending) \in Seq(Items)
  BY FilesTyped DEF QueueType
<1>2. [st EXCEPT !.queue = Files(q.pending)] \in Statuses
  BY <1>1 DEF Statuses
<1>3. q.pending # <<>> => Head(q.pending) \in Items
  BY DEF QueueType
<1>. QED
  BY <1>2, <1>3 DEF Published, Statuses

LEMMA AdvancedIs ==
    ASSUME NEW q \in QueueType
    PROVE  /\ Advanced(q) \in QueueType
           /\ Elements(Advanced(q).pending) \subseteq Elements(q.pending)
           /\ Distinct(q.pending) => Distinct(Advanced(q).pending)
           /\ Distinct(q.pending) /\ q.pending # <<>> =>
                Head(q.pending) \notin Elements(Advanced(q).pending)
<1>1. CASE q.pending = <<>>
  BY <1>1 DEF Advanced
<1>2. CASE q.pending # <<>>
  <2>. DEFINE s == q.pending
  <2>1. s \in Seq(Items) /\ Advanced(q).pending = Tail(s) /\ Advanced(q) \in QueueType
    BY <1>2 DEF Advanced, QueueType
  <2>2. /\ DOMAIN s = 1..Len(s) /\ Len(s) \in Nat \ {0} /\ Head(s) = s[1]
        /\ DOMAIN Tail(s) = 1..(Len(s) - 1)
        /\ \A i \in DOMAIN Tail(s) : Tail(s)[i] = s[i + 1] /\ i + 1 \in DOMAIN s /\ i \in Nat
    BY <1>2, <2>1
  <2>3. Elements(Tail(s)) \subseteq Elements(s)
    BY <2>2 DEF Elements
  <2>4. Distinct(s) => Distinct(Tail(s))
    <3>. SUFFICES ASSUME Distinct(s), NEW i \in DOMAIN Tail(s), NEW j \in DOMAIN Tail(s),
                         Tail(s)[i] = Tail(s)[j]
                  PROVE  i = j
      BY DEF Distinct
    <3>1. i + 1 = j + 1
      BY <2>2 DEF Distinct
    <3>. QED
      BY <2>2, <3>1
  <2>5. Distinct(s) => Head(s) \notin Elements(Tail(s))
    <3>. SUFFICES ASSUME Distinct(s), NEW i \in DOMAIN Tail(s), s[1] = Tail(s)[i]
                  PROVE  FALSE
      BY <2>2 DEF Elements
    <3>1. 1 = i + 1 /\ i \in 1..(Len(s) - 1)
      BY <2>2 DEF Distinct
    <3>. QED
      BY <2>2, <3>1
  <2>. QED
    BY <1>2, <2>1, <2>3, <2>4, <2>5
<1>. QED
  BY <1>1, <1>2

(* An edit that does not end the item keeps it; one that does drops it.    *)
LEMMA EditedIs ==
    ASSUME NEW q \in QueueType, NEW c \in Controls
    PROVE  /\ Edited(q, c) \in QueueType
           /\ Elements(Edited(q, c).pending) \subseteq Elements(q.pending)
           /\ Distinct(q.pending) => Distinct(Edited(q, c).pending)
           /\ q.pending # <<>> /\ ~EndsItem(q, c) =>
                /\ Edited(q, c).pending # <<>>
                /\ Head(Edited(q, c).pending) = Head(q.pending)
           /\ Distinct(q.pending) /\ q.pending # <<>> /\ EndsItem(q, c) =>
                Head(q.pending) \notin Elements(Edited(q, c).pending)
<1>1. CASE c.op = "next"
  BY <1>1, AdvancedIs DEF Edited, EndsItem
<1>2. CASE c.op = "remove" /\ c.item \notin Urls
  <2>. DEFINE s == q.pending
              t == Retained(s, Items \ {c.item})
  <2>1. s \in Seq(Items) /\ Edited(q, c) = [q EXCEPT !.pending = t]
    BY <1>2 DEF Edited, QueueType
  <2>2. /\ t \in Seq(Items)
        /\ Elements(t) \subseteq Elements(s) \cap (Items \ {c.item})
        /\ Distinct(s) => Distinct(t)
        /\ s # <<>> /\ Head(s) \in Items \ {c.item} => t # <<>> /\ Head(t) = Head(s)
    BY <2>1, RetainedIs
  <2>3. Edited(q, c).pending = t /\ Edited(q, c) \in QueueType
    BY <2>1, <2>2 DEF QueueType
  <2>4. s # <<>> => Head(s) \in Items
    BY <2>1
  <2>5. EndsItem(q, c) <=> s # <<>> /\ Head(s) = c.item
    BY <1>2 DEF EndsItem
  <2>. QED
    BY <2>2, <2>3, <2>4, <2>5
<1>3. CASE c.op # "next" /\ ~(c.op = "remove" /\ c.item \notin Urls)
  BY <1>3 DEF Edited, EndsItem
<1>. QED
  BY <1>1, <1>2, <1>3

LEMMA OverIs ==
    ASSUME task \in TaskType, NEW st \in Statuses, NEW end \in Ends, Over(end, st)
    PROVE  /\ task' \in TaskType /\ status' \in Statuses /\ inbox' = <<>>
           /\ task'.at = "over" /\ task'.from = "none" /\ task'.hand = None
           /\ status'.failed = (end = "failed")
<1>1. /\ task' = [task EXCEPT !.at = "over", !.end = end, !.from = "none", !.hand = None,
                             !.idle = 0]
      /\ status' = [st EXCEPT !.failed = (end = "failed")] /\ inbox' = <<>>
  BY DEF Over, Finished
<1>2. task' \in TaskType /\ task'.at = "over" /\ task'.from = "none" /\ task'.hand = None
  BY <1>1, Words DEF TaskType
<1>3. status' \in Statuses /\ status'.failed = (end = "failed")
  BY <1>1 DEF Statuses
<1>. QED
  BY <1>1, <1>2, <1>3

LEMMA ReturnsIs ==
    ASSUME task \in TaskType, NEW st \in Statuses, NEW end \in Ends, Returns(end, st)
    PROVE  /\ task' \in TaskType /\ status' \in Statuses /\ inbox' = <<>>
           /\ task'.at = IF mode \in Streaming THEN "over" ELSE "closing"
           /\ task'.from = "none" /\ task'.hand = None
<1>1. CASE mode \in Streaming
  BY <1>1, OverIs DEF Returns
<1>2. CASE mode \notin Streaming
  <2>1. /\ task' = [task EXCEPT !.at = "closing", !.end = end, !.from = "none", !.hand = None,
                               !.idle = 0]
        /\ status' = st /\ inbox' = <<>>
    BY <1>2 DEF Returns
  <2>2. task' \in TaskType /\ task'.at = "closing" /\ task'.from = "none" /\ task'.hand = None
    BY <2>1, Words DEF TaskType
  <2>. QED
    BY <1>2, <2>1, <2>2
<1>. QED
  BY <1>1, <1>2

(* The head of the loop ends the queue or has its first item.              *)
Returned ==
    /\ inbox' = <<>> /\ task'.from = "none" /\ task'.hand = None
    /\ \/ task'.at = "closing" /\ mode \notin Streaming /\ UNCHANGED tv
       \/ task'.at = "over" /\ mode \in Streaming /\ tv' = Away
FirstItem(q) ==
    /\ q.pending # <<>> /\ UNCHANGED inbox /\ task'.from = "none" /\ task'.hand = None
    /\ \/ task'.at = "loading" /\ mode \notin Streaming /\ UNCHANGED tv
       \/ task'.at = "holding" /\ mode \in Streaming /\ tv' = Away
       \/ /\ task'.at = "playing" /\ mode \in Streaming
          /\ tv' = [Away EXCEPT !.on = TRUE, !.item = Head(q.pending)]

LEMMA TurnIs ==
    ASSUME task \in TaskType, tv \in TvType, NEW st \in Statuses, NEW q \in QueueType,
           NEW begin, Turn(q, begin, st)
    PROVE  /\ task' \in TaskType /\ status' \in Statuses /\ tv' \in TvType
           /\ Returned \/ FirstItem(q)
<1>. DEFINE held == mode \in Streaming /\ begin = "paused"
            stream == mode \in Streaming /\ ~held /\ ~stopping /\ q.pending # <<>>
<1>1. tv' = IF stream THEN [Away EXCEPT !.on = TRUE, !.item = Head(q.pending)]
            ELSE IF mode \in Streaming THEN Away ELSE tv
  BY DEF Turn
<1>2. q.pending # <<>> => Head(q.pending) \in Items
  BY DEF QueueType
<1>3. tv' \in TvType
  BY <1>1, <1>2 DEF TvType, Away
<1>4. CASE q.pending = <<>> \/ stopping
  <2>1. Returns("ok", st)
    BY <1>4 DEF Turn
  <2>2. /\ task' \in TaskType /\ status' \in Statuses /\ inbox' = <<>>
        /\ task'.at = IF mode \in Streaming THEN "over" ELSE "closing"
        /\ task'.from = "none" /\ task'.hand = None
    BY <2>1, ReturnsIs, Words
  <2>. QED
    BY <1>1, <1>3, <1>4, <2>2 DEF Returned
<1>5. CASE ~(q.pending = <<>> \/ stopping)
  <2>1. /\ status' = [Published(st, q, TRUE) EXCEPT !.paused = held]
        /\ task' = [task EXCEPT !.at = IF held THEN "holding"
                                       ELSE IF stream THEN "playing" ELSE "loading",
                                !.from = "none", !.hand = None, !.end = "none", !.idle = 0]
        /\ UNCHANGED inbox
    BY <1>5 DEF Turn
  <2>2. status' \in Statuses
    BY <1>5, <2>1, PublishedTyped DEF Statuses
  <2>3. /\ task' \in TaskType /\ task'.from = "none" /\ task'.hand = None
        /\ task'.at = IF held THEN "holding" ELSE IF stream THEN "playing" ELSE "loading"
    BY <2>1, Words DEF TaskType
  <2>. QED
    BY <1>1, <1>3, <1>5, <2>1, <2>2, <2>3 DEF FirstItem
<1>. QED
  BY <1>4, <1>5

LEMMA MovesOnIs ==
    ASSUME task \in TaskType, tv \in TvType, NEW st \in Statuses, NEW q \in QueueType,
           start \in Begun, MovesOn(q, st)
    PROVE  /\ queue' = q /\ start' \in Begun
           /\ task' \in TaskType /\ status' \in Statuses /\ tv' \in TvType
           /\ Returned \/ FirstItem(q)
BY TurnIs DEF MovesOn, NextStart, Begun

-----------------------------------------------------------------------------
(* Types. *)

SessionNext ==
    \/ \E files \in Seq(Items), begin \in Begun : Distinct(files) /\ Begin(files, begin)
    \/ \E c \in Controls : Command(c)
    \/ Stop \/ Task \/ Receiver

(* What has to do with commands, and what else the task does.              *)
Ordering == Receives \/ Takes \/ HeldWorks \/ Restarts \/ \E p \in BOOLEAN : Answered(p)
Reaching == Connects \/ ConnectFails \/ ConnectCancelled \/ Launches \/ Loads \/ Refused
Ending == Cancelled \/ Closes \/ StreamEnds \/ StreamCancelled \/ StreamStops
Watching == Hears \/ Polls \/ PhotoShown \/ UpnpPolls

LEMMA SessionGroups ==
    ASSUME SessionTypes, SessionNext
    PROVE  \/ \E files \in Seq(Items), begin \in Begun : Distinct(files) /\ Begin(files, begin)
           \/ \E c \in Controls : Command(c)
           \/ Stop \/ Ordering \/ Reaching \/ Ending \/ Watching \/ Receiver
<1>1. ASSUME Task
      PROVE  Ordering \/ Reaching \/ Ending \/ Watching
  <2>1. status.paused \in BOOLEAN
    BY DEF SessionTypes, Statuses
  <2>2. Toggled \subseteq BOOLEAN
    BY <2>1 DEF Toggled
  <2>3. CastControls \/ UpnpControls \/ StreamControls => \E p \in BOOLEAN : Answered(p)
    BY <2>2 DEF CastControls, UpnpControls, StreamControls
  <2>. QED
    BY <1>1, <2>3 DEF Task, Ordering, Reaching, Ending, Watching
<1>. QED
  BY <1>1 DEF SessionNext

LEMMA CommandTyped ==
    ASSUME SessionTypes, OnePlace, NEW c \in Controls, Command(c)
    PROVE  SessionTypes'
<1>. DEFINE s == SlotOf(c)
<1>1. UNCHANGED <<mode, queue, start, task, status, stopping, done, tv, reports>>
  BY DEF Command
<1>2. left \in Nat /\ left > 0 /\ left' = left - 1
  BY DEF Command, SessionTypes
<1>3. Noted(asked, c) \in [SlotNames -> Int]
  BY NotedIs DEF SessionTypes
<1>4. s \in SlotNames \cup {None} /\ (s # None => s \in SlotNames /\ InSlot(c))
  BY ControlsAre
<1>5. CASE Coalesced(c)
  <2>1. s \in SlotNames /\ latest[s] # None /\ latest' = [latest EXCEPT ![s] = Merge(latest[s], c)]
        /\ UNCHANGED inbox /\ asked' = Noted(asked, c)
    BY <1>4, <1>5 DEF Coalesced
  <2>2. latest[s] \in Controls /\ SlotOf(latest[s]) = s
    BY <2>1 DEF SessionTypes, OnePlace
  <2>3. InSlot(Merge(latest[s], c))
    BY <1>4, <2>1, <2>2, ControlsAre, MergeAddsUp
  <2>4. Merge(latest[s], c) \in Controls
    BY <2>3 DEF InSlot, Controls
  <2>. QED
    BY <1>1, <1>2, <1>3, <2>1, <2>4 DEF SessionTypes
<1>6. CASE Queued(c)
  BY <1>1, <1>2, <1>3, <1>4, <1>6 DEF Queued, SessionTypes
<1>7. CASE Busy(c)
  BY <1>1, <1>2, <1>4, <1>7 DEF Busy, SessionTypes
<1>. QED
  BY <1>5, <1>6, <1>7 DEF Command

LEMMA TakesIs ==
    ASSUME SessionTypes, OnePlace, WaysApart, NeverEmpty, Takes
    PROVE  \E c \in Controls :
             LET q == Edited(queue, c)
                 s == SlotOf(task.hand)
             IN /\ SlotOf(c) = s
                /\ s \in SlotNames => c = latest[s]
                /\ s \notin SlotNames => c = task.hand
                /\ latest' = IF s = None THEN latest ELSE [latest EXCEPT ![s] = None]
                /\ queue' = q /\ start' \in Begun /\ status' \in Statuses /\ tv' \in TvType
                /\ task' \in TaskType
                /\ \/ /\ EndsItem(queue, c)
                      /\ Returned \/ FirstItem(q)
                   \/ /\ EndsItem(queue, c) /\ mode \in Streaming /\ task.from = "playing"
                      /\ task'.at = "ending" /\ task'.end = "next" /\ task'.from = "none"
                      /\ UNCHANGED <<inbox, tv>>
                   \/ /\ ~EndsItem(queue, c) /\ UNCHANGED <<inbox, tv>>
                      /\ task'.at = "working" /\ task'.hand = c /\ task'.from = task.from
                /\ UNCHANGED <<left, mode, stopping, asked, done, reports>>
<1>. DEFINE s == SlotOf(task.hand)
            c == IF s # None /\ latest[s] # None THEN latest[s] ELSE task.hand
            q == Edited(queue, c)
            st == Published(status, q, FALSE)
<1>1. task \in TaskType /\ tv \in TvType /\ queue \in QueueType /\ start \in Begun
      /\ status \in Statuses /\ latest \in [SlotNames -> Controls \cup {None}]
  BY DEF SessionTypes
<1>2. task.at = "took" /\ task.hand \in Controls /\ task.hand # None
  BY <1>1 DEF Takes, WaysApart, TaskType
<1>3. s \in SlotNames \cup {None} /\ (s = None <=> s \notin SlotNames)
  BY <1>2, ControlsAre
<1>4. s \in SlotNames => latest[s] # None /\ SlotOf(latest[s]) = s /\ latest[s] \in Controls
  BY <1>1, <1>2 DEF OnePlace, SlotHeld
<1>5. c \in Controls /\ SlotOf(c) = s /\ (s \in SlotNames => c = latest[s])
      /\ (s \notin SlotNames => c = task.hand)
  BY <1>2, <1>3, <1>4
<1>6. q \in QueueType
  BY <1>1, <1>5, EditedIs
<1>7. st \in Statuses
  BY <1>1, <1>6, PublishedTyped
<1>8. /\ latest' = IF s = None THEN latest ELSE [latest EXCEPT ![s] = None]
      /\ UNCHANGED <<left, mode, stopping, asked, done, reports>>
  BY DEF Takes
<1>9. \/ EndsItem(queue, c) /\ MovesOn(q, st)
      \/ /\ EndsItem(queue, c) /\ mode \in Streaming /\ task.from = "playing"
         /\ queue' = q /\ status' = st
         /\ task' = [task EXCEPT !.at = "ending", !.end = "next", !.from = "none"]
         /\ UNCHANGED <<start, inbox, tv>>
      \/ /\ ~EndsItem(queue, c) /\ queue' = q /\ status' = st
         /\ task' = [task EXCEPT !.at = "working", !.hand = c]
         /\ UNCHANGED <<start, inbox, tv>>
  BY DEF Takes
<1>. HIDE DEF c, q, st, s
<1>10. CASE EndsItem(queue, c) /\ MovesOn(q, st)
  <2>1. /\ queue' = q /\ start' \in Begun
        /\ task' \in TaskType /\ status' \in Statuses /\ tv' \in TvType
        /\ Returned \/ FirstItem(q)
    BY <1>1, <1>6, <1>7, <1>10, MovesOnIs
  <2>. QED
    BY <1>5, <1>8, <1>10, <2>1 DEF q, s
<1>11. CASE /\ EndsItem(queue, c) /\ mode \in Streaming /\ task.from = "playing"
            /\ queue' = q /\ status' = st
            /\ task' = [task EXCEPT !.at = "ending", !.end = "next", !.from = "none"]
            /\ UNCHANGED <<start, inbox, tv>>
  <2>1. task' \in TaskType /\ task'.at = "ending" /\ task'.end = "next" /\ task'.from = "none"
    BY <1>1, <1>11, Words DEF TaskType
  <2>. QED
    BY <1>1, <1>5, <1>7, <1>8, <1>11, <2>1 DEF q, s
<1>12. CASE /\ ~EndsItem(queue, c) /\ queue' = q /\ status' = st
            /\ task' = [task EXCEPT !.at = "working", !.hand = c]
            /\ UNCHANGED <<start, inbox, tv>>
  <2>1. task' \in TaskType /\ task'.at = "working" /\ task'.hand = c /\ task'.from = task.from
    BY <1>1, <1>5, <1>12, Words DEF TaskType
  <2>. QED
    BY <1>1, <1>5, <1>7, <1>8, <1>12, <2>1 DEF q, s
<1>. QED
  BY <1>9, <1>10, <1>11, <1>12

LEMMA SeqStays ==
    ASSUME NEW T, NEW s \in Seq(T)
    PROVE  /\ \A x \in T : Append(s, x) \in Seq(T)
           /\ s # <<>> => Tail(s) \in Seq(T) /\ Head(s) \in T
OBVIOUS

LEMMA InboxTyped ==
    ASSUME SessionTypes, inbox' = inbox \/ inbox' = <<>>
    PROVE  inbox' \in Seq(Controls)
<1>1. <<>> \in Seq(Controls)
  OBVIOUS
<1>2. inbox \in Seq(Controls)
  BY DEF SessionTypes
<1>. QED
  BY <1>1, <1>2

LEMMA BeginTyped ==
    ASSUME SessionTypes, NEW files \in Seq(Items), NEW begin \in Begun, Begin(files, begin)
    PROVE  SessionTypes'
<1>. DEFINE q == [pending |-> files, completed |-> 0]
            st == [status EXCEPT !.queue = Files(files)]
<1>1. q \in QueueType
  BY DEF QueueType
<1>2. Files(files) \in Seq(Items)
  BY FilesTyped
<1>3. st \in Statuses
  BY <1>2 DEF SessionTypes, Statuses
<1>4. /\ queue' = q /\ start' = begin
      /\ UNCHANGED <<left, mode, latest, stopping, asked, done, reports>>
      /\ \/ Turn(q, begin, st)
         \/ /\ task' = [task EXCEPT !.at = "connecting"]
            /\ status' = st /\ UNCHANGED <<inbox, tv>>
  BY DEF Begin
<1>. HIDE DEF q, st
<1>5. CASE Turn(q, begin, st)
  <2>1. /\ task' \in TaskType /\ status' \in Statuses /\ tv' \in TvType
        /\ inbox' = inbox \/ inbox' = <<>>
    BY <1>1, <1>3, <1>5, TurnIs DEF SessionTypes, Returned, FirstItem
  <2>2. inbox' \in Seq(Controls)
    BY <2>1, InboxTyped
  <2>. QED
    BY <1>1, <1>4, <2>1, <2>2 DEF SessionTypes
<1>6. CASE /\ task' = [task EXCEPT !.at = "connecting"]
           /\ status' = st /\ UNCHANGED <<inbox, tv>>
  <2>1. task' \in TaskType
    BY <1>6, Words DEF SessionTypes, TaskType
  <2>. QED
    BY <1>1, <1>3, <1>4, <1>6, <2>1 DEF SessionTypes
<1>. QED
  BY <1>4, <1>5, <1>6

LEMMA OrderingTyped ==
    ASSUME SessionTypes, OnePlace, WaysApart, NeverEmpty, Ordering
    PROVE  SessionTypes'
<1>1. CASE Receives
  <2>1. inbox # <<>> /\ inbox \in Seq(Controls)
    BY <1>1 DEF Receives, SessionTypes
  <2>2. Head(inbox) \in Controls /\ Tail(inbox) \in Seq(Controls)
    BY <2>1
  <2>3. task.at \in Froms
    BY <1>1, Words DEF Receives
  <2>4. task' \in TaskType
    BY <1>1, <2>2, <2>3, Words DEF Receives, SessionTypes, TaskType
  <2>. QED
    BY <1>1, <2>2, <2>4 DEF Receives, SessionTypes
<1>2. CASE Takes
  <2>1. PICK c \in Controls :
          /\ latest' \in {latest, [latest EXCEPT ![SlotOf(task.hand)] = None]}
          /\ queue' = Edited(queue, c) /\ start' \in Begun /\ status' \in Statuses
          /\ tv' \in TvType /\ task' \in TaskType /\ (inbox' = inbox \/ inbox' = <<>>)
          /\ UNCHANGED <<left, mode, stopping, asked, done, reports>>
    BY <1>2, TakesIs DEF SessionTypes, Returned, FirstItem
  <2>2. queue' \in QueueType
    BY <2>1, EditedIs DEF SessionTypes
  <2>3. latest' \in [SlotNames -> Controls \cup {None}]
    BY <2>1 DEF SessionTypes
  <2>4. inbox' \in Seq(Controls)
    BY <2>1, InboxTyped
  <2>. QED
    BY <2>1, <2>2, <2>3, <2>4 DEF SessionTypes
<1>3. ASSUME task.at = "working"
      PROVE  /\ task.hand \in Controls /\ Noted(done, task.hand) \in [SlotNames -> Int]
             /\ Head(queue.pending) \in Items
  <2>1. task.hand \in Controls
    BY <1>3 DEF WaysApart, SessionTypes, TaskType
  <2>2. queue.pending # <<>> /\ queue.pending \in Seq(Items)
    BY <1>3 DEF SessionTypes, NeverEmpty, QueueType
  <2>3. Noted(done, task.hand) \in [SlotNames -> Int]
    BY <2>1, NotedIs DEF SessionTypes
  <2>. QED
    BY <2>1, <2>2, <2>3
<1>4. CASE HeldWorks
  <2>1. /\ done' = Noted(done, task.hand) /\ task.at = "working"
        /\ UNCHANGED <<left, mode, queue, inbox, latest, stopping, asked, reports>>
    BY <1>4 DEF HeldWorks
  <2>2. CASE task.hand.op = "toggle"
    <3>1. /\ task' = [task EXCEPT !.at = "playing", !.from = "none", !.hand = None]
          /\ tv' = [Away EXCEPT !.on = TRUE, !.item = Head(queue.pending)]
          /\ start' = "plays" /\ status' = [status EXCEPT !.paused = FALSE]
      BY <1>4, <2>2 DEF HeldWorks
    <3>2. task' \in TaskType
      BY <3>1, Words DEF SessionTypes, TaskType
    <3>3. tv' \in TvType
      BY <1>3, <2>1, <3>1 DEF TvType, Away
    <3>4. status' \in Statuses /\ start' \in Begun
      BY <3>1 DEF SessionTypes, Statuses, Begun
    <3>. QED
      BY <1>3, <2>1, <3>2, <3>3, <3>4 DEF SessionTypes
  <2>3. CASE task.hand.op # "toggle"
    <3>1. /\ task' = [task EXCEPT !.at = "holding", !.from = "none", !.hand = None]
          /\ UNCHANGED <<tv, start>> /\ status' = [status EXCEPT !.paused = TRUE]
      BY <1>4, <2>3 DEF HeldWorks
    <3>2. task' \in TaskType
      BY <3>1, Words DEF SessionTypes, TaskType
    <3>3. status' \in Statuses
      BY <3>1 DEF SessionTypes, Statuses
    <3>. QED
      BY <1>3, <2>1, <3>1, <3>2, <3>3 DEF SessionTypes
  <2>. QED
    BY <2>2, <2>3
<1>5. CASE Restarts
  <2>1. task' = [task EXCEPT !.at = "ending", !.end = "restart", !.hand = None]
        /\ start' \in Begun /\ done' = Noted(done, task.hand) /\ task.at = "working"
        /\ UNCHANGED <<left, mode, queue, inbox, latest, status, stopping, asked, tv, reports>>
    BY <1>5 DEF Restarts, Begun
  <2>2. task' \in TaskType
    BY <2>1, Words DEF SessionTypes, TaskType
  <2>. QED
    BY <1>3, <2>1, <2>2 DEF SessionTypes
<1>6. ASSUME NEW p \in BOOLEAN, Answered(p)
      PROVE  SessionTypes'
  <2>1. task' = [task EXCEPT !.at = "playing", !.from = "none", !.hand = None]
        /\ status' = [status EXCEPT !.paused = p] /\ done' = Noted(done, task.hand)
        /\ task.at = "working"
        /\ UNCHANGED <<left, mode, queue, start, inbox, latest, stopping, asked, tv, reports>>
    BY <1>6 DEF Answered
  <2>2. task' \in TaskType
    BY <2>1, Words DEF SessionTypes, TaskType
  <2>3. status' \in Statuses
    BY <2>1 DEF SessionTypes, Statuses
  <2>. QED
    BY <1>3, <2>1, <2>2, <2>3 DEF SessionTypes
<1>. QED
  BY <1>1, <1>2, <1>4, <1>5, <1>6 DEF Ordering

(* What every other step of the task leaves alone, and how it ends.        *)
Elsewhere ==
    /\ task' \in TaskType /\ status' \in Statuses /\ tv' \in TvType /\ queue' \in QueueType
    /\ start' \in Begun /\ reports' \in Seq(Report) /\ inbox' \in {inbox, <<>>}
    /\ task'.at # "took"
    /\ task'.at = "working" => task.at = "working" /\ task'.hand = task.hand
    /\ UNCHANGED <<left, mode, latest, stopping, asked, done>>

LEMMA ReachingIs ==
    ASSUME SessionTypes, NeverEmpty, Reaching
    PROVE  Elsewhere
<1>. USE DEF SessionTypes
<1>1. CASE Connects
  <2>1. CASE mode = "cast"
    <3>1. task' = [task EXCEPT !.at = "launching"] /\ UNCHANGED <<inbox, status, tv>>
      BY <1>1, <2>1 DEF Connects
    <3>2. task' \in TaskType /\ task'.at = "launching"
      BY <3>1, Words DEF TaskType
    <3>. QED
      BY <1>1, <3>1, <3>2 DEF Connects, Elsewhere
  <2>2. CASE mode # "cast"
    <3>1. Turn(queue, start, status)
      BY <1>1, <2>2 DEF Connects
    <3>2. /\ task' \in TaskType /\ status' \in Statuses /\ tv' \in TvType
          /\ Returned \/ FirstItem(queue)
      BY <3>1, TurnIs
    <3>. QED
      BY <1>1, <3>2 DEF Connects, Elsewhere, Returned, FirstItem
  <2>. QED
    BY <2>1, <2>2
<1>2. CASE ConnectFails \/ ConnectCancelled
  <2>1. /\ \E end \in Ends : Over(end, status)
        /\ UNCHANGED <<left, mode, queue, start, latest, stopping, asked, done, tv, reports>>
    BY <1>2, Words DEF ConnectFails, ConnectCancelled
  <2>. QED
    BY <2>1, OverIs DEF Elsewhere
<1>3. CASE Launches
  <2>1. tv' \in {tv, [tv EXCEPT !.on = TRUE]}
        /\ UNCHANGED <<left, mode, queue, start, latest, stopping, asked, done, reports>>
    BY <1>3 DEF Launches
  <2>2. tv' \in TvType
    BY <2>1 DEF TvType
  <2>3. \/ Returns("ok", status) \/ Over("failed", status)
        \/ task' = [task EXCEPT !.at = "loading"]
           /\ status' = Published(status, queue, TRUE) /\ UNCHANGED inbox
    BY <1>3 DEF Launches
  <2>4. CASE Returns("ok", status)
    BY <2>1, <2>2, <2>4, ReturnsIs, Words DEF Elsewhere
  <2>5. CASE Over("failed", status)
    BY <2>1, <2>2, <2>5, OverIs, Words DEF Elsewhere
  <2>6. CASE task' = [task EXCEPT !.at = "loading"]
           /\ status' = Published(status, queue, TRUE) /\ UNCHANGED inbox
    <3>1. task' \in TaskType /\ task'.at = "loading"
      BY <2>6, Words DEF TaskType
    <3>2. status' \in Statuses
      BY <1>3, <2>6, PublishedTyped DEF Launches, NeverEmpty
    <3>. QED
      BY <2>1, <2>2, <2>6, <3>1, <3>2 DEF Elsewhere
  <2>. QED
    BY <2>3, <2>4, <2>5, <2>6
<1>4. CASE Loads
  <2>1. /\ task' = [task EXCEPT !.at = "playing"]
        /\ status' = [status EXCEPT !.paused = (mode = "cast" /\ start = "paused")]
        /\ tv' = [Away EXCEPT !.on = TRUE, !.item = Head(queue.pending)]
        /\ UNCHANGED <<left, mode, queue, start, inbox, latest, stopping, asked, done, reports>>
    BY <1>4 DEF Loads
  <2>2. task' \in TaskType /\ task'.at = "playing"
    BY <2>1, Words DEF TaskType
  <2>3. status' \in Statuses
    BY <2>1 DEF Statuses
  <2>4. Head(queue.pending) \in Items
    BY <1>4 DEF Loads, NeverEmpty, QueueType
  <2>5. tv' \in TvType
    BY <2>1, <2>4 DEF TvType, Away
  <2>. QED
    BY <2>1, <2>2, <2>3, <2>5 DEF Elsewhere
<1>5. CASE Refused
  <2>1. /\ Returns("failed", status)
        /\ tv' \in {tv, [tv EXCEPT !.on = TRUE, !.told = FALSE]}
        /\ UNCHANGED <<left, mode, queue, start, latest, stopping, asked, done, reports>>
    BY <1>5 DEF Refused
  <2>2. tv' \in TvType
    BY <2>1 DEF TvType
  <2>. QED
    BY <2>1, <2>2, ReturnsIs, Words DEF Elsewhere
<1>. QED
  BY <1>1, <1>2, <1>3, <1>4, <1>5 DEF Reaching

LEMMA EndingIs ==
    ASSUME SessionTypes, WaysApart, Ending
    PROVE  Elsewhere
<1>. USE DEF SessionTypes
<1>1. CASE Cancelled
  <2>1. /\ Returns("ok", status)
        /\ UNCHANGED <<left, mode, queue, start, latest, stopping, asked, done, tv, reports>>
    BY <1>1 DEF Cancelled
  <2>. QED
    BY <2>1, ReturnsIs, Words DEF Elsewhere
<1>2. CASE Closes
  <2>1. /\ \E end \in Ends : Over(end, status)
        /\ tv' \in {[tv EXCEPT !.on = FALSE, !.told = TRUE], [tv EXCEPT !.told = TRUE]}
        /\ UNCHANGED <<left, mode, queue, start, latest, stopping, asked, done, reports>>
    BY <1>2, Words DEF Closes, TaskType
  <2>2. tv' \in TvType
    BY <2>1 DEF TvType
  <2>. QED
    BY <2>1, <2>2, OverIs DEF Elsewhere
<1>3. Away \in TvType
  BY DEF Away, TvType
<1>4. CASE StreamEnds
  <2>1. CASE tv.end = "finished"
    <3>1. MovesOn(Advanced(queue), status)
          /\ UNCHANGED <<left, mode, latest, stopping, asked, done, reports>>
      BY <1>4, <2>1 DEF StreamEnds
    <3>2. Advanced(queue) \in QueueType
      BY AdvancedIs
    <3>3. /\ queue' = Advanced(queue) /\ start' \in Begun
          /\ task' \in TaskType /\ status' \in Statuses /\ tv' \in TvType
          /\ Returned \/ FirstItem(Advanced(queue))
      BY <3>1, <3>2, MovesOnIs
    <3>. QED
      BY <3>1, <3>2, <3>3 DEF Elsewhere, Returned, FirstItem
  <2>2. CASE tv.end # "finished"
    <3>1. /\ Over("failed", status) /\ tv' = Away
          /\ UNCHANGED <<queue, start, left, mode, latest, stopping, asked, done, reports>>
      BY <1>4, <2>2 DEF StreamEnds
    <3>. QED
      BY <1>3, <3>1, OverIs, Words DEF Elsewhere
  <2>. QED
    BY <2>1, <2>2
<1>5. CASE StreamCancelled
  <2>1. /\ task' = [task EXCEPT !.at = "ending", !.end = "stop"]
        /\ UNCHANGED <<left, mode, queue, start, inbox, latest, status, stopping, asked, done,
                       tv, reports>>
    BY <1>5 DEF StreamCancelled
  <2>2. task' \in TaskType /\ task'.at = "ending"
    BY <2>1, Words DEF TaskType
  <2>. QED
    BY <2>1, <2>2 DEF Elsewhere
<1>6. CASE StreamStops
  <2>1. UNCHANGED <<left, mode, latest, stopping, asked, done, reports>>
    BY <1>6 DEF StreamStops
  <2>2. \/ \E end \in Ends : Over(end, status) /\ tv' = Away /\ UNCHANGED <<queue, start>>
        \/ MovesOn(queue, status)
        \/ Turn(queue, start, status) /\ UNCHANGED <<queue, start>>
    BY <1>6, Words DEF StreamStops
  <2>3. CASE \E end \in Ends : Over(end, status) /\ tv' = Away /\ UNCHANGED <<queue, start>>
    BY <1>3, <2>1, <2>3, OverIs DEF Elsewhere
  <2>4. CASE MovesOn(queue, status)
    BY <2>1, <2>4, MovesOnIs DEF Elsewhere, Returned, FirstItem
  <2>5. CASE Turn(queue, start, status) /\ UNCHANGED <<queue, start>>
    BY <2>1, <2>5, TurnIs DEF Elsewhere, Returned, FirstItem
  <2>. QED
    BY <2>2, <2>3, <2>4, <2>5
<1>. QED
  BY <1>1, <1>2, <1>4, <1>5, <1>6 DEF Ending

LEMMA WatchingIs ==
    ASSUME SessionTypes, NeverEmpty, Watching
    PROVE  Elsewhere
<1>. USE DEF SessionTypes
<1>1. /\ UNCHANGED <<left, mode, latest, stopping, asked, done>>
      /\ \/ reports' = reports
         \/ reports # <<>> /\ reports' = Tail(reports)
  BY DEF Watching, Hears, Polls, PhotoShown, UpnpPolls
<1>2. reports' \in Seq(Report)
  BY <1>1, SeqStays
<1>3. \/ MovesOn(Advanced(queue), status)
      \/ \E end \in {"ok", "failed"} : Returns(end, status) /\ UNCHANGED <<queue, start, tv>>
      \/ UNCHANGED <<queue, start, task, status, inbox, tv>> /\ task.at = "playing"
      \/ /\ task' = [task EXCEPT !.at = "ending", !.end = "next", !.from = "none"]
         /\ queue' = Advanced(queue) /\ UNCHANGED <<start, inbox, status, tv>>
      \/ /\ \E n \in 0..2 : task' = [task EXCEPT !.idle = n]
         /\ task.at = "playing" /\ UNCHANGED <<queue, start, status, inbox, tv>>
  BY DEF Watching, Hears, Polls, PhotoShown, UpnpPolls
<1>4. CASE MovesOn(Advanced(queue), status)
  <2>1. Advanced(queue) \in QueueType
    BY AdvancedIs
  <2>2. /\ queue' = Advanced(queue) /\ start' \in Begun
        /\ task' \in TaskType /\ status' \in Statuses /\ tv' \in TvType
        /\ Returned \/ FirstItem(Advanced(queue))
    BY <1>4, <2>1, MovesOnIs
  <2>. QED
    BY <1>1, <1>2, <2>1, <2>2 DEF Elsewhere, Returned, FirstItem
<1>5. CASE \E end \in {"ok", "failed"} : Returns(end, status) /\ UNCHANGED <<queue, start, tv>>
  BY <1>1, <1>2, <1>5, ReturnsIs, Words DEF Elsewhere
<1>6. CASE UNCHANGED <<queue, start, task, status, inbox, tv>> /\ task.at = "playing"
  BY <1>1, <1>2, <1>6 DEF Elsewhere
<1>7. CASE /\ task' = [task EXCEPT !.at = "ending", !.end = "next", !.from = "none"]
           /\ queue' = Advanced(queue) /\ UNCHANGED <<start, inbox, status, tv>>
  <2>1. task' \in TaskType /\ task'.at = "ending"
    BY <1>7, Words DEF TaskType
  <2>. QED
    BY <1>1, <1>2, <1>7, <2>1, AdvancedIs DEF Elsewhere
<1>8. CASE /\ \E n \in 0..2 : task' = [task EXCEPT !.idle = n]
           /\ task.at = "playing" /\ UNCHANGED <<queue, start, status, inbox, tv>>
  <2>1. task' \in TaskType /\ task'.at = "playing"
    BY <1>8 DEF TaskType
  <2>. QED
    BY <1>1, <1>2, <1>8, <2>1 DEF Elsewhere
<1>. QED
  BY <1>3, <1>4, <1>5, <1>6, <1>7, <1>8

LEMMA ReceiverIs ==
    ASSUME SessionTypes, Receiver
    PROVE  /\ tv' \in TvType /\ tv'.item = tv.item /\ (tv'.on => tv.on)
           /\ tv'.told = tv.told /\ reports' \in Seq(Report)
           /\ UNCHANGED <<left, mode, queue, start, task, inbox, latest, status, stopping,
                          asked, done>>
<1>. USE DEF SessionTypes
<1>1. ASSUME NEW end \in {"finished", "failed"}, TvEnds(end)
      PROVE  /\ tv' \in TvType /\ tv'.item = tv.item /\ (tv'.on => tv.on)
             /\ tv'.told = tv.told /\ reports' \in Seq(Report)
             /\ UNCHANGED <<left, mode, queue, start, task, inbox, latest, status, stopping,
                            asked, done>>
  <2>1. /\ tv' = [tv EXCEPT !.end = end] /\ tv.on
        /\ reports' = reports \/ reports' = Append(reports, [item |-> tv.item, end |-> end])
        /\ UNCHANGED <<left, mode, queue, start, task, inbox, latest, status, stopping, asked,
                       done>>
    BY <1>1 DEF TvEnds
  <2>2. tv' \in TvType /\ tv'.item = tv.item /\ tv'.told = tv.told
    BY <2>1 DEF TvType
  <2>3. [item |-> tv.item, end |-> end] \in Report
    BY DEF TvType, Report
  <2>4. reports' \in Seq(Report)
    BY <2>1, <2>3, SeqStays
  <2>. QED
    BY <2>1, <2>2, <2>4
<1>2. CASE TakenOver
  <2>1. /\ tv' = [tv EXCEPT !.on = FALSE]
        /\ reports' = Append(reports, [item |-> None, end |-> "closed"])
        /\ UNCHANGED <<left, mode, queue, start, task, inbox, latest, status, stopping, asked,
                       done>>
    BY <1>2 DEF TakenOver
  <2>2. tv' \in TvType /\ tv'.item = tv.item /\ tv'.told = tv.told /\ ~tv'.on
    BY <2>1 DEF TvType
  <2>3. [item |-> None, end |-> "closed"] \in Report
    BY DEF Report
  <2>. QED
    BY <2>1, <2>2, <2>3
<1>. QED
  BY <1>1, <1>2 DEF Receiver

LEMMA TypesStep ==
    ASSUME SessionTypes, OnePlace, WaysApart, NeverEmpty, SessionNext
    PROVE  SessionTypes'
<1>1. CASE \E files \in Seq(Items), begin \in Begun : Distinct(files) /\ Begin(files, begin)
  BY <1>1, BeginTyped
<1>2. CASE \E c \in Controls : Command(c)
  BY <1>2, CommandTyped
<1>3. CASE Stop
  BY <1>3 DEF Stop, SessionTypes
<1>4. CASE Ordering
  BY <1>4, OrderingTyped
<1>5. CASE Reaching \/ Ending \/ Watching
  <2>1. Elsewhere
    BY <1>5, ReachingIs, EndingIs, WatchingIs
  <2>2. inbox' \in Seq(Controls)
    BY <2>1, InboxTyped DEF Elsewhere
  <2>. QED
    BY <2>1, <2>2 DEF Elsewhere, SessionTypes
<1>6. CASE Receiver
  <2>1. /\ tv' \in TvType /\ reports' \in Seq(Report)
        /\ UNCHANGED <<left, mode, queue, start, task, inbox, latest, status, stopping, asked,
                       done>>
    BY <1>6, ReceiverIs
  <2>. QED
    BY <2>1 DEF SessionTypes
<1>. QED
  BY <1>1, <1>2, <1>3, <1>4, <1>5, <1>6, SessionGroups

-----------------------------------------------------------------------------
(* The modes' ways. *)

LEMMA FirstIs ==
    ASSUME SessionTypes, NEW files \in Seq(Items), NEW begin \in Begun, Begin(files, begin)
    PROVE  LET q == [pending |-> files, completed |-> 0]
           IN /\ task.at = "none" /\ files # <<>> /\ queue' = q
              /\ UNCHANGED <<left, mode, latest, stopping, asked, done, reports>>
              /\ \/ mode \in Streaming /\ (Returned \/ FirstItem(q))
                 \/ /\ mode \notin Streaming /\ task'.at = "connecting"
                    /\ task'.from = task.from /\ task'.hand = task.hand /\ UNCHANGED <<inbox, tv>>
<1>. DEFINE q == [pending |-> files, completed |-> 0]
            st == [status EXCEPT !.queue = Files(files)]
<1>1. q \in QueueType
  BY DEF QueueType
<1>2. Files(files) \in Seq(Items)
  BY FilesTyped
<1>3. st \in Statuses
  BY <1>2 DEF SessionTypes, Statuses
<1>4. /\ task.at = "none" /\ files # <<>> /\ queue' = q
      /\ UNCHANGED <<left, mode, latest, stopping, asked, done, reports>>
      /\ IF mode \in Streaming THEN Turn(q, begin, st)
         ELSE task' = [task EXCEPT !.at = "connecting"] /\ UNCHANGED <<inbox, tv>>
  BY DEF Begin
<1>. HIDE DEF st
<1>5. CASE mode \in Streaming
  <2>1. Turn(q, begin, st)
    BY <1>4, <1>5
  <2>. HIDE DEF q
  <2>2. Returned \/ FirstItem(q)
    BY <1>1, <1>3, <2>1, TurnIs DEF SessionTypes
  <2>. QED
    BY <1>4, <1>5, <2>2 DEF q
<1>6. CASE mode \notin Streaming
  <2>1. task'.at = "connecting" /\ task'.from = task.from /\ task'.hand = task.hand
    BY <1>4, <1>6 DEF SessionTypes, TaskType
  <2>. QED
    BY <1>4, <1>6, <2>1
<1>. QED
  BY <1>5, <1>6

LEMMA WaysStep ==
    ASSUME SessionTypes, OnePlace, WaysApart, NeverEmpty, SessionNext
    PROVE  WaysApart'
<1>. USE DEF WaysApart, Streaming
<1>0. task \in TaskType /\ tv \in TvType /\ queue \in QueueType /\ status \in Statuses
      /\ start \in Begun
  BY DEF SessionTypes
<1>1. ASSUME NEW q \in QueueType, NEW st \in Statuses, NEW begin, Turn(q, begin, st),
             UNCHANGED <<mode, reports>>
      PROVE  WaysApart'
  BY <1>0, <1>1, TurnIs DEF Returned, FirstItem
<1>2. ASSUME NEW end \in Ends, Returns(end, status), UNCHANGED mode,
             mode # "cast" => UNCHANGED reports
      PROVE  WaysApart'
  BY <1>0, <1>2, ReturnsIs
<1>3. ASSUME NEW end \in Ends, Over(end, status), UNCHANGED <<mode, reports>>
      PROVE  WaysApart'
  BY <1>0, <1>3, OverIs
<1>4. ASSUME NEW files \in Seq(Items), NEW begin \in Begun, Begin(files, begin)
      PROVE  WaysApart'
  BY <1>4, FirstIs DEF Returned, FirstItem
<1>5. CASE (\E c \in Controls : Command(c)) \/ Stop
  BY <1>5 DEF Command, Stop
<1>6. CASE Ordering
  <2>1. CASE Receives
    <3>1. Head(inbox) \in Controls
      BY <2>1, SeqStays DEF Receives, SessionTypes
    <3>2. Head(inbox) # None
      BY <3>1, ControlsAre
    <3>3. task'.at = "took" /\ task'.from = task.at /\ task'.hand = Head(inbox)
          /\ UNCHANGED <<mode, reports>> /\ task.at \in {"holding", "playing"}
      BY <1>0, <2>1 DEF Receives, TaskType
    <3>. QED
      BY <3>2, <3>3
  <2>2. CASE Takes
    <3>1. \E c \in Controls :
            /\ UNCHANGED <<mode, reports>>
            /\ \/ Returned \/ FirstItem(Edited(queue, c))
               \/ task'.at = "ending" /\ mode \in Streaming
               \/ task'.at = "working" /\ task'.hand = c /\ task'.from = task.from
      BY <2>2, TakesIs
    <3>2. task.at = "took"
      BY <2>2 DEF Takes
    <3>. QED
      BY <3>1, <3>2, ControlsAre DEF Returned, FirstItem
  <2>3. CASE HeldWorks \/ Restarts \/ \E p \in BOOLEAN : Answered(p)
    <3>1. /\ UNCHANGED <<mode, reports>>
          /\ task.at = "working"
          /\ \/ /\ task.from = "holding" /\ task'.at \in {"playing", "holding"}
                /\ task'.from = "none"
             \/ task.from = "playing" /\ task'.at = "playing" /\ task'.from = "none"
             \/ task.from = "playing" /\ task'.at = "ending" /\ mode \in Streaming
      BY <1>0, <2>3 DEF HeldWorks, Restarts, Answered, TaskType
    <3>. QED
      BY <3>1
  <2>. QED
    BY <1>6, <2>1, <2>2, <2>3 DEF Ordering
<1>7. CASE Reaching
  <2>1. CASE Connects
    <3>1. CASE mode = "cast"
      BY <1>0, <2>1, <3>1 DEF Connects, TaskType
    <3>2. CASE mode # "cast"
      BY <1>0, <1>1, <2>1, <3>2 DEF Connects
    <3>. QED
      BY <3>1, <3>2
  <2>2. CASE ConnectFails \/ ConnectCancelled
    BY <1>3, <2>2, Words DEF ConnectFails, ConnectCancelled
  <2>3. CASE Launches
    <3>1. /\ UNCHANGED <<mode, reports>> /\ task.at = "launching"
          /\ \/ Returns("ok", status) \/ Over("failed", status)
             \/ task' = [task EXCEPT !.at = "loading"]
      BY <2>3 DEF Launches
    <3>2. CASE task' = [task EXCEPT !.at = "loading"]
      BY <1>0, <3>1, <3>2 DEF TaskType
    <3>. QED
      BY <1>2, <1>3, <3>1, <3>2, Words
  <2>4. CASE Loads
    BY <1>0, <2>4 DEF Loads, TaskType
  <2>5. CASE Refused
    BY <1>2, <2>5, Words DEF Refused
  <2>. QED
    BY <1>7, <2>1, <2>2, <2>3, <2>4, <2>5 DEF Reaching
<1>8. CASE Ending
  <2>1. CASE Cancelled
    BY <1>2, <2>1, Words DEF Cancelled
  <2>2. CASE Closes
    <3>1. /\ \E end \in Ends : Over(end, status)
          /\ UNCHANGED <<mode, reports>>
      BY <1>0, <2>2, Words DEF Closes, TaskType
    <3>. QED
      BY <1>3, <3>1
  <2>3. CASE StreamEnds
    <3>1. UNCHANGED <<mode, reports>>
          /\ \/ Over("failed", status)
             \/ Turn(Advanced(queue), NextStart(status), status)
      BY <2>3 DEF StreamEnds, MovesOn
    <3>. QED
      BY <1>0, <1>1, <1>3, <3>1, AdvancedIs, Words
  <2>4. CASE StreamCancelled
    BY <1>0, <2>4 DEF StreamCancelled, TaskType
  <2>5. CASE StreamStops
    <3>1. UNCHANGED <<mode, reports>>
          /\ \/ \E end \in Ends : Over(end, status)
             \/ \E begin \in {start, NextStart(status)} : Turn(queue, begin, status)
      BY <2>5, Words DEF StreamStops, MovesOn
    <3>. QED
      BY <1>0, <1>1, <1>3, <3>1
  <2>. QED
    BY <1>8, <2>1, <2>2, <2>3, <2>4, <2>5 DEF Ending
<1>9. CASE Watching
  <2>1. /\ UNCHANGED mode /\ (mode # "cast" => UNCHANGED reports) /\ task.at = "playing"
        /\ \/ Turn(Advanced(queue), NextStart(status), status) /\ UNCHANGED reports
           \/ Turn(Advanced(queue), NextStart(status), status) /\ mode = "cast"
           \/ \E end \in Ends : Returns(end, status)
           \/ UNCHANGED task
           \/ /\ task' = [task EXCEPT !.at = "ending", !.end = "next", !.from = "none"]
              /\ mode \in Streaming
           \/ \E n \in 0..2 : task' = [task EXCEPT !.idle = n]
    BY <1>9, Words DEF Watching, Hears, Polls, PhotoShown, UpnpPolls, MovesOn
  <2>2. CASE Turn(Advanced(queue), NextStart(status), status)
    <3>1. task' \in TaskType /\ (Returned \/ FirstItem(Advanced(queue)))
      BY <1>0, <2>2, AdvancedIs, TurnIs
    <3>. QED
      BY <2>1, <3>1 DEF Returned, FirstItem
  <2>3. CASE \E end \in Ends : Returns(end, status)
    BY <1>2, <2>1, <2>3
  <2>4. CASE UNCHANGED task
    BY <2>1, <2>4
  <2>5. CASE /\ task' = [task EXCEPT !.at = "ending", !.end = "next", !.from = "none"]
             /\ mode \in Streaming
    BY <1>0, <2>1, <2>5 DEF TaskType
  <2>6. CASE \E n \in 0..2 : task' = [task EXCEPT !.idle = n]
    BY <1>0, <2>1, <2>6 DEF TaskType
  <2>. QED
    BY <2>1, <2>2, <2>3, <2>4, <2>5, <2>6
<1>10. CASE Receiver
  <2>1. UNCHANGED <<mode, task>>
    BY <1>10, ReceiverIs
  <2>2. mode # "cast" => UNCHANGED reports
    BY <1>10 DEF Receiver, TvEnds, TakenOver
  <2>. QED
    BY <2>1, <2>2
<1>. QED
  BY <1>4, <1>5, <1>6, <1>7, <1>8, <1>9, <1>10, SessionGroups

-----------------------------------------------------------------------------
(* Seeks and volume add up. *)

Carried(s) == IF task.at = "working" THEN With1(done[s], task.hand, s) ELSE done[s]

LEMMA SeeksMean ==
    ASSUME WaysApart
    PROVE  /\ SeeksAddUp <=>
                (task.at \notin {"closing", "over"} =>
                     \A s \in SlotNames : asked[s] = With1(Carried(s), latest[s], s))
BY DEF SeeksAddUp, With1, Carried, WaysApart

LEMMA CarriedTyped ==
    ASSUME SessionTypes, NEW s \in SlotNames
    PROVE  Carried(s) \in Int
<1>1. done[s] \in Int /\ task.hand \in Controls \cup {None}
  BY DEF SessionTypes, TaskType
<1>2. CASE task.hand \in Controls
  <2>1. With1(done[s], task.hand, s) \in Int
    <3>1. SlotOf(task.hand) = s => InSlot(task.hand)
      BY <1>2, ControlsAre
    <3>. QED
      BY <1>1, <3>1, AppliedIs DEF With1
  <2>. QED
    BY <1>1, <2>1 DEF Carried
<1>3. CASE task.hand = None
  BY <1>1, <1>3 DEF Carried, With1
<1>. QED
  BY <1>1, <1>2, <1>3

(* A step that neither asks nor carries out a command of a slot.           *)
LEMMA SlotQuiet ==
    ASSUME SlotInv, WaysApart, WaysApart', UNCHANGED <<latest, asked, done>>,
           inbox' = inbox \/ inbox' = <<>>,
           task'.at # "took",
           task'.at = "working" => task.at = "working" /\ task'.hand = task.hand,
           task.at = "working" => task'.at \in {"working", "closing", "over"},
           task.at \in {"closing", "over"} => task'.at \in {"closing", "over"}
    PROVE  SlotInv'
<1>1. OnePlace'
  BY DEF SlotInv, OnePlace, SlotAt, SlotHeld
<1>2. SeeksAddUp'
  BY DEF SlotInv, SeeksAddUp
<1>. QED
  BY <1>1, <1>2 DEF SlotInv

LEMMA SlotCommand ==
    ASSUME SessionTypes, SlotInv, WaysApart, WaysApart', NEW c \in Controls, Command(c)
    PROVE  SlotInv'
<1>. DEFINE s == SlotOf(c)
<1>1. UNCHANGED <<task, done>>
  BY DEF Command
<1>2. s \in SlotNames \cup {None} /\ (s # None <=> s \in SlotNames)
      /\ (s \in SlotNames => InSlot(c)) /\ c # None
  BY ControlsAre
<1>3. \A n \in SlotNames : Carried(n)' = Carried(n) /\ Carried(n) \in Int
  BY <1>1, CarriedTyped DEF Carried
<1>4. \A n \in SlotNames : Noted(asked, c)[n] = With1(asked[n], c, n)
  BY NotedIs DEF SessionTypes
<1>5. inbox \in Seq(Controls) /\ latest \in [SlotNames -> Controls \cup {None}]
  BY DEF SessionTypes
<1>6. SeeksAddUp' <=> (task.at \notin {"closing", "over"} =>
          \A n \in SlotNames : asked'[n] = With1(Carried(n), latest'[n], n))
  <2>1. SeeksAddUp' <=> (task'.at \notin {"closing", "over"} =>
            \A n \in SlotNames : asked'[n] = With1(Carried(n)', latest'[n], n))
    BY SeeksMean DEF SeeksAddUp, With1, Carried, WaysApart
  <2>. QED
    BY <1>1, <1>3, <2>1
<1>7. task.at \notin {"closing", "over"} =>
          \A n \in SlotNames : asked[n] = With1(Carried(n), latest[n], n)
  BY SeeksMean DEF SlotInv
<1>8. CASE Coalesced(c)
  <2>1. s \in SlotNames /\ latest[s] # None /\ latest' = [latest EXCEPT ![s] = Merge(latest[s], c)]
        /\ UNCHANGED inbox /\ asked' = Noted(asked, c)
    BY <1>2, <1>8 DEF Coalesced
  <2>2. SlotOf(latest[s]) = s /\ latest[s] \in Controls
    BY <1>5, <2>1 DEF SlotInv, OnePlace
  <2>3. InSlot(latest[s])
    BY <2>1, <2>2, ControlsAre
  <2>4. /\ InSlot(Merge(latest[s], c)) /\ SlotOf(Merge(latest[s], c)) = s
        /\ \A at \in Int : Applied(at, Merge(latest[s], c)) = Applied(Applied(at, latest[s]), c)
    BY <1>2, <2>1, <2>2, <2>3, MergeAddsUp
  <2>5. Merge(latest[s], c) # None
    BY <2>4, ControlsAre DEF InSlot, Controls
  <2>6. OnePlace'
    BY <1>1, <1>5, <2>1, <2>4, <2>5 DEF SlotInv, OnePlace, SlotAt, SlotHeld
  <2>7. SeeksAddUp'
    <3>. SUFFICES ASSUME task.at \notin {"closing", "over"}, NEW n \in SlotNames
                  PROVE  asked'[n] = With1(Carried(n), latest'[n], n)
      BY <1>6
    <3>1. asked'[n] = With1(With1(Carried(n), latest[n], n), c, n)
      BY <1>4, <1>7, <2>1
    <3>2. CASE n = s
      BY <1>2, <1>3, <1>5, <2>1, <2>2, <2>4, <2>5, <3>1, <3>2 DEF With1
    <3>3. CASE n # s
      BY <1>2, <1>5, <2>1, <3>1, <3>3 DEF With1
    <3>. QED
      BY <3>2, <3>3
  <2>. QED
    BY <2>6, <2>7 DEF SlotInv
<1>9. CASE Queued(c)
  <2>1. /\ s # None => latest[s] = None
        /\ inbox' = Append(inbox, c)
        /\ latest' = IF s = None THEN latest ELSE [latest EXCEPT ![s] = c]
        /\ asked' = Noted(asked, c)
    BY <1>9 DEF Queued
  <2>2. /\ DOMAIN inbox' = 1..(Len(inbox) + 1) /\ Len(inbox) \in Nat
        /\ DOMAIN inbox = 1..Len(inbox)
        /\ \A i \in DOMAIN inbox : inbox'[i] = inbox[i]
        /\ inbox'[Len(inbox) + 1] = c
    BY <1>5, <2>1
  <2>3. OnePlace'
    <3>. SUFFICES ASSUME NEW n \in SlotNames
                  PROVE  /\ \A i \in DOMAIN inbox' :
                              SlotAt(n, i)' => latest'[n] # None /\ ~SlotHeld(n)'
                         /\ SlotHeld(n)' => latest'[n] # None
                         /\ \A i, j \in DOMAIN inbox' : SlotAt(n, i)' /\ SlotAt(n, j)' => i = j
                         /\ latest'[n] # None => SlotOf(latest'[n]) = n
      BY DEF OnePlace
    <3>1. CASE n = s
      <4>1. latest[n] = None /\ latest'[n] = c
        BY <1>2, <1>5, <2>1, <3>1
      <4>2. \A i \in DOMAIN inbox : ~SlotAt(n, i)
        BY <4>1 DEF SlotInv, OnePlace
      <4>3. ~SlotHeld(n)
        BY <4>1 DEF SlotInv, OnePlace
      <4>4. \A i \in DOMAIN inbox' : SlotAt(n, i)' => i = Len(inbox) + 1
        BY <2>2, <4>2 DEF SlotAt
      <4>. QED
        BY <1>1, <1>2, <3>1, <4>1, <4>3, <4>4 DEF SlotHeld
    <3>2. CASE n # s
      <4>1. latest'[n] = latest[n]
        BY <1>2, <1>5, <2>1, <3>2
      <4>2. \A i \in DOMAIN inbox' : SlotAt(n, i)' => i \in DOMAIN inbox /\ SlotAt(n, i)
        BY <2>2, <3>2 DEF SlotAt
      <4>. QED
        BY <1>1, <4>1, <4>2 DEF SlotInv, OnePlace, SlotHeld
    <3>. QED
      BY <3>1, <3>2
  <2>4. SeeksAddUp'
    <3>. SUFFICES ASSUME task.at \notin {"closing", "over"}, NEW n \in SlotNames
                  PROVE  asked'[n] = With1(Carried(n), latest'[n], n)
      BY <1>6
    <3>1. asked'[n] = With1(With1(Carried(n), latest[n], n), c, n)
      BY <1>4, <1>7, <2>1
    <3>. QED
      BY <1>2, <1>5, <2>1, <3>1 DEF With1
  <2>. QED
    BY <2>3, <2>4 DEF SlotInv
<1>10. CASE Busy(c)
  <2>1. UNCHANGED <<inbox, asked>> /\ latest' = latest
    BY <1>2, <1>5, <1>10 DEF Busy
  <2>2. OnePlace'
    BY <1>1, <2>1 DEF SlotInv, OnePlace, SlotAt, SlotHeld
  <2>. QED
    BY <1>6, <1>7, <2>1, <2>2 DEF SlotInv
<1>. QED
  BY <1>8, <1>9, <1>10 DEF Command

LEMMA SlotOrdering ==
    ASSUME SessionTypes, SlotInv, WaysApart, WaysApart', NeverEmpty, Ordering
    PROVE  SlotInv'
<1>0. inbox \in Seq(Controls) /\ latest \in [SlotNames -> Controls \cup {None}] /\ task \in TaskType
  BY DEF SessionTypes
<1>1. CASE Receives
  <2>1. /\ inbox # <<>> /\ inbox' = Tail(inbox) /\ UNCHANGED <<latest, asked, done>>
        /\ task'.at = "took" /\ task'.hand = Head(inbox) /\ task.at \in {"holding", "playing"}
    BY <1>0, <1>1 DEF Receives, TaskType
  <2>2. /\ DOMAIN inbox = 1..Len(inbox) /\ Len(inbox) \in Nat /\ 1 \in DOMAIN inbox
        /\ Head(inbox) = inbox[1]
        /\ DOMAIN inbox' = 1..(Len(inbox) - 1)
        /\ \A i \in DOMAIN inbox' : inbox'[i] = inbox[i + 1] /\ i + 1 \in DOMAIN inbox /\ i \in Nat
    BY <1>0, <2>1
  <2>3. OnePlace'
    <3>. SUFFICES ASSUME NEW n \in SlotNames
                  PROVE  /\ \A i \in DOMAIN inbox' :
                              SlotAt(n, i)' => latest'[n] # None /\ ~SlotHeld(n)'
                         /\ SlotHeld(n)' => latest'[n] # None
                         /\ \A i, j \in DOMAIN inbox' : SlotAt(n, i)' /\ SlotAt(n, j)' => i = j
                         /\ latest'[n] # None => SlotOf(latest'[n]) = n
      BY DEF OnePlace
    <3>1. /\ \A i \in DOMAIN inbox : SlotAt(n, i) => latest[n] # None
          /\ \A i, j \in DOMAIN inbox : SlotAt(n, i) /\ SlotAt(n, j) => i = j
          /\ latest[n] # None => SlotOf(latest[n]) = n
      BY DEF SlotInv, OnePlace
    <3>2. \A i \in DOMAIN inbox' : SlotAt(n, i)' => SlotAt(n, i + 1)
      BY <2>2 DEF SlotAt
    <3>3. SlotHeld(n)' => SlotAt(n, 1)
      BY <2>1, <2>2 DEF SlotAt, SlotHeld
    <3>4. \A i \in DOMAIN inbox' : SlotAt(n, i)' => latest[n] # None /\ ~SlotHeld(n)'
      <4>. SUFFICES ASSUME NEW i \in DOMAIN inbox', SlotAt(n, i + 1)
                    PROVE  latest[n] # None /\ ~SlotAt(n, 1)
        BY <3>2, <3>3
      <4>1. i + 1 \in DOMAIN inbox /\ i + 1 # 1
        BY <2>2
      <4>. QED
        BY <2>2, <3>1, <4>1
    <3>5. SlotHeld(n)' => latest[n] # None
      BY <2>2, <3>1, <3>3
    <3>6. \A i, j \in DOMAIN inbox' : SlotAt(n, i)' /\ SlotAt(n, j)' => i = j
      <4>. SUFFICES ASSUME NEW i \in DOMAIN inbox', NEW j \in DOMAIN inbox',
                           SlotAt(n, i + 1), SlotAt(n, j + 1)
                    PROVE  i = j
        BY <3>2
      <4>1. i + 1 = j + 1
        BY <2>2, <3>1
      <4>. QED
        BY <2>2, <4>1
    <3>. QED
      BY <2>1, <3>1, <3>4, <3>5, <3>6
  <2>4. SeeksAddUp'
    BY <2>1 DEF SlotInv, SeeksAddUp
  <2>. QED
    BY <2>3, <2>4 DEF SlotInv
<1>2. CASE Takes
  <2>. DEFINE s == SlotOf(task.hand)
  <2>1. PICK c \in Controls :
          /\ SlotOf(c) = s
          /\ s \in SlotNames => c = latest[s]
          /\ latest' = IF s = None THEN latest ELSE [latest EXCEPT ![s] = None]
          /\ UNCHANGED <<asked, done>>
          /\ \/ /\ EndsItem(queue, c) /\ task'.at # "took" /\ task'.at # "working"
                /\ inbox' = inbox \/ inbox' = <<>>
             \/ ~EndsItem(queue, c) /\ UNCHANGED inbox /\ task'.at = "working" /\ task'.hand = c
    BY <1>2, TakesIs DEF SlotInv, Returned, FirstItem
  <2>2. task.at = "took" /\ task.hand \in Controls
    BY <1>0, <1>2 DEF Takes, WaysApart, TaskType
  <2>3. s \in SlotNames \cup {None} /\ (s = None <=> s \notin SlotNames) /\ None \notin SlotNames
    BY <2>2, ControlsAre, MediaAssumption
  <2>4. \A n \in SlotNames : latest'[n] = IF n = s THEN None ELSE latest[n]
    BY <1>0, <2>1, <2>3
  <2>5. OnePlace'
    <3>1. inbox' = inbox \/ inbox' = <<>>
      BY <2>1
    <3>2. task'.at # "took"
      BY <2>1
    <3>3. s \in SlotNames => SlotHeld(s)
      BY <2>2 DEF SlotHeld
    <3>4. s \in SlotNames => \A i \in DOMAIN inbox : ~SlotAt(s, i)
      BY <3>3 DEF SlotInv, OnePlace
    <3>. QED
      BY <2>3, <2>4, <3>1, <3>2, <3>4 DEF SlotInv, OnePlace, SlotAt, SlotHeld
  <2>6. \A n \in SlotNames : asked[n] = With1(done[n], latest[n], n)
    BY <2>2 DEF SlotInv, SeeksAddUp, With1
  <2>7. c # None
    BY ControlsAre
  <2>8. EndsItem(queue, c) => s \notin SlotNames
    <3>1. EndsItem(queue, c) => c.op \in {"next", "remove"}
      BY DEF EndsItem
    <3>2. c.op \in {"next", "remove"} => SlotOf(c) = None
      BY DEF SlotOf, Seeks
    <3>. QED
      BY <2>1, <2>3, <3>1, <3>2
  <2>9. SeeksAddUp'
    <3>1. CASE EndsItem(queue, c)
      BY <2>1, <2>3, <2>4, <2>6, <2>8, <3>1 DEF SeeksAddUp, With1
    <3>2. CASE ~EndsItem(queue, c)
      <4>. SUFFICES ASSUME NEW n \in SlotNames
                    PROVE  asked[n] = With1(With1(done[n], c, n), latest'[n], n)
        BY <2>1, <3>2 DEF SeeksAddUp
      <4>. QED
        BY <2>1, <2>3, <2>4, <2>6, <2>7 DEF With1
    <3>. QED
      BY <3>1, <3>2
  <2>. QED
    BY <2>5, <2>9 DEF SlotInv
<1>3. CASE HeldWorks \/ Restarts \/ \E p \in BOOLEAN : Answered(p)
  <2>1. /\ UNCHANGED <<inbox, latest, asked>> /\ done' = Noted(done, task.hand)
        /\ task.at = "working" /\ task'.at \in {"playing", "holding", "ending"}
    BY <1>0, <1>3 DEF HeldWorks, Restarts, Answered, TaskType
  <2>2. task.hand \in Controls /\ task.hand # None
    BY <1>0, <2>1 DEF WaysApart, TaskType
  <2>3. \A n \in SlotNames : done'[n] = With1(done[n], task.hand, n)
    BY <2>1, <2>2, NotedIs DEF SessionTypes
  <2>4. OnePlace'
    BY <2>1 DEF SlotInv, OnePlace, SlotAt, SlotHeld
  <2>5. SeeksAddUp'
    BY <2>1, <2>3 DEF SlotInv, SeeksAddUp, With1
  <2>. QED
    BY <2>4, <2>5 DEF SlotInv
<1>. QED
  BY <1>1, <1>2, <1>3 DEF Ordering

LEMMA SlotStep ==
    ASSUME SessionTypes, SlotInv, WaysApart, WaysApart', NeverEmpty, SessionNext
    PROVE  SlotInv'
<1>1. CASE \E files \in Seq(Items), begin \in Begun : Distinct(files) /\ Begin(files, begin)
  <2>1. /\ task.at = "none" /\ UNCHANGED <<latest, asked, done>>
        /\ task'.at \in {"connecting", "loading", "holding", "playing", "closing", "over"}
        /\ inbox' = inbox \/ inbox' = <<>>
    BY <1>1, FirstIs DEF Returned, FirstItem
  <2>. QED
    BY <2>1, SlotQuiet
<1>2. CASE \E c \in Controls : Command(c)
  BY <1>2, SlotCommand
<1>3. CASE Stop
  BY <1>3, SlotQuiet DEF Stop, SlotInv, OnePlace, SlotAt, SlotHeld, SeeksAddUp
<1>4. CASE Ordering
  BY <1>4, SlotOrdering
<1>5. CASE Reaching \/ Ending \/ Watching
  <2>1. Elsewhere
    BY <1>5, ReachingIs, EndingIs, WatchingIs
  <2>2. task.at = "working" => task'.at \in {"working", "closing", "over"}
    BY <1>5, ReturnsIs, Words DEF Reaching, Connects, ConnectFails, ConnectCancelled, Launches,
       Loads, Refused, Ending, Cancelled, Closes, StreamEnds, StreamCancelled, StreamStops,
       Watching, Hears, Polls, PhotoShown, UpnpPolls, SessionTypes
  <2>3. task.at \in {"closing", "over"} => task'.at \in {"closing", "over"}
    BY <1>5, OverIs, Words DEF Reaching, Connects, ConnectFails, ConnectCancelled, Launches,
       Loads, Refused, Ending, Cancelled, Closes, StreamEnds, StreamCancelled, StreamStops,
       Watching, Hears, Polls, PhotoShown, UpnpPolls, SessionTypes, TaskType
  <2>. QED
    BY <2>1, <2>2, <2>3, SlotQuiet DEF Elsewhere
<1>6. CASE Receiver
  <2>1. UNCHANGED <<inbox, latest, asked, done, task>>
    BY <1>6, ReceiverIs
  <2>. QED
    BY <2>1 DEF SlotInv, OnePlace, SlotAt, SlotHeld, SeeksAddUp
<1>. QED
  BY <1>1, <1>2, <1>3, <1>4, <1>5, <1>6, SessionGroups

-----------------------------------------------------------------------------
(* Nothing is left playing. *)

LEMMA LeftStep ==
    ASSUME SessionTypes, WaysApart, OnePlace, NeverEmpty, LeftInv, SessionNext
    PROVE  LeftInv'
<1>. USE DEF LeftInv, NotYetOn, Before, NothingLeftPlaying, Streaming
<1>0. task \in TaskType /\ tv \in TvType /\ queue \in QueueType /\ status \in Statuses
      /\ start \in Begun
  BY DEF SessionTypes
<1>1. ASSUME NEW q \in QueueType, Returned \/ FirstItem(q), UNCHANGED mode
      PROVE  LeftInv'
  BY <1>1 DEF Returned, FirstItem, Away
<1>2. ASSUME NEW end \in Ends, Returns(end, status), UNCHANGED mode, mode \notin Streaming
      PROVE  LeftInv'
  BY <1>0, <1>2, ReturnsIs
<1>3. ASSUME NEW end \in Ends, Over(end, status), ~tv'.on
      PROVE  LeftInv'
  BY <1>0, <1>3, OverIs
<1>4. ASSUME NEW files \in Seq(Items), NEW begin \in Begun, Begin(files, begin)
      PROVE  LeftInv'
  <2>. DEFINE q == [pending |-> files, completed |-> 0]
  <2>1. /\ task.at = "none" /\ UNCHANGED mode
        /\ \/ Returned \/ FirstItem(q)
           \/ task'.at = "connecting" /\ UNCHANGED tv
    BY <1>4, FirstIs
  <2>2. q \in QueueType
    BY DEF QueueType
  <2>. HIDE DEF q
  <2>3. CASE Returned \/ FirstItem(q)
    BY <1>1, <2>1, <2>2, <2>3
  <2>4. CASE task'.at = "connecting" /\ UNCHANGED tv
    BY <2>1, <2>4
  <2>. QED
    BY <2>1, <2>3, <2>4
<1>5. CASE (\E c \in Controls : Command(c)) \/ Stop
  BY <1>5 DEF Command, Stop
<1>6. CASE Ordering
  <2>1. CASE Receives
    BY <1>0, <2>1 DEF Receives, TaskType
  <2>2. CASE Takes
    <3>1. \E c \in Controls :
            /\ UNCHANGED mode
            /\ \/ Returned \/ FirstItem(Edited(queue, c))
               \/ task'.at = "ending" /\ task'.from = "none" /\ UNCHANGED tv
               \/ task'.at = "working" /\ task'.from = task.from /\ UNCHANGED tv
      BY <2>2, TakesIs
    <3>2. task.at = "took"
      BY <2>2 DEF Takes
    <3>. QED
      BY <3>1, <3>2 DEF Returned, FirstItem, Away
  <2>3. CASE HeldWorks
    BY <1>0, <2>3 DEF HeldWorks, TaskType
  <2>4. CASE Restarts \/ \E p \in BOOLEAN : Answered(p)
    BY <1>0, <2>4 DEF Restarts, Answered, TaskType
  <2>. QED
    BY <1>6, <2>1, <2>2, <2>3, <2>4 DEF Ordering
<1>7. CASE Reaching
  <2>1. CASE Connects
    <3>1. CASE mode = "cast"
      BY <1>0, <2>1, <3>1 DEF Connects, TaskType
    <3>2. CASE mode # "cast"
      <4>1. Turn(queue, start, status) /\ UNCHANGED mode
        BY <2>1, <3>2 DEF Connects
      <4>. QED
        BY <1>0, <1>1, <4>1, TurnIs
    <3>. QED
      BY <3>1, <3>2
  <2>2. CASE ConnectFails \/ ConnectCancelled
    <3>1. /\ \E end \in Ends : Over(end, status)
          /\ task.at = "connecting" /\ UNCHANGED tv
      BY <2>2, Words DEF ConnectFails, ConnectCancelled
    <3>. QED
      BY <1>3, <3>1
  <2>3. CASE Launches
    <3>1. /\ UNCHANGED mode /\ task.at = "launching" /\ mode = "cast"
          /\ \/ Returns("ok", status)
             \/ Over("failed", status) /\ UNCHANGED tv
             \/ task' = [task EXCEPT !.at = "loading"]
      BY <2>3 DEF Launches, WaysApart
    <3>2. CASE task' = [task EXCEPT !.at = "loading"]
      BY <1>0, <3>1, <3>2 DEF TaskType
    <3>. QED
      BY <1>2, <1>3, <3>1, <3>2, Words
  <2>4. CASE Loads
    BY <1>0, <2>4 DEF Loads, TaskType, WaysApart
  <2>5. CASE Refused
    BY <1>2, <2>5, Words DEF Refused, WaysApart
  <2>. QED
    BY <1>7, <2>1, <2>2, <2>3, <2>4, <2>5 DEF Reaching
<1>8. CASE Ending
  <2>1. CASE Cancelled
    <3>1. UNCHANGED <<mode, tv>> /\ Returns("ok", status)
          /\ (mode \in Streaming => task.at = "holding")
      BY <2>1 DEF Cancelled
    <3>2. task'.at \in {"over", "closing"}
      BY <1>0, <3>1, ReturnsIs, Words
    <3>3. CASE mode \in Streaming
      BY <3>1, <3>2, <3>3
    <3>. QED
      BY <1>2, <3>1, <3>3, Words
  <2>2. CASE Closes
    <3>1. UNCHANGED mode /\ task.at = "closing"
      BY <2>2 DEF Closes
    <3>2. /\ mode = "cast" \/ mode = "upnp"
      BY <3>1, MediaAssumption DEF WaysApart, SessionTypes
    <3>3. \/ tv' = [tv EXCEPT !.on = FALSE, !.told = TRUE] /\ \E end \in Ends : Over(end, status)
          \/ mode = "cast" /\ tv' = [tv EXCEPT !.told = TRUE] /\ Over("failed", status)
          \/ /\ mode = "upnp" /\ tv' = [tv EXCEPT !.told = TRUE]
             /\ \E end \in Ends : Over(end, status)
      BY <1>0, <2>2 DEF Closes, TaskType
    <3>4. CASE tv' = [tv EXCEPT !.on = FALSE, !.told = TRUE] /\ \E end \in Ends : Over(end, status)
      BY <1>0, <1>3, <3>4 DEF TvType
    <3>5. CASE mode = "cast" /\ tv' = [tv EXCEPT !.told = TRUE] /\ Over("failed", status)
      BY <1>0, <3>1, <3>5, OverIs, Words DEF TvType
    <3>6. CASE /\ mode = "upnp" /\ tv' = [tv EXCEPT !.told = TRUE]
               /\ \E end \in Ends : Over(end, status)
      BY <1>0, <3>1, <3>6, OverIs, Words DEF TvType
    <3>. QED
      BY <3>3, <3>4, <3>5, <3>6
  <2>3. CASE StreamEnds
    <3>1. UNCHANGED mode
          /\ \/ Over("failed", status) /\ tv' = Away
             \/ Turn(Advanced(queue), NextStart(status), status)
      BY <2>3 DEF StreamEnds, MovesOn
    <3>2. Advanced(queue) \in QueueType
      BY <1>0, AdvancedIs
    <3>3. CASE Turn(Advanced(queue), NextStart(status), status)
      BY <1>0, <1>1, <3>1, <3>2, <3>3, TurnIs
    <3>. QED
      BY <1>3, <3>1, <3>3, Words DEF Away
  <2>4. CASE StreamCancelled
    BY <1>0, <2>4 DEF StreamCancelled, TaskType
  <2>5. CASE StreamStops
    <3>1. UNCHANGED mode
          /\ \/ \E end \in Ends : Over(end, status) /\ tv' = Away
             \/ \E begin \in {start, NextStart(status)} : Turn(queue, begin, status)
      BY <2>5, Words DEF StreamStops, MovesOn
    <3>2. CASE \E begin \in {start, NextStart(status)} : Turn(queue, begin, status)
      BY <1>0, <1>1, <3>1, <3>2, TurnIs
    <3>. QED
      BY <1>3, <3>1, <3>2 DEF Away
  <2>. QED
    BY <1>8, <2>1, <2>2, <2>3, <2>4, <2>5 DEF Ending
<1>9. CASE Watching
  <2>1. /\ UNCHANGED mode /\ task.at = "playing"
        /\ \/ Turn(Advanced(queue), NextStart(status), status)
           \/ \E end \in Ends : Returns(end, status) /\ mode \notin Streaming
           \/ UNCHANGED task /\ UNCHANGED tv
           \/ /\ task' = [task EXCEPT !.at = "ending", !.end = "next", !.from = "none"]
              /\ UNCHANGED tv
           \/ \E n \in 0..2 : task' = [task EXCEPT !.idle = n] /\ UNCHANGED tv
    BY <1>9, Words DEF Watching, Hears, Polls, PhotoShown, UpnpPolls, MovesOn
  <2>2. CASE Turn(Advanced(queue), NextStart(status), status)
    BY <1>0, <1>1, <2>1, <2>2, AdvancedIs, TurnIs
  <2>3. CASE \E end \in Ends : Returns(end, status) /\ mode \notin Streaming
    BY <1>2, <2>1, <2>3
  <2>4. CASE UNCHANGED task /\ UNCHANGED tv
    BY <2>1, <2>4
  <2>5. CASE /\ task' = [task EXCEPT !.at = "ending", !.end = "next", !.from = "none"]
             /\ UNCHANGED tv
    BY <1>0, <2>1, <2>5 DEF TaskType
  <2>6. CASE \E n \in 0..2 : task' = [task EXCEPT !.idle = n] /\ UNCHANGED tv
    BY <1>0, <2>1, <2>6 DEF TaskType
  <2>. QED
    BY <2>1, <2>2, <2>3, <2>4, <2>5, <2>6
<1>10. CASE Receiver
  BY <1>10, ReceiverIs
<1>. QED
  BY <1>4, <1>5, <1>6, <1>7, <1>8, <1>9, <1>10, SessionGroups

-----------------------------------------------------------------------------
(* The items. *)

Reread == reports' = reports \/ (reports # <<>> /\ reports' = Tail(reports))

LEMMA RereadIs ==
    ASSUME reports \in Seq(Report), Reread
    PROVE  /\ \A i \in DOMAIN reports' : \E j \in DOMAIN reports : reports'[i] = reports[j]
           /\ reports = <<>> => reports' = <<>>
<1>1. CASE reports' = reports
  BY <1>1
<1>2. CASE reports # <<>> /\ reports' = Tail(reports)
  <2>1. \A i \in DOMAIN Tail(reports) :
           i + 1 \in DOMAIN reports /\ Tail(reports)[i] = reports[i + 1]
    BY <1>2
  <2>. QED
    BY <1>2, <2>1
<1>. QED
  BY <1>1, <1>2 DEF Reread

LEMMA HeadAhead ==
    ASSUME NEW T, NEW s \in Seq(T)
    PROVE  /\ s # <<>> => Head(s) \in Elements(s)
           /\ s = <<>> => Elements(s) = {}
           /\ Elements(s) \subseteq T
BY DEF Elements

(* A step that goes on with the same item, or with none.                   *)
LEMMA ItemStays ==
    ASSUME SessionTypes, ItemInv, Reread, NEW q \in QueueType, queue' = q,
           Distinct(q.pending), Elements(q.pending) \subseteq Ahead,
           queue.pending # <<>> =>
               q.pending # <<>> /\ Head(q.pending) = Head(queue.pending),
           tv'.item = tv.item, tv'.end = tv.end,
           task'.at \notin {"none", "connecting"}, AtItem' => AtItem,
           task'.at = "launching" => task.at = "connecting",
           task'.at = "loading" => task.at = "launching",
           task'.at \in {"launching", "loading", "holding", "playing", "took", "working"} =>
               queue.pending # <<>>
    PROVE  ItemInv'
<1>. USE DEF ItemInv
<1>1. QueueInv'
  BY DEF QueueInv, NeverEmpty
<1>2. reports \in Seq(Report) /\ queue \in QueueType /\ queue.pending \in Seq(Items)
      /\ tv.item \in Items \cup {None}
  BY DEF SessionTypes, QueueType, TvType
<1>3. /\ \A i \in DOMAIN reports' : \E j \in DOMAIN reports : reports'[i] = reports[j]
      /\ reports = <<>> => reports' = <<>>
  BY <1>2, RereadIs
<1>4. Ahead' = Elements(q.pending) /\ Ahead \subseteq Items /\ None \notin Items
      /\ (Ahead # {} => queue.pending # <<>>)
  BY <1>2, HeadAhead, MediaAssumption DEF Ahead
<1>5. task'.at = "launching" => tv'.item = None /\ reports' = <<>>
  BY <1>3 DEF ReportsTrue
<1>6. AtItem' => tv'.item = Head(queue'.pending)
  <2>1. AtItem => queue.pending # <<>>
    BY DEF AtItem, QueueInv, NeverEmpty
  <2>. QED
    BY <2>1 DEF ReportsTrue
<1>7. tv'.item \in Ahead' => tv'.item = Head(queue'.pending)
  BY <1>4 DEF ReportsTrue
<1>8. task'.at = "loading" => tv'.item \notin Ahead'
  BY <1>4 DEF ReportsTrue
<1>9. ASSUME NEW i \in DOMAIN reports', reports'[i].end # "closed", reports'[i].item \in Ahead'
      PROVE  tv'.item = reports'[i].item /\ tv'.end = reports'[i].end
  <2>1. PICK j \in DOMAIN reports : reports'[i] = reports[j]
    BY <1>3
  <2>. QED
    BY <1>4, <1>9, <2>1 DEF ReportsTrue
<1>10. ReportsTrue'
  <2>1. task'.at \in {"none", "connecting", "launching"} => task'.at = "launching"
    OBVIOUS
  <2>. QED
    BY <1>5, <1>6, <1>7, <1>8, <1>9, <2>1 DEF ReportsTrue
<1>. QED
  BY <1>1, <1>10

(* Where the receiver's item and the reports' are not in a queue.          *)
Clear0(q) ==
    /\ tv.item \notin Elements(q.pending)
    /\ \A i \in DOMAIN reports :
         reports[i].end # "closed" => reports[i].item \notin Elements(q.pending)

(* One that has dropped the item has neither.                              *)
LEMMA DroppedIs ==
    ASSUME ReportsTrue, NEW q, Elements(q.pending) \subseteq Ahead,
           Head(queue.pending) \notin Elements(q.pending)
    PROVE  Clear0(q)
BY DEF ReportsTrue, Clear0

(* A step that ends the item, or the queue.                                *)
LEMMA ItemGone ==
    ASSUME SessionTypes, Reread, NEW q \in QueueType, queue' = q, Distinct(q.pending),
           Clear0(q), task'.at \in {"over", "closing", "ending"},
           tv'.item \in {tv.item, None}
    PROVE  ItemInv'
<1>1. QueueInv'
  BY DEF QueueInv, NeverEmpty
<1>2. reports \in Seq(Report) /\ q.pending \in Seq(Items)
  BY DEF SessionTypes, QueueType
<1>3. \A i \in DOMAIN reports' : \E j \in DOMAIN reports : reports'[i] = reports[j]
  BY <1>2, RereadIs
<1>4. None \notin Elements(q.pending)
  BY <1>2, HeadAhead, MediaAssumption
<1>5. ReportsTrue'
  BY <1>3, <1>4 DEF ReportsTrue, Clear0, AtItem, Ahead
<1>. QED
  BY <1>1, <1>5 DEF ItemInv

(* A step that comes to an item, or to the queue's end.                    *)
LEMMA ItemNext ==
    ASSUME SessionTypes, Reread, NEW q \in QueueType, queue' = q, Distinct(q.pending),
           Returned \/ FirstItem(q), Clear0(q) \/ (mode \in Streaming /\ reports = <<>>)
    PROVE  ItemInv'
<1>1. reports \in Seq(Report) /\ q.pending \in Seq(Items) /\ tv.item \in Items \cup {None}
  BY DEF SessionTypes, QueueType, TvType
<1>2. None \notin Elements(q.pending)
      /\ (q.pending # <<>> => Head(q.pending) \in Elements(q.pending))
  BY <1>1, HeadAhead, MediaAssumption
<1>3. /\ \A i \in DOMAIN reports' : \E j \in DOMAIN reports : reports'[i] = reports[j]
      /\ reports = <<>> => reports' = <<>>
  BY <1>1, RereadIs
<1>4. \A i \in DOMAIN reports' :
         reports'[i].end # "closed" => reports'[i].item \notin Elements(q.pending)
  <2>1. CASE Clear0(q)
    BY <1>3, <2>1 DEF Clear0
  <2>2. CASE reports = <<>>
    BY <1>3, <2>2
  <2>. QED
    BY <2>1, <2>2
<1>5. /\ task'.from = "none"
      /\ \/ task'.at \in {"closing", "loading"} /\ mode \notin Streaming /\ UNCHANGED tv
         \/ task'.at \in {"over", "holding"} /\ tv'.item = None
         \/ task'.at = "playing" /\ q.pending # <<>> /\ tv'.item = Head(q.pending)
  <2>1. Away.item = None /\ \A i : [Away EXCEPT !.on = TRUE, !.item = i].item = i
    BY DEF Away
  <2>2. CASE Returned
    BY <2>1, <2>2 DEF Returned
  <2>3. CASE FirstItem(q)
    BY <2>1, <2>3 DEF FirstItem
  <2>. QED
    BY <2>2, <2>3
<1>6. task'.at \in {"loading", "holding", "playing"} => q.pending # <<>>
  BY DEF Returned, FirstItem
<1>7. QueueInv'
  BY <1>5, <1>6 DEF QueueInv, NeverEmpty
<1>8. task'.at \in {"closing", "loading"} => tv'.item \notin Elements(q.pending)
  BY <1>5 DEF Clear0
<1>9. ReportsTrue'
  BY <1>2, <1>4, <1>5, <1>8 DEF ReportsTrue, AtItem, Ahead
<1>. QED
  BY <1>7, <1>9 DEF ItemInv

LEMMA ItemStep ==
    ASSUME SessionTypes, OnePlace, WaysApart, NotYetOn, ItemInv, SessionNext
    PROVE  ItemInv'
<1>. USE DEF ItemInv
<1>0. /\ task \in TaskType /\ tv \in TvType /\ queue \in QueueType /\ status \in Statuses
      /\ start \in Begun /\ NeverEmpty
      /\ Distinct(queue.pending) /\ Elements(queue.pending) = Ahead
  BY DEF SessionTypes, QueueInv, Ahead
<1>1. ASSUME UNCHANGED queue, Reread, tv'.item = tv.item, tv'.end = tv.end,
             task'.at \in {"over", "closing", "ending"}
      PROVE  ItemInv'
  BY <1>0, <1>1, ItemStays DEF AtItem
<1>2. ASSUME queue.pending # <<>>
      PROVE  /\ Advanced(queue) \in QueueType /\ Distinct(Advanced(queue).pending)
             /\ Clear0(Advanced(queue))
  <2>1. /\ Advanced(queue) \in QueueType
        /\ Elements(Advanced(queue).pending) \subseteq Ahead
        /\ Distinct(Advanced(queue).pending)
        /\ Head(queue.pending) \notin Elements(Advanced(queue).pending)
    BY <1>0, <1>2, AdvancedIs
  <2>. QED
    BY <2>1, DroppedIs
<1>3. ASSUME MovesOn(Advanced(queue), status), Reread, task.at = "playing"
      PROVE  ItemInv'
  <2>1. queue.pending # <<>>
    BY <1>0, <1>3 DEF NeverEmpty
  <2>2. queue' = Advanced(queue) /\ (Returned \/ FirstItem(Advanced(queue)))
    BY <1>0, <1>2, <2>1, <1>3, MovesOnIs
  <2>. QED
    BY <1>2, <1>3, <2>1, <2>2, ItemNext
<1>4. ASSUME Turn(queue, start, status) \/ Turn(queue, NextStart(status), status),
             UNCHANGED <<queue, reports>>, reports = <<>>, mode \in Streaming \/ tv.item = None
      PROVE  ItemInv'
  <2>1. Returned \/ FirstItem(queue)
    BY <1>0, <1>4, TurnIs
  <2>2. tv.item = None => Clear0(queue)
    <3>1. None \notin Elements(queue.pending)
      BY <1>0, HeadAhead, MediaAssumption DEF QueueType
    <3>. QED
      BY <1>4, <3>1 DEF Clear0
  <2>. QED
    BY <1>0, <1>4, <2>1, <2>2, ItemNext DEF Reread
<1>5. ASSUME UNCHANGED <<queue, reports>>, mode \in Streaming, tv' = Away, task'.at = "over"
      PROVE  ItemInv'
  <2>1. tv'.item = None /\ None \notin Items
    BY <1>5, MediaAssumption DEF Away
  <2>2. QueueInv'
    BY <1>0, <1>5 DEF QueueInv, NeverEmpty
  <2>3. None \notin Ahead'
    BY <1>0, <1>5, <2>1, HeadAhead DEF Ahead, QueueType
  <2>4. reports' = <<>>
    BY <1>5 DEF WaysApart, Streaming
  <2>. QED
    BY <1>5, <2>1, <2>2, <2>3, <2>4 DEF ReportsTrue, AtItem
<1>6. CASE \E files \in Seq(Items), begin \in Begun : Distinct(files) /\ Begin(files, begin)
  <2>1. PICK files \in Seq(Items), begin \in Begun : Distinct(files) /\ Begin(files, begin)
    BY <1>6
  <2>. DEFINE q == [pending |-> files, completed |-> 0]
  <2>2. /\ task.at = "none" /\ files # <<>> /\ queue' = q /\ UNCHANGED <<mode, reports>>
        /\ \/ mode \in Streaming /\ (Returned \/ FirstItem(q))
           \/ task'.at = "connecting" /\ UNCHANGED tv
    BY <2>1, FirstIs
  <2>3. q \in QueueType /\ Distinct(q.pending) /\ q.pending # <<>>
    BY <2>1, <2>2 DEF QueueType
  <2>4. tv.item = None /\ reports = <<>>
    BY <2>2 DEF ReportsTrue
  <2>5. None \notin Elements(q.pending)
    BY <2>3, HeadAhead, MediaAssumption DEF QueueType
  <2>. HIDE DEF q
  <2>6. CASE mode \in Streaming /\ (Returned \/ FirstItem(q))
    BY <2>2, <2>3, <2>4, <2>6, ItemNext DEF Reread
  <2>7. CASE task'.at = "connecting" /\ UNCHANGED tv
    BY <2>2, <2>3, <2>4, <2>5, <2>7 DEF QueueInv, NeverEmpty, ReportsTrue, AtItem, Ahead
  <2>. QED
    BY <2>2, <2>6, <2>7
<1>7. CASE (\E c \in Controls : Command(c)) \/ Stop
  <2>1. UNCHANGED <<queue, task, tv, reports>>
    BY <1>7 DEF Command, Stop
  <2>. QED
    BY <2>1 DEF QueueInv, NeverEmpty, ReportsTrue, AtItem, Ahead
<1>8. CASE Ordering
  <2>1. CASE Takes
    <3>1. task.at = "took" /\ queue.pending # <<>>
      BY <1>0, <2>1 DEF Takes, NeverEmpty
    <3>2. PICK c \in Controls :
            /\ queue' = Edited(queue, c) /\ UNCHANGED <<mode, reports>>
            /\ \/ EndsItem(queue, c) /\ (Returned \/ FirstItem(Edited(queue, c)))
               \/ EndsItem(queue, c) /\ task'.at = "ending" /\ UNCHANGED tv
               \/ /\ ~EndsItem(queue, c) /\ UNCHANGED tv
                  /\ task'.at = "working" /\ task'.from = task.from
      BY <1>0, <2>1, TakesIs
    <3>. DEFINE q == Edited(queue, c)
    <3>3. /\ q \in QueueType /\ Elements(q.pending) \subseteq Ahead /\ Distinct(q.pending)
          /\ ~EndsItem(queue, c) => q.pending # <<>> /\ Head(q.pending) = Head(queue.pending)
          /\ EndsItem(queue, c) => Head(queue.pending) \notin Elements(q.pending)
      BY <1>0, <3>1, EditedIs
    <3>. HIDE DEF q
    <3>4. EndsItem(queue, c) => Clear0(q)
      BY <3>3, DroppedIs
    <3>5. Reread /\ queue' = q
      BY <3>2 DEF Reread, q
    <3>6. CASE EndsItem(queue, c) /\ (Returned \/ FirstItem(q))
      BY <3>3, <3>4, <3>5, <3>6, ItemNext
    <3>7. CASE EndsItem(queue, c) /\ task'.at = "ending" /\ UNCHANGED tv
      BY <3>3, <3>4, <3>5, <3>7, ItemGone
    <3>8. CASE /\ ~EndsItem(queue, c) /\ UNCHANGED tv
               /\ task'.at = "working" /\ task'.from = task.from
      BY <3>1, <3>3, <3>5, <3>8, ItemStays DEF AtItem
    <3>. QED
      BY <3>2, <3>6, <3>7, <3>8 DEF q
  <2>2. CASE Receives
    <3>1. /\ task.at \in {"holding", "playing"} /\ UNCHANGED <<queue, tv, reports>>
          /\ task'.at = "took" /\ task'.from = task.at
      BY <1>0, <2>2 DEF Receives, TaskType
    <3>2. queue.pending # <<>>
      BY <1>0, <3>1 DEF NeverEmpty
    <3>. QED
      BY <1>0, <3>1, <3>2, ItemStays DEF AtItem, Reread
  <2>3. CASE HeldWorks
    <3>. DEFINE plays == task.hand.op = "toggle"
    <3>1. /\ task.at = "working" /\ task.from = "holding" /\ UNCHANGED <<queue, mode, reports>>
          /\ task'.at = IF plays THEN "playing" ELSE "holding"
          /\ tv' = IF plays THEN [Away EXCEPT !.on = TRUE, !.item = Head(queue.pending)] ELSE tv
      BY <1>0, <2>3 DEF HeldWorks, TaskType
    <3>2. queue.pending # <<>> /\ mode \in Streaming /\ reports = <<>>
      BY <1>0, <3>1 DEF NeverEmpty, WaysApart, Streaming
    <3>3. CASE plays
      <4>1. tv'.item = Head(queue'.pending) /\ reports' = <<>> /\ task'.at = "playing"
            /\ UNCHANGED queue
        BY <3>1, <3>2, <3>3 DEF Away
      <4>. QED
        BY <1>0, <3>2, <4>1 DEF QueueInv, NeverEmpty, ReportsTrue, AtItem, Ahead
    <3>4. CASE ~plays
      BY <1>0, <3>1, <3>2, <3>4, ItemStays DEF AtItem, Reread
    <3>. QED
      BY <3>3, <3>4
  <2>4. CASE Restarts
    <3>1. UNCHANGED <<queue, tv, reports>> /\ task'.at = "ending"
      BY <1>0, <2>4 DEF Restarts, TaskType
    <3>. QED
      BY <1>1, <3>1 DEF Reread
  <2>5. CASE \E p \in BOOLEAN : Answered(p)
    <3>1. /\ task.at = "working" /\ task.from = "playing" /\ UNCHANGED <<queue, tv, reports>>
          /\ task'.at = "playing"
      BY <1>0, <2>5 DEF Answered, TaskType
    <3>2. queue.pending # <<>>
      BY <1>0, <3>1 DEF NeverEmpty
    <3>. QED
      BY <1>0, <3>1, <3>2, ItemStays DEF AtItem, Reread
  <2>. QED
    BY <1>8, <2>1, <2>2, <2>3, <2>4, <2>5 DEF Ordering
<1>9. CASE Reaching
  <2>1. CASE Connects
    <3>1. task.at = "connecting" /\ UNCHANGED <<queue, reports>>
      BY <2>1 DEF Connects
    <3>2. tv.item = None /\ reports = <<>> /\ queue.pending # <<>>
      BY <1>0, <3>1 DEF ReportsTrue, NeverEmpty
    <3>3. CASE mode = "cast"
      <4>1. task'.at = "launching" /\ UNCHANGED tv
        BY <1>0, <2>1, <3>3 DEF Connects, TaskType
      <4>. QED
        BY <1>0, <3>1, <3>2, <4>1, ItemStays DEF AtItem, Reread
    <3>4. CASE mode # "cast"
      <4>1. Turn(queue, start, status)
        BY <2>1, <3>4 DEF Connects
      <4>. QED
        BY <1>4, <3>1, <3>2, <4>1
    <3>. QED
      BY <3>3, <3>4
  <2>2. CASE ConnectFails \/ ConnectCancelled
    <3>1. UNCHANGED <<queue, tv, reports>> /\ \E end \in Ends : Over(end, status)
      BY <2>2, Words DEF ConnectFails, ConnectCancelled
    <3>2. task'.at = "over"
      BY <1>0, <3>1, OverIs
    <3>. QED
      BY <1>1, <3>1, <3>2 DEF Reread
  <2>3. CASE Launches
    <3>1. /\ UNCHANGED <<queue, reports>> /\ tv'.item = tv.item /\ tv'.end = tv.end
          /\ task.at = "launching"
          /\ Returns("ok", status) \/ Over("failed", status) \/ task'.at = "loading"
      BY <1>0, <2>3 DEF Launches, TvType, TaskType
    <3>2. task'.at \in {"over", "closing", "loading"}
      BY <1>0, <3>1, OverIs, ReturnsIs, Words
    <3>3. CASE task'.at = "loading"
      <4>1. queue.pending # <<>>
        BY <1>0, <3>1 DEF NeverEmpty
      <4>. QED
        BY <1>0, <3>1, <3>3, <4>1, ItemStays DEF AtItem, Reread
    <3>. QED
      BY <1>1, <3>1, <3>2, <3>3 DEF Reread
  <2>4. CASE Loads
    <3>1. /\ task.at = "loading" /\ task'.at = "playing" /\ UNCHANGED <<queue, reports>>
          /\ tv'.item = Head(queue.pending)
      BY <1>0, <2>4 DEF Loads, TaskType, Away
    <3>2. QueueInv'
      BY <1>0, <3>1 DEF QueueInv, NeverEmpty
    <3>3. \A i \in DOMAIN reports : reports[i].end # "closed" => reports[i].item \notin Ahead
      BY <3>1 DEF ReportsTrue
    <3>. QED
      BY <3>1, <3>2, <3>3 DEF ReportsTrue, AtItem, Ahead
  <2>5. CASE Refused
    <3>1. /\ UNCHANGED <<queue, reports>> /\ Returns("failed", status)
          /\ tv'.item = tv.item /\ tv'.end = tv.end
      BY <1>0, <2>5 DEF Refused, TvType
    <3>2. task'.at \in {"over", "closing"}
      BY <1>0, <3>1, ReturnsIs, Words
    <3>. QED
      BY <1>1, <3>1, <3>2 DEF Reread
  <2>. QED
    BY <1>9, <2>1, <2>2, <2>3, <2>4, <2>5 DEF Reaching
<1>10. CASE Ending
  <2>1. CASE Cancelled
    <3>1. UNCHANGED <<queue, tv, reports>> /\ Returns("ok", status)
      BY <2>1 DEF Cancelled
    <3>2. task'.at \in {"over", "closing"}
      BY <1>0, <3>1, ReturnsIs, Words
    <3>. QED
      BY <1>1, <3>1, <3>2 DEF Reread
  <2>2. CASE Closes
    <3>1. /\ UNCHANGED <<queue, reports>> /\ tv'.item = tv.item /\ tv'.end = tv.end
          /\ \E end \in Ends : Over(end, status)
      BY <1>0, <2>2, Words DEF Closes, TvType, TaskType
    <3>2. task'.at = "over"
      BY <1>0, <3>1, OverIs
    <3>. QED
      BY <1>1, <3>1, <3>2 DEF Reread
  <2>3. CASE StreamEnds
    <3>1. /\ mode \in Streaming /\ task.at = "playing" /\ UNCHANGED reports
          /\ \/ MovesOn(Advanced(queue), status)
             \/ Over("failed", status) /\ tv' = Away /\ UNCHANGED queue
      BY <2>3 DEF StreamEnds
    <3>2. CASE Over("failed", status) /\ tv' = Away /\ UNCHANGED queue
      BY <1>0, <1>5, <3>1, <3>2, OverIs, Words
    <3>. QED
      BY <1>3, <3>1, <3>2 DEF Reread
  <2>4. CASE StreamCancelled
    <3>1. UNCHANGED <<queue, tv, reports>> /\ task'.at = "ending"
      BY <1>0, <2>4 DEF StreamCancelled, TaskType
    <3>. QED
      BY <1>1, <3>1 DEF Reread
  <2>5. CASE StreamStops
    <3>1. /\ UNCHANGED <<queue, reports>> /\ task.at = "ending"
          /\ \/ \E end \in Ends : Over(end, status) /\ tv' = Away
             \/ Turn(queue, start, status) \/ Turn(queue, NextStart(status), status)
      BY <2>5, Words DEF StreamStops, MovesOn
    <3>2. mode \in Streaming /\ reports = <<>>
      BY <3>1 DEF WaysApart, Streaming
    <3>3. CASE \E end \in Ends : Over(end, status) /\ tv' = Away
      BY <1>0, <1>5, <3>1, <3>2, <3>3, OverIs
    <3>. QED
      BY <1>4, <3>1, <3>2, <3>3
  <2>. QED
    BY <1>10, <2>1, <2>2, <2>3, <2>4, <2>5 DEF Ending
<1>11. CASE Watching
  <2>1. Reread /\ task.at = "playing" /\ queue.pending # <<>>
    BY <1>0, <1>11 DEF Watching, Hears, Polls, PhotoShown, UpnpPolls, Reread, NeverEmpty
  <2>2. \/ MovesOn(Advanced(queue), status)
        \/ \E end \in Ends : Returns(end, status) /\ UNCHANGED <<queue, tv>>
        \/ task'.at = "ending" /\ queue' = Advanced(queue) /\ UNCHANGED tv
        \/ task'.at = "playing" /\ UNCHANGED <<queue, tv>>
    <3>1. CASE Hears
      BY <2>1, <3>1, Words DEF Hears
    <3>2. CASE Polls
      BY <3>2, Words DEF Polls
    <3>3. CASE PhotoShown
      BY <1>0, <3>3 DEF PhotoShown, TaskType
    <3>4. CASE UpnpPolls
      BY <1>0, <3>4, Words DEF UpnpPolls, TaskType
    <3>. QED
      BY <1>11, <3>1, <3>2, <3>3, <3>4 DEF Watching
  <2>3. CASE MovesOn(Advanced(queue), status)
    BY <1>3, <2>1, <2>3
  <2>4. CASE \E end \in Ends : Returns(end, status) /\ UNCHANGED <<queue, tv>>
    <3>1. task'.at \in {"over", "closing"}
      BY <1>0, <2>4, ReturnsIs
    <3>. QED
      BY <1>1, <2>1, <2>4, <3>1
  <2>5. CASE task'.at = "ending" /\ queue' = Advanced(queue) /\ UNCHANGED tv
    BY <1>2, <2>1, <2>5, ItemGone
  <2>6. CASE task'.at = "playing" /\ UNCHANGED <<queue, tv>>
    BY <1>0, <2>1, <2>6, ItemStays DEF AtItem
  <2>. QED
    BY <2>2, <2>3, <2>4, <2>5, <2>6
<1>12. CASE Receiver
  <2>1. /\ UNCHANGED <<queue, task>> /\ tv'.item = tv.item /\ tv.on
        /\ task.at \notin {"none", "connecting", "launching"}
    <3>1. UNCHANGED <<queue, task>> /\ tv'.item = tv.item
      BY <1>12, ReceiverIs
    <3>2. tv.on
      BY <1>12 DEF Receiver, TvEnds, TakenOver
    <3>. QED
      BY <3>1, <3>2 DEF NotYetOn, Before
  <2>2. QueueInv'
    BY <2>1 DEF QueueInv, NeverEmpty
  <2>3. reports \in Seq(Report)
    BY DEF SessionTypes
  <2>4. \A r \in Report : /\ Len(Append(reports, r)) = Len(reports) + 1
                          /\ \A i \in DOMAIN Append(reports, r) :
                               \/ i \in DOMAIN reports /\ Append(reports, r)[i] = reports[i]
                               \/ Append(reports, r)[i] = r
    BY <2>3
  <2>5. ASSUME NEW i \in DOMAIN reports', reports'[i].end # "closed",
               reports'[i].item \in Ahead'
        PROVE  tv'.item = reports'[i].item /\ tv'.end = reports'[i].end
    <3>1. CASE TakenOver
      <4>. DEFINE r == [item |-> None, end |-> "closed"]
      <4>1. tv'.end = tv.end /\ reports' = Append(reports, r) /\ r \in Report
        BY <1>0, <3>1 DEF TakenOver, TvType, Report
      <4>2. reports'[i] = reports[i] /\ i \in DOMAIN reports
        BY <2>4, <2>5, <4>1
      <4>. QED
        BY <2>1, <2>5, <4>1, <4>2 DEF ReportsTrue, Ahead
    <3>2. ASSUME NEW end \in {"finished", "failed"}, TvEnds(end)
          PROVE  tv'.item = reports'[i].item /\ tv'.end = reports'[i].end
      <4>. DEFINE r == [item |-> tv.item, end |-> end]
      <4>1. /\ tv'.end = end /\ tv.end = "no" /\ r \in Report
            /\ reports' = reports \/ reports' = Append(reports, r)
        BY <1>0, <3>2 DEF TvEnds, TvType, Report
      <4>2. (i \in DOMAIN reports /\ reports'[i] = reports[i]) \/ reports'[i] = r
        BY <2>4, <2>5, <4>1
      <4>3. i \in DOMAIN reports /\ reports'[i] = reports[i] => FALSE
        <5>. SUFFICES ASSUME i \in DOMAIN reports, reports'[i] = reports[i]
                      PROVE  FALSE
          OBVIOUS
        <5>1. tv.end = reports[i].end
          BY <2>1, <2>5 DEF ReportsTrue, Ahead
        <5>2. reports[i] \in Report
          BY <2>3
        <5>3. \A heard \in Report : heard.end # "no"
          BY DEF Report
        <5>. QED
          BY <4>1, <5>1, <5>2, <5>3
      <4>. QED
        BY <2>1, <4>1, <4>2, <4>3
    <3>. QED
      BY <1>12, <3>1, <3>2 DEF Receiver
  <2>. QED
    BY <2>1, <2>2, <2>5 DEF ReportsTrue, AtItem, Ahead
<1>. QED
  BY <1>6, <1>7, <1>8, <1>9, <1>10, <1>11, <1>12, SessionGroups

-----------------------------------------------------------------------------
(* The page. *)

LEMMA WithIs ==
    ASSUME NEW chosen \in Seq(Items), Distinct(chosen), NEW files \in Seq(Items)
    PROVE  With(chosen, files) \in Seq(Items) /\ Distinct(With(chosen, files))
<1>. DEFINE P == {i \in DOMAIN files : /\ \A n \in DOMAIN chosen : chosen[n] # files[i]
                                       /\ \A n \in 1..i - 1 : files[n] # files[i]}
            new == Subsequence(files, P)
<1>1. With(chosen, files) = chosen \o new
  BY DEF With
<1>2. P \in SUBSET DOMAIN files
  OBVIOUS
<1>3. \A i, j \in P : files[i] = files[j] => i = j
  <2>. SUFFICES ASSUME NEW i \in P, NEW j \in P, files[i] = files[j], i < j
                PROVE  FALSE
    OBVIOUS
  <2>1. i \in 1..j - 1
    OBVIOUS
  <2>. QED
    BY <2>1
<1>4. /\ new \in Seq(Items) /\ Distinct(new)
      /\ \A n \in DOMAIN new : \E i \in P : new[n] = files[i]
  <2>. HIDE DEF P
  <2>. QED
    BY <1>2, <1>3, SubsequenceIs
<1>5. \A n \in DOMAIN new : \A m \in DOMAIN chosen : chosen[m] # new[n]
  BY <1>4
<1>. HIDE DEF new
<1>6. Distinct(chosen \o new)
  <2>1. /\ DOMAIN (chosen \o new) = 1..(Len(chosen) + Len(new))
        /\ Len(chosen) \in Nat /\ Len(new) \in Nat
        /\ DOMAIN chosen = 1..Len(chosen) /\ DOMAIN new = 1..Len(new)
    BY <1>4
  <2>2. \A n \in DOMAIN (chosen \o new) :
           \/ n \in DOMAIN chosen /\ (chosen \o new)[n] = chosen[n]
           \/ /\ n > Len(chosen) /\ n - Len(chosen) \in DOMAIN new
              /\ (chosen \o new)[n] = new[n - Len(chosen)]
    BY <1>4, <2>1
  <2>. SUFFICES ASSUME NEW m \in DOMAIN (chosen \o new), NEW n \in DOMAIN (chosen \o new),
                       (chosen \o new)[m] = (chosen \o new)[n]
                PROVE  m = n
    BY DEF Distinct
  <2>3. m \in Nat /\ n \in Nat
    BY <2>1
  <2>4. CASE m \in DOMAIN chosen /\ n \in DOMAIN chosen
    BY <2>1, <2>2, <2>4 DEF Distinct
  <2>5. CASE m \notin DOMAIN chosen /\ n \notin DOMAIN chosen
    <3>1. m - Len(chosen) = n - Len(chosen)
      BY <1>4, <2>2, <2>5 DEF Distinct
    <3>. QED
      BY <2>1, <2>3, <3>1
  <2>6. CASE m \in DOMAIN chosen /\ n \notin DOMAIN chosen
    BY <1>5, <2>1, <2>2, <2>6
  <2>7. CASE m \notin DOMAIN chosen /\ n \in DOMAIN chosen
    BY <1>5, <2>1, <2>2, <2>7
  <2>. QED
    BY <2>4, <2>5, <2>6, <2>7
<1>. QED
  BY <1>1, <1>4, <1>6

(* Each step of the whole is one of the session, or leaves it alone.       *)
LEMMA NextIs ==
    ASSUME PageTypes, [Next]_vars
    PROVE  SessionNext \/ UNCHANGED session
<1>1. page.chosen \in Seq(Items) /\ Distinct(page.chosen)
  BY DEF PageTypes
<1>2. CASE SendTo
  BY <1>1, <1>2 DEF SendTo, SessionNext, Begun
<1>3. CASE \E u \in Urls, begin \in {"plays", "paused"} : PlayerSends(<<u>>, begin)
  <2>1. PICK u \in Urls, begin \in {"plays", "paused"} : PlayerSends(<<u>>, begin)
    BY <1>3
  <2>2. <<u>> \in Seq(Items) /\ Distinct(<<u>>)
    BY MediaAssumption DEF Distinct
  <2>. QED
    BY <2>1, <2>2 DEF PlayerSends, SessionNext, Begun
<1>4. CASE \E i \in Items : Remove(i)
  BY <1>4, ControlsAre DEF Remove, SessionNext
<1>5. CASE \E c \in Commands : Control(c)
  BY <1>5, MediaAssumption DEF Control, SessionNext
<1>6. CASE Cancel \/ Clear
  BY <1>6 DEF Cancel, Clear, SessionNext
<1>7. CASE \E p \in Picks : Picked(p)
  BY <1>7 DEF Picked
<1>8. CASE Delivery
  BY <1>8 DEF Delivery, Inspected, Publishes, Status
<1>9. CASE Task \/ Receiver
  BY <1>9 DEF SessionNext
<1>10. CASE UNCHANGED vars
  BY <1>10 DEF vars
<1>. QED
  BY <1>2, <1>3, <1>4, <1>5, <1>6, <1>7, <1>8, <1>9, <1>10 DEF Next, Viewer

PageInv == PageTypes /\ QueueShownPlays

LEMMA PageStep ==
    ASSUME SessionTypes, PageInv, [Next]_vars
    PROVE  PageInv'
<1>. USE DEF PageInv
<1>0. /\ page \in [chosen : Seq(Items), status : Seq(Items) \cup {None}, generation : Nat,
                   picked : Nat]
      /\ Distinct(page.chosen)
      /\ link \in Seq([queue : Seq(Items) \cup {None}])
      /\ \A p \in picks : p.files \in Seq(Items)
  BY DEF PageTypes
<1>1. QueueShownPlays <=> (playing => Elements(page.chosen) \subseteq Elements(page.status))
  BY DEF QueueShownPlays, Elements
<1>2. QueueShownPlays' <=> (playing' => Elements(page'.chosen) \subseteq Elements(page'.status))
  BY DEF QueueShownPlays, Elements
<1>3. ASSUME UNCHANGED <<page, picks, link>>
      PROVE  PageInv'
  BY <1>3 DEF PageTypes, QueueShownPlays, playing
<1>4. ASSUME NEW files \in Picks, Picked(files)
      PROVE  PageInv'
  <2>1. files \in Seq(Items)
    BY PageAssumption, MediaAssumption
  <2>2. /\ page' = [page EXCEPT !.picked = page.picked + 1] /\ UNCHANGED link /\ ~playing
        /\ picks' = picks \cup {[generation |-> page.generation, files |-> files,
                                 id |-> page.picked]}
    BY <1>4 DEF Picked
  <2>3. \A p \in picks' : p.files \in Seq(Items)
    BY <1>0, <2>1, <2>2
  <2>. QED
    BY <1>0, <2>2, <2>3 DEF PageTypes, QueueShownPlays, playing
<1>5. ASSUME NEW p \in picks, Inspected(p)
      PROVE  PageInv'
  <2>1. picks' = picks \ {p} /\ UNCHANGED link
    BY <1>5 DEF Inspected
  <2>2. CASE UNCHANGED page
    BY <1>0, <2>1, <2>2 DEF PageTypes, QueueShownPlays, playing
  <2>3. CASE ~playing /\ page' = [page EXCEPT !.chosen = With(page.chosen, p.files)]
    <3>1. With(page.chosen, p.files) \in Seq(Items) /\ Distinct(With(page.chosen, p.files))
      BY <1>0, WithIs
    <3>. QED
      BY <1>0, <2>1, <2>3, <3>1 DEF PageTypes, QueueShownPlays, playing
  <2>. QED
    BY <1>5, <2>2, <2>3 DEF Inspected
<1>6. CASE SendTo
  <2>1. page' = [page EXCEPT !.generation = page.generation + 1] /\ ~playing
        /\ UNCHANGED <<picks, link>>
    BY <1>6 DEF SendTo
  <2>. QED
    BY <1>0, <2>1 DEF PageTypes, QueueShownPlays, playing
<1>7. CASE Clear
  <2>1. page' = [page EXCEPT !.generation = page.generation + 1, !.chosen = <<>>]
        /\ UNCHANGED <<picks, link>>
    BY <1>7 DEF Clear
  <2>2. page'.chosen = <<>>
    BY <1>0, <2>1
  <2>3. Distinct(page'.chosen) /\ QueueShownPlays'
    BY <2>2 DEF Distinct, QueueShownPlays
  <2>4. <<>> \in Seq(Items)
    OBVIOUS
  <2>5. page' \in [chosen : Seq(Items), status : Seq(Items) \cup {None}, generation : Nat,
                   picked : Nat]
    <3>1. ASSUME NEW e \in Seq(Items), NEW g \in Nat
          PROVE  [page EXCEPT !.generation = g, !.chosen = e] \in
                    [chosen : Seq(Items), status : Seq(Items) \cup {None}, generation : Nat,
                     picked : Nat]
      BY <1>0
    <3>2. page.generation + 1 \in Nat
      BY <1>0
    <3>. QED
      BY <2>1, <2>4, <3>1, <3>2
  <2>. QED
    BY <1>0, <2>1, <2>3, <2>5 DEF PageTypes
<1>8. ASSUME NEW i \in Items, Remove(i)
      PROVE  PageInv'
  <2>. DEFINE kept == Retained(page.chosen, Items \ {i})
  <2>1. page' = [page EXCEPT !.chosen = kept] /\ UNCHANGED <<picks, link>>
    BY <1>8 DEF Remove
  <2>2. kept \in Seq(Items) /\ Distinct(kept) /\ Elements(kept) \subseteq Elements(page.chosen)
    BY <1>0, RetainedIs
  <2>. HIDE DEF kept
  <2>3. page'.chosen = kept /\ page'.status = page.status
    BY <1>0, <2>1
  <2>4. PageTypes'
    BY <1>0, <2>1, <2>2 DEF PageTypes
  <2>. QED
    BY <1>1, <1>2, <2>2, <2>3, <2>4 DEF playing
<1>9. CASE Publishes
  <2>. DEFINE now == IF task.at = "over" THEN None ELSE status.queue
  <2>1. link' = Append(link, [queue |-> now]) /\ UNCHANGED <<page, picks>>
    BY <1>9 DEF Publishes
  <2>2. now \in Seq(Items) \cup {None}
    BY DEF SessionTypes, Statuses
  <2>3. link' \in Seq([queue : Seq(Items) \cup {None}])
    BY <1>0, <2>1, <2>2
  <2>. QED
    BY <1>0, <2>1, <2>3 DEF PageTypes, QueueShownPlays, playing
<1>10. CASE Status
  <2>. DEFINE now == Head(link).queue
              kept == Retained(page.chosen, Elements(now))
  <2>1. link # <<>> /\ link' = Tail(link) /\ UNCHANGED picks
    BY <1>10 DEF Status
  <2>2. now \in Seq(Items) \cup {None} /\ link' \in Seq([queue : Seq(Items) \cup {None}])
    <3>1. Head(link) \in [queue : Seq(Items) \cup {None}]
      BY <1>0, <2>1, SeqStays
    <3>2. Tail(link) \in Seq([queue : Seq(Items) \cup {None}])
      BY <1>0, <2>1, SeqStays
    <3>. QED
      BY <2>1, <3>1, <3>2
  <2>3. CASE now # None
    <3>1. page' = [page EXCEPT !.status = now, !.chosen = kept]
      BY <1>10, <2>3 DEF Status, Elements
    <3>2. kept \in Seq(Items) /\ Distinct(kept) /\ Elements(kept) \subseteq Elements(now)
      BY <1>0, RetainedIs
    <3>. HIDE DEF kept, now
    <3>3. page'.chosen = kept /\ page'.status = now
      BY <1>0, <3>1
    <3>4. PageTypes'
      BY <1>0, <2>1, <2>2, <3>1, <3>2 DEF PageTypes
    <3>. QED
      BY <1>2, <3>2, <3>3, <3>4
  <2>4. CASE now = None
    <3>1. page' = [page EXCEPT !.status = None, !.chosen = IF playing THEN <<>> ELSE page.chosen]
      BY <1>10, <2>4 DEF Status
    <3>2. page'.status = None /\ page'.chosen \in {<<>>, page.chosen}
      BY <1>0, <3>1
    <3>3. Distinct(page'.chosen)
      BY <1>0, <3>2 DEF Distinct
    <3>4. PageTypes'
      <4>1. page' \in [chosen : Seq(Items), status : Seq(Items) \cup {None}, generation : Nat,
                       picked : Nat]
        <5>1. <<>> \in Seq(Items)
          OBVIOUS
        <5>. QED
          BY <1>0, <3>1, <5>1
      <4>. QED
        BY <1>0, <2>1, <2>2, <3>3, <4>1 DEF PageTypes
    <3>. QED
      BY <3>2, <3>4 DEF QueueShownPlays, playing
  <2>. QED
    BY <2>3, <2>4
<1>. QED
  BY <1>3, <1>4, <1>5, <1>6, <1>7, <1>8, <1>9, <1>10
     DEF Next, Viewer, Delivery, Cancel, PlayerSends, Control, vars

-----------------------------------------------------------------------------
(* The theorems. *)

LEMMA PlayInit ==
    ASSUME PageInit
    PROVE  PlayInv
<1>. USE MediaAssumption DEF PageInit, Init
<1>1. SessionTypes
  <2>1. <<>> \in Seq(Items) /\ <<>> \in Seq(Controls) /\ <<>> \in Seq(Report)
    OBVIOUS
  <2>2. /\ queue \in QueueType /\ status \in Statuses /\ tv \in TvType /\ task \in TaskType
        /\ start \in Begun
    BY <2>1, Words DEF QueueType, Statuses, TvType, TaskType, NoStatus, Away, Begun
  <2>3. /\ latest \in [SlotNames -> Controls \cup {None}]
        /\ asked \in [SlotNames -> Int] /\ done \in [SlotNames -> Int]
    BY DEF Nothing
  <2>. QED
    BY <2>1, <2>2, <2>3 DEF SessionTypes
<1>2. PageTypes
  <2>1. <<>> \in Seq(Items) /\ <<>> \in Seq([queue : Seq(Items) \cup {None}])
    OBVIOUS
  <2>2. page \in [chosen : Seq(Items), status : Seq(Items) \cup {None}, generation : Nat,
                  picked : Nat]
    BY <2>1
  <2>. QED
    BY <2>1, <2>2 DEF PageTypes, Distinct
<1>3. WaysApart
  BY DEF WaysApart
<1>4. SlotInv
  <2>1. OnePlace
    BY DEF OnePlace, SlotHeld
  <2>2. SeeksAddUp
    BY DEF SeeksAddUp, With1, Nothing
  <2>. QED
    BY <2>1, <2>2 DEF SlotInv
<1>5. LeftInv
  BY DEF LeftInv, NotYetOn, NothingLeftPlaying, Away
<1>6. ItemInv
  BY DEF ItemInv, QueueInv, NeverEmpty, ReportsTrue, AtItem, Ahead, Elements, Distinct, Away
<1>7. QueueShownPlays
  BY DEF QueueShownPlays, playing
<1>. QED
  BY <1>1, <1>2, <1>3, <1>4, <1>5, <1>6, <1>7 DEF PlayInv

LEMMA PlayStep ==
    ASSUME PlayInv, [Next]_vars
    PROVE  PlayInv'
<1>. USE DEF PlayInv
<1>1. PageTypes' /\ QueueShownPlays'
  BY PageStep DEF PageInv
<1>2. CASE SessionNext
  <2>1. OnePlace /\ NeverEmpty /\ NotYetOn
    BY DEF SlotInv, ItemInv, QueueInv, LeftInv
  <2>2. WaysApart'
    BY <1>2, <2>1, WaysStep
  <2>. QED
    BY <1>1, <1>2, <2>1, <2>2, TypesStep, SlotStep, LeftStep, ItemStep
<1>3. CASE UNCHANGED session
  <2>1. UNCHANGED <<left, mode, queue, start, task, inbox, latest>>
        /\ UNCHANGED <<status, stopping, asked, done, tv, reports>>
    BY <1>3 DEF session
  <2>2. SessionTypes' /\ WaysApart'
    BY <2>1 DEF SessionTypes, WaysApart
  <2>3. SlotInv'
    BY <2>1 DEF SlotInv, OnePlace, SlotAt, SlotHeld, SeeksAddUp
  <2>4. LeftInv'
    BY <2>1 DEF LeftInv, NotYetOn, Before, NothingLeftPlaying
  <2>5. ItemInv'
    BY <2>1 DEF ItemInv, QueueInv, NeverEmpty, ReportsTrue, AtItem, Ahead
  <2>. QED
    BY <1>1, <2>2, <2>3, <2>4, <2>5
<1>. QED
  BY <1>2, <1>3, NextIs

(* The inductive invariant of a session and its page: the modes keep to    *)
(* their ways, a slot has one place, what is heard is true of the          *)
(* receiver, and the page lists what plays.                                *)
THEOREM PlaybackInvariant == Spec => []PlayInv
<1>. QED
  BY PlayInit, PlayStep, PTL DEF Spec

(* PlaybackIsTrue for any items, commands, modes and number of reports.    *)
THEOREM PlaybackTrue == Spec => []PlaybackIsTrue
<1>1. PlayInv => PlaybackIsTrue
  BY DEF PlayInv, SlotInv, LeftInv, PlaybackIsTrue
<1>. QED
  BY <1>1, PlaybackInvariant, PTL

(* A step completes an item only when it may.                              *)
LEMMA ItemEarned ==
    ASSUME PlayInv, [Next]_vars, queue'.completed > queue.completed, mode # "upnp"
    PROVE  \/ task.at = "took"
           \/ Head(queue.pending) \in Photos
           \/ tv.item = Head(queue.pending) /\ tv.end = "finished"
<1>. USE DEF PlayInv, ItemInv
<1>0. queue \in QueueType /\ queue.completed \in Nat /\ queue' # queue
  BY DEF SessionTypes, QueueType
<1>1. CASE \E files \in Seq(Items), begin \in Begun : Distinct(files) /\ Begin(files, begin)
  <2>1. task.at = "none" /\ queue'.completed = 0
    BY <1>1 DEF Begin
  <2>. QED
    BY <1>0, <2>1 DEF QueueInv
<1>2. CASE (\E c \in Controls : Command(c)) \/ Stop
  BY <1>0, <1>2 DEF Command, Stop
<1>3. CASE Ordering
  BY <1>0, <1>3 DEF Ordering, Receives, Takes, HeldWorks, Restarts, Answered
<1>4. CASE Reaching
  BY <1>0, <1>4 DEF Reaching, Connects, ConnectFails, ConnectCancelled, Launches, Loads, Refused
<1>5. CASE Ending
  <2>1. CASE StreamEnds
    <3>1. task.at = "playing" /\ tv.end = "finished"
      BY <1>0, <2>1 DEF StreamEnds
    <3>. QED
      BY <3>1 DEF ReportsTrue, AtItem
  <2>2. CASE Cancelled \/ Closes \/ StreamCancelled \/ StreamStops
    BY <1>0, <2>2 DEF Cancelled, Closes, StreamCancelled, StreamStops, MovesOn
  <2>. QED
    BY <1>5, <2>1, <2>2 DEF Ending
<1>6. CASE Watching
  <2>1. CASE Hears
    <3>1. /\ task.at = "playing" /\ reports # <<>> /\ Own(Head(reports))
          /\ Head(reports).end = "finished"
      BY <1>0, <2>1 DEF Hears
    <3>2. queue.pending # <<>> /\ queue.pending \in Seq(Items)
      BY <1>0, <3>1 DEF QueueInv, NeverEmpty, QueueType
    <3>3. Head(queue.pending) \in Ahead
      BY <3>2, HeadAhead DEF Ahead
    <3>4. 1 \in DOMAIN reports /\ Head(reports) = reports[1]
      BY <3>1 DEF SessionTypes
    <3>. QED
      BY <3>1, <3>3, <3>4 DEF Own, ReportsTrue
  <2>2. CASE Polls
    <3>1. task.at = "playing" /\ tv.end = "finished"
      BY <1>0, <2>2 DEF Polls
    <3>. QED
      BY <3>1 DEF ReportsTrue, AtItem
  <2>3. CASE PhotoShown \/ UpnpPolls
    BY <2>3 DEF PhotoShown, UpnpPolls
  <2>. QED
    BY <1>6, <2>1, <2>2, <2>3 DEF Watching
<1>7. CASE Receiver
  BY <1>0, <1>7 DEF Receiver, TvEnds, TakenOver
<1>8. CASE UNCHANGED session
  BY <1>0, <1>8 DEF session
<1>. QED
  BY <1>1, <1>2, <1>3, <1>4, <1>5, <1>6, <1>7, <1>8, NextIs, SessionGroups

(* NeverAnEarlierItem, however many reports are still unread.              *)
THEOREM NoEarlierItem == Spec => NeverAnEarlierItem
<1>1. PlayInv /\ [Next]_vars =>
        [queue'.completed > queue.completed /\ mode # "upnp" =>
            \/ task.at = "took"
            \/ Head(queue.pending) \in Photos
            \/ tv.item = Head(queue.pending) /\ tv.end = "finished"]_vars
  BY ItemEarned
<1>. QED
  BY <1>1, PlaybackInvariant, PTL DEF Spec, NeverAnEarlierItem

-----------------------------------------------------------------------------
(* The file server. *)

(* What is parsed of a range is what it asks for, or nothing where it asks *)
(* for nothing.                                                            *)
LEMMA ParsedIs ==
    ASSUME NEW range \in Ranges, NEW size \in Nat
    PROVE  LET b == ParseRange(range, size) IN
           /\ b \in [start : Nat, end : Int] /\ b.start <= b.end + 1
           /\ range.kind # "none" => b.start..b.end = AskedOf(range, size)
<1>. USE ServerAssumption
<1>1. range.a \in Nat /\ range.b \in Nat
  BY DEF Ranges, NoRange, Offsets
<1>2. range.kind \in {"none", "unread", "closed", "open", "suffix"}
  BY DEF Ranges, NoRange
<1>3. CASE range.kind = "closed"
  <2>1. ParseRange(range, size) =
          IF range.a <= range.b /\ range.a < size
          THEN [start |-> range.a, end |-> Lower(range.b, size - 1)] ELSE NoBytes
    BY <1>3 DEF ParseRange
  <2>2. AskedOf(range, size) = {p \in 0..size - 1 : range.a <= p /\ p <= range.b}
    BY <1>3 DEF AskedOf
  <2>. QED
    BY <1>1, <1>3, <2>1, <2>2 DEF Lower, NoBytes
<1>4. CASE range.kind = "open"
  <2>1. ParseRange(range, size) =
          IF range.a < size THEN [start |-> range.a, end |-> size - 1] ELSE NoBytes
    BY <1>4 DEF ParseRange
  <2>2. AskedOf(range, size) = {p \in 0..size - 1 : range.a <= p}
    BY <1>4 DEF AskedOf
  <2>. QED
    BY <1>1, <1>4, <2>1, <2>2 DEF NoBytes
<1>5. CASE range.kind = "suffix"
  <2>1. ParseRange(range, size) =
          IF size > 0 /\ range.a > 0
          THEN [start |-> IF range.a > size THEN 0 ELSE size - range.a, end |-> size - 1]
          ELSE NoBytes
    BY <1>5 DEF ParseRange
  <2>2. AskedOf(range, size) = {p \in 0..size - 1 : p >= size - range.a}
    BY <1>5 DEF AskedOf
  <2>. QED
    BY <1>1, <1>5, <2>1, <2>2 DEF NoBytes
<1>6. CASE range.kind \in {"none", "unread"}
  <2>1. ParseRange(range, size) = NoBytes
    BY <1>6 DEF ParseRange
  <2>2. range.kind = "unread" => AskedOf(range, size) = {}
    BY DEF AskedOf
  <2>. QED
    BY <1>6, <2>1, <2>2 DEF NoBytes
<1>. QED
  BY <1>2, <1>3, <1>4, <1>5, <1>6

LEMMA WholeIs ==
    ASSUME NEW size \in Nat
    PROVE  AskedOf(NoRange, size) = 0..size - 1
<1>1. NoRange.kind = "none"
  BY DEF NoRange
<1>. QED
  BY <1>1 DEF AskedOf

Stages == {"absent", "queued", "reading", "read", "sending", "closed"}

Connection ==
    [stage : Stages, request : Requests, status : {0, 200, 206, 404, 405, 416}, total : Nat,
     bytes : [start : Nat, end : Int], at : Nat, wrote : Nat]

(* A head is written once the file is open; it and the body are of the     *)
(* same range.                                                             *)
Sound(k) ==
    /\ k.stage \in {"absent", "queued", "reading", "read"} => k.status = 0 /\ k.wrote = 0
    /\ k.stage = "sending" => k.status \in {200, 206}
    /\ k.status \in {200, 206} =>
         /\ k.bytes.start..k.bytes.end =
              AskedOf(IF k.status = 206 THEN k.request.range ELSE NoRange, k.total)
         /\ k.at = k.bytes.start + k.wrote /\ k.wrote <= Length(k.bytes)
    /\ k.status = 416 => AskedOf(k.request.range, k.total) = {}

Busyness == {"reading", "read", "sending"}

LEMMA StageIs ==
    ASSUME NEW k \in Connection, NEW s \in Stages, NEW now, now = [k EXCEPT !.stage = s]
    PROVE  /\ now \in Connection /\ now.stage = s /\ now.request = k.request
           /\ now.status = k.status /\ now.total = k.total /\ now.bytes = k.bytes
           /\ now.at = k.at /\ now.wrote = k.wrote
BY DEF Connection

LEMMA RequestIs ==
    ASSUME NEW k \in Connection, NEW r \in Requests, NEW now, now = [k EXCEPT !.request = r]
    PROVE  /\ now \in Connection /\ now.stage = k.stage /\ now.status = k.status
           /\ now.wrote = k.wrote
BY DEF Connection

LEMMA StatusIs ==
    ASSUME NEW k \in Connection, NEW code \in {200, 206, 404, 405, 416}, NEW now,
           now = [k EXCEPT !.status = code]
    PROVE  /\ now \in Connection /\ now.stage = k.stage /\ now.status = code
           /\ now.request = k.request /\ now.wrote = k.wrote
BY DEF Connection

Heads(k, code, size, b, s) ==
    [k EXCEPT !.status = code, !.total = size, !.bytes = b, !.at = b.start, !.stage = s]

ByteRange == [start : Nat, end : Int]

LEMMA HeadIs ==
    ASSUME NEW k \in Connection, NEW code \in {200, 206}, NEW size \in Nat,
           NEW b \in ByteRange, NEW s \in Stages
    PROVE  LET now == Heads(k, code, size, b, s)
           IN /\ now \in Connection /\ now.stage = s /\ now.status = code /\ now.total = size
              /\ now.bytes = b /\ now.at = b.start /\ now.request = k.request
              /\ now.wrote = k.wrote
<1>. DEFINE now == Heads(k, code, size, b, s)
            k1 == [k EXCEPT !.status = code]
            k2 == [k1 EXCEPT !.total = size]
            k3 == [k2 EXCEPT !.bytes = b]
            k4 == [k3 EXCEPT !.at = b.start]
<1>1. k1 \in Connection /\ k1.status = code /\ k1.request = k.request /\ k1.wrote = k.wrote
  BY StatusIs
<1>. HIDE DEF k1
<1>2. /\ k2 \in Connection /\ k2.status = code /\ k2.request = k.request /\ k2.wrote = k.wrote
      /\ k2.total = size
  BY <1>1 DEF Connection
<1>. HIDE DEF k2
<1>3. /\ k3 \in Connection /\ k3.status = code /\ k3.request = k.request /\ k3.wrote = k.wrote
      /\ k3.total = size /\ k3.bytes = b
  BY <1>2 DEF Connection, ByteRange
<1>. HIDE DEF k3
<1>4. /\ k4 \in Connection /\ k4.status = code /\ k4.request = k.request /\ k4.wrote = k.wrote
      /\ k4.total = size /\ k4.bytes = b /\ k4.at = b.start
  BY <1>3 DEF Connection, ByteRange
<1>5. now = [k4 EXCEPT !.stage = s]
  BY DEF Heads, k1, k2, k3
<1>. HIDE DEF k4, now
<1>6. /\ now \in Connection /\ now.stage = s /\ now.request = k4.request
      /\ now.status = k4.status /\ now.total = k4.total /\ now.bytes = k4.bytes
      /\ now.at = k4.at /\ now.wrote = k4.wrote
  BY <1>4, <1>5 DEF Connection
<1>. QED
  BY <1>4, <1>6 DEF now

SentOn(k, n) == [k EXCEPT !.wrote = k.wrote + n, !.at = k.at + n]

LEMMA SentIs ==
    ASSUME NEW k \in Connection, NEW n \in Nat
    PROVE  LET now == SentOn(k, n)
           IN /\ now \in Connection /\ now.stage = k.stage /\ now.status = k.status
              /\ now.bytes = k.bytes /\ now.total = k.total /\ now.request = k.request
              /\ now.at = k.at + n /\ now.wrote = k.wrote + n
<1>. DEFINE now == SentOn(k, n)
            k1 == [k EXCEPT !.wrote = k.wrote + n]
<1>1. k.wrote + n \in Nat /\ k.at + n \in Nat
  BY DEF Connection
<1>2. /\ k1 \in Connection /\ k1.stage = k.stage /\ k1.status = k.status
      /\ k1.bytes = k.bytes /\ k1.total = k.total /\ k1.request = k.request
      /\ k1.wrote = k.wrote + n
  BY <1>1 DEF Connection
<1>3. now = [k1 EXCEPT !.at = k.at + n]
  BY DEF SentOn
<1>. HIDE DEF k1, now
<1>4. /\ now \in Connection /\ now.stage = k.stage /\ now.status = k.status
      /\ now.bytes = k.bytes /\ now.total = k.total /\ now.request = k.request
      /\ now.at = k.at + n /\ now.wrote = k.wrote + n
  BY <1>1, <1>2, <1>3 DEF Connection
<1>. QED
  BY <1>4 DEF now

RoomInv ==
    /\ IsFiniteSet(Served) /\ Cardinality(Served) <= Limit /\ Served \cap Foreign = {}
    /\ server = "dropped" => Served = {}

ServerInv ==
    /\ server \in {"up", "dropped"} /\ file \in Gone..MaxSize
    /\ conn \in [Conn -> Connection]
    /\ \A c \in Conn : Sound(conn[c])
    /\ RoomInv

LEMMA RoomLess ==
    ASSUME RoomInv, Served' \subseteq Served, server' = "dropped" => Served' = {}
    PROVE  RoomInv'
<1>1. IsFiniteSet(Served') /\ Cardinality(Served') <= Cardinality(Served)
  BY FS_Subset DEF RoomInv
<1>2. Cardinality(Served') \in Nat /\ Cardinality(Served) \in Nat
  BY <1>1, FS_CardinalityType DEF RoomInv
<1>. QED
  BY <1>1, <1>2, ServerAssumption DEF RoomInv

(* A connection that is served already goes on, or is closed.              *)
LEMMA OneStep ==
    ASSUME ServerInv, NEW c \in Conn, NEW now \in Connection, Becomes(c, now), Sound(now),
           now.stage \in Busyness => conn[c].stage \in Busyness
    PROVE  ServerInv'
<1>1. conn' = [conn EXCEPT ![c] = now] /\ UNCHANGED <<server, file>>
  BY DEF Becomes
<1>2. conn' \in [Conn -> Connection] /\ \A d \in Conn : Sound(conn'[d])
  BY <1>1 DEF ServerInv
<1>3. Served' \subseteq Served
  BY <1>1 DEF Served, Busyness, ServerInv
<1>4. RoomInv'
  BY <1>1, <1>3, RoomLess DEF ServerInv, RoomInv
<1>. QED
  BY <1>1, <1>2, <1>4 DEF ServerInv

LEMMA ClosedIs ==
    ASSUME ServerInv, NEW c \in Conn
    PROVE  /\ Closed(c) \in Connection /\ Sound(Closed(c)) /\ Closed(c).stage = "closed"
           /\ conn[c] \in Connection /\ Sound(conn[c])
<1>1. conn[c] \in Connection /\ Sound(conn[c])
  BY DEF ServerInv
<1>2. Closed(c) = [conn[c] EXCEPT !.stage = "closed"]
  BY DEF Closed
<1>3. /\ Closed(c) \in Connection /\ Closed(c).stage = "closed"
      /\ Closed(c).request = conn[c].request /\ Closed(c).status = conn[c].status
      /\ Closed(c).total = conn[c].total /\ Closed(c).bytes = conn[c].bytes
      /\ Closed(c).at = conn[c].at /\ Closed(c).wrote = conn[c].wrote
  BY <1>1, <1>2, StageIs DEF Stages
<1>4. Sound(Closed(c))
  BY <1>1, <1>3 DEF Sound
<1>. QED
  BY <1>1, <1>3, <1>4

LEMMA AcceptsKeeps ==
    ASSUME ServerInv, NEW c \in Conn, Accepts(c)
    PROVE  ServerInv'
<1>0. conn[c] \in Connection /\ Sound(conn[c]) /\ conn[c].stage = "queued" /\ server = "up"
  BY ClosedIs DEF Accepts
<1>1. CASE c \in Foreign
  <2>1. Becomes(c, Closed(c))
    BY <1>1 DEF Accepts
  <2>. QED
    BY <2>1, ClosedIs, OneStep DEF Busyness
<1>2. CASE c \notin Foreign
  <2>. DEFINE now == [conn[c] EXCEPT !.stage = "reading"]
  <2>1. conn' = [conn EXCEPT ![c] = now] /\ UNCHANGED <<server, file>> /\ Room
    BY <1>2 DEF Accepts, Becomes
  <2>2. now \in Connection /\ Sound(now) /\ now.stage = "reading"
    <3>1. /\ now \in Connection /\ now.stage = "reading" /\ now.status = conn[c].status
          /\ now.wrote = conn[c].wrote
      BY <1>0, StageIs DEF Stages
    <3>. QED
      BY <1>0, <3>1 DEF Sound
  <2>. HIDE DEF now
  <2>3. conn' \in [Conn -> Connection] /\ \A d \in Conn : Sound(conn'[d])
    BY <2>1, <2>2 DEF ServerInv
  <2>4. Served' = Served \cup {c} /\ c \notin Served
    BY <1>0, <2>1, <2>2 DEF Served, ServerInv
  <2>5. IsFiniteSet(Served') /\ Cardinality(Served') = Cardinality(Served) + 1
    BY <2>4, FS_AddElement DEF ServerInv, RoomInv
  <2>6. Cardinality(Served) \in Nat /\ Cardinality(Served) < Limit
    BY <2>1, FS_CardinalityType DEF Room, ServerInv, RoomInv
  <2>7. RoomInv'
    BY <1>0, <1>2, <2>1, <2>4, <2>5, <2>6, ServerAssumption DEF RoomInv, ServerInv
  <2>. QED
    BY <2>1, <2>3, <2>7 DEF ServerInv
<1>. QED
  BY <1>1, <1>2

LEMMA RequestReadKeeps ==
    ASSUME ServerInv, NEW c \in Conn, RequestRead(c)
    PROVE  ServerInv'
<1>0. conn[c] \in Connection /\ Sound(conn[c]) /\ conn[c].stage = "reading"
  BY ClosedIs DEF RequestRead
<1>1. PICK r \in Requests :
        Becomes(c, [(IF ~ r.known THEN Answer(c, 404)
                     ELSE IF r.method = "other" THEN Answer(c, 405)
                     ELSE [conn[c] EXCEPT !.stage = "read"]) EXCEPT !.request = r])
  BY ServerAssumption DEF RequestRead
<1>. DEFINE read == [conn[c] EXCEPT !.stage = "read"]
            told(k) == [k EXCEPT !.request = r]
<1>2. ASSUME NEW code \in {404, 405}, Becomes(c, told(Answer(c, code)))
      PROVE  ServerInv'
  <2>1. Answer(c, code) = [Closed(c) EXCEPT !.status = code]
    BY DEF Answer
  <2>2. /\ Answer(c, code) \in Connection /\ Answer(c, code).stage = "closed"
        /\ Answer(c, code).status = code
    BY <2>1, ClosedIs, StatusIs
  <2>3. /\ told(Answer(c, code)) \in Connection /\ told(Answer(c, code)).stage = "closed"
        /\ told(Answer(c, code)).status = code
    BY <2>2, RequestIs
  <2>4. Sound(told(Answer(c, code)))
    BY <2>3 DEF Sound
  <2>. QED
    BY <1>2, <2>3, <2>4, OneStep DEF Busyness
<1>3. ASSUME Becomes(c, told(read))
      PROVE  ServerInv'
  <2>1. /\ read \in Connection /\ read.stage = "read" /\ read.status = conn[c].status
        /\ read.wrote = conn[c].wrote
    BY <1>0, StageIs DEF Stages
  <2>. HIDE DEF read
  <2>2. /\ told(read) \in Connection /\ told(read).stage = "read"
        /\ told(read).status = conn[c].status /\ told(read).wrote = conn[c].wrote
    BY <2>1, RequestIs
  <2>. HIDE DEF told
  <2>3. Sound(told(read))
    BY <1>0, <2>2 DEF Sound
  <2>. QED
    BY <1>0, <1>3, <2>2, <2>3, OneStep DEF Busyness
<1>4. CASE ~ r.known
  BY <1>1, <1>2, <1>4
<1>5. CASE r.known /\ r.method = "other"
  BY <1>1, <1>2, <1>5
<1>6. CASE r.known /\ r.method # "other"
  BY <1>1, <1>3, <1>6
<1>. QED
  BY <1>4, <1>5, <1>6

LEMMA OpensKeeps ==
    ASSUME ServerInv, NEW c \in Conn, Opens(c)
    PROVE  ServerInv'
<1>. DEFINE request == conn[c].request
            ranged == request.method = "GET" /\ request.range.kind # "none"
            bytes == IF ranged THEN ParseRange(request.range, file)
                     ELSE [start |-> 0, end |-> file - 1]
            refused == [Answer(c, 416) EXCEPT !.total = file]
            opened == [conn[c] EXCEPT !.status = IF ranged THEN 206 ELSE 200, !.total = file,
                           !.bytes = bytes, !.at = bytes.start,
                           !.stage = IF request.method = "HEAD" THEN "closed" ELSE "sending"]
<1>0. /\ conn[c] \in Connection /\ Sound(conn[c]) /\ conn[c].stage = "read"
      /\ request \in Requests /\ request.range \in Ranges
  BY ClosedIs DEF Opens, Connection, Requests
<1>1. \/ Becomes(c, Closed(c))
      \/ file # Gone /\ ranged /\ bytes = NoBytes /\ Becomes(c, refused)
      \/ file # Gone /\ Becomes(c, opened)
  BY DEF Opens
<1>2. CASE Becomes(c, Closed(c))
  BY <1>2, ClosedIs, OneStep DEF Busyness
<1>3. ASSUME file # Gone
      PROVE  file \in Nat
  BY <1>3, ServerAssumption DEF ServerInv, Gone
<1>4. ASSUME file # Gone
      PROVE  /\ bytes \in [start : Nat, end : Int] /\ bytes.start <= bytes.end + 1
             /\ bytes.start..bytes.end = AskedOf(IF ranged THEN request.range ELSE NoRange, file)
  <2>1. CASE ranged
    BY <1>0, <1>3, <1>4, <2>1, ParsedIs
  <2>2. CASE ~ranged
    BY <1>3, <1>4, <2>2, WholeIs
  <2>. QED
    BY <2>1, <2>2
<1>5. CASE file # Gone /\ ranged /\ bytes = NoBytes /\ Becomes(c, refused)
  <2>1. AskedOf(request.range, file) = {}
    BY <1>4, <1>5 DEF NoBytes
  <2>2. /\ refused \in Connection /\ refused.stage = "closed" /\ refused.status = 416
        /\ refused.total = file /\ refused.request = request
    <3>1. /\ Answer(c, 416) = [Closed(c) EXCEPT !.status = 416]
          /\ Closed(c).request = request
      BY <1>0, StageIs DEF Answer, Closed, Stages
    <3>2. /\ Answer(c, 416) \in Connection /\ Answer(c, 416).stage = "closed"
          /\ Answer(c, 416).status = 416 /\ Answer(c, 416).request = request
      BY <3>1, ClosedIs, StatusIs
    <3>. QED
      BY <1>3, <1>5, <3>2 DEF Connection
  <2>3. Sound(refused)
    BY <2>1, <2>2 DEF Sound
  <2>4. refused.stage \notin Busyness
    BY <2>2 DEF Busyness
  <2>. HIDE DEF refused
  <2>. QED
    BY <1>5, <2>2, <2>3, <2>4, OneStep
<1>6. CASE file # Gone /\ Becomes(c, opened)
  <2>. HIDE DEF bytes
  <2>1. /\ opened \in Connection /\ opened.stage \in {"closed", "sending"}
        /\ opened.status = IF ranged THEN 206 ELSE 200
        /\ opened.total = file /\ opened.request = request
        /\ opened.bytes = bytes /\ opened.at = bytes.start /\ opened.wrote = conn[c].wrote
    <3>1. /\ file \in Nat /\ bytes \in [start : Nat, end : Int]
          /\ (IF ranged THEN 206 ELSE 200) \in {200, 206}
          /\ (IF request.method = "HEAD" THEN "closed" ELSE "sending") \in Stages
      BY <1>3, <1>4, <1>6 DEF Stages
    <3>2. opened = Heads(conn[c], IF ranged THEN 206 ELSE 200, file, bytes,
                         IF request.method = "HEAD" THEN "closed" ELSE "sending")
      BY DEF Heads
    <3>. DEFINE code == IF ranged THEN 206 ELSE 200
                stage == IF request.method = "HEAD" THEN "closed" ELSE "sending"
    <3>. HIDE DEF ranged, opened, code, stage
    <3>3. /\ opened \in Connection /\ opened.stage = stage /\ opened.status = code
          /\ opened.total = file /\ opened.request = request
          /\ opened.bytes = bytes /\ opened.at = bytes.start /\ opened.wrote = conn[c].wrote
      <4>1. /\ code \in {200, 206} /\ stage \in Stages
            /\ opened = Heads(conn[c], code, file, bytes, stage)
        BY <3>1, <3>2 DEF code, stage
      <4>2. conn[c] \in Connection
        BY <1>0
      <4>3. file \in Nat /\ bytes \in ByteRange /\ request = conn[c].request
        BY <3>1 DEF ByteRange
      <4>. HIDE DEF request
      <4>. QED
        BY <4>1, <4>2, <4>3, HeadIs
    <3>. QED
      BY <3>3 DEF code, stage
  <2>. HIDE DEF opened
  <2>2. bytes.start \in Nat /\ bytes.end \in Int /\ conn[c].wrote = 0
    BY <1>0, <1>4, <1>6 DEF Sound
  <2>3. opened.at = opened.bytes.start + opened.wrote /\ opened.wrote <= Length(opened.bytes)
    BY <1>4, <1>6, <2>1, <2>2 DEF Length
  <2>4. Sound(opened)
    <3>1. CASE ranged
      BY <1>4, <1>6, <2>1, <2>3, <3>1 DEF Sound
    <3>2. CASE ~ranged
      BY <1>4, <1>6, <2>1, <2>3, <3>2 DEF Sound
    <3>. QED
      BY <3>1, <3>2
  <2>. QED
    BY <1>0, <1>6, <2>1, <2>4, OneStep DEF Busyness
<1>. QED
  BY <1>1, <1>2, <1>5, <1>6

LEMMA SendsKeeps ==
    ASSUME ServerInv, NEW c \in Conn, Sends(c)
    PROVE  ServerInv'
<1>0. /\ conn[c] \in Connection /\ Sound(conn[c]) /\ conn[c].stage = "sending"
      /\ conn[c].at \in Nat /\ conn[c].wrote \in Nat /\ conn[c].status \in {200, 206}
  <2>1. conn[c] \in Connection /\ Sound(conn[c]) /\ conn[c].stage = "sending"
    BY ClosedIs DEF Sends
  <2>2. conn[c].at \in Nat /\ conn[c].wrote \in Nat
    BY <2>1 DEF Connection
  <2>. QED
    BY <2>1, <2>2 DEF Sound
<1>1. CASE Becomes(c, Closed(c))
  BY <1>1, ClosedIs, OneStep DEF Busyness
<1>2. CASE \E n \in 1..Lower(Wanted(c), file - conn[c].at) :
             Becomes(c, [conn[c] EXCEPT !.wrote = conn[c].wrote + n, !.at = conn[c].at + n])
  <2>1. PICK n \in 1..Lower(Wanted(c), file - conn[c].at) :
          Becomes(c, [conn[c] EXCEPT !.wrote = conn[c].wrote + n, !.at = conn[c].at + n])
    BY <1>2
  <2>2. conn[c].bytes \in [start : Nat, end : Int] /\ file \in Int
    BY <1>0 DEF Connection, ServerInv, Gone
  <2>3. n \in Nat /\ n <= Length(conn[c].bytes) - conn[c].wrote
    BY <1>0, <2>2, ServerAssumption DEF Lower, Wanted, Length
  <2>. DEFINE now == [conn[c] EXCEPT !.wrote = conn[c].wrote + n, !.at = conn[c].at + n]
  <2>4. /\ now \in Connection /\ now.stage = "sending" /\ now.status = conn[c].status
        /\ now.bytes = conn[c].bytes /\ now.total = conn[c].total
        /\ now.request = conn[c].request
        /\ now.at = conn[c].at + n /\ now.wrote = conn[c].wrote + n
    <3>1. now = SentOn(conn[c], n)
      BY DEF SentOn
    <3>2. conn[c] \in Connection /\ conn[c].stage = "sending"
      BY <1>0
    <3>. HIDE DEF now
    <3>. QED
      BY <2>3, <3>1, <3>2, SentIs
  <2>. HIDE DEF now
  <2>5. now.at = now.bytes.start + now.wrote /\ now.wrote <= Length(now.bytes)
    <3>1. conn[c].at = conn[c].bytes.start + conn[c].wrote
      BY <1>0 DEF Sound
    <3>2. conn[c].bytes.start \in Nat /\ conn[c].bytes.end \in Int
      BY <2>2
    <3>. QED
      BY <1>0, <2>3, <2>4, <3>1, <3>2 DEF Length
  <2>6. Sound(now)
    BY <1>0, <2>4, <2>5 DEF Sound
  <2>. QED
    BY <1>0, <2>1, <2>4, <2>6, OneStep DEF now, Busyness
<1>. QED
  BY <1>1, <1>2 DEF Sends

LEMMA ServerStepKeeps ==
    ASSUME ServerInv, [ServerNext]_serverVars
    PROVE  ServerInv'
<1>1. ASSUME NEW c \in Conn, OpensConnection(c)
      PROVE  ServerInv'
  <2>. DEFINE now == [conn[c] EXCEPT !.stage = "queued"]
  <2>1. Becomes(c, now) /\ conn[c].stage = "absent"
    BY <1>1 DEF OpensConnection
  <2>2. /\ now \in Connection /\ now.stage = "queued" /\ now.status = conn[c].status
        /\ now.wrote = conn[c].wrote
    BY ClosedIs, StageIs DEF Stages
  <2>. HIDE DEF now
  <2>3. Sound(now)
    BY <2>1, <2>2, ClosedIs DEF Sound
  <2>. QED
    BY <2>1, <2>2, <2>3, OneStep DEF Busyness
<1>2. ASSUME NEW c \in Conn, Becomes(c, Closed(c))
      PROVE  ServerInv'
  BY <1>2, ClosedIs, OneStep DEF Busyness
<1>3. ASSUME NEW c \in Conn, ServerStep(c)
      PROVE  ServerInv'
  BY <1>2, <1>3, AcceptsKeeps, RequestReadKeeps, OpensKeeps, SendsKeeps
     DEF ServerStep, NoRequest, AllSent, GivenUp
<1>4. CASE FileChanges
  <2>1. UNCHANGED <<server, conn>> /\ file' \in Gone..MaxSize
    BY <1>4 DEF FileChanges
  <2>. QED
    BY <2>1 DEF ServerInv, RoomInv, Served
<1>5. CASE Drop
  <2>1. /\ server' = "dropped" /\ UNCHANGED file
        /\ conn' = [c \in Conn |-> IF c \in Aborted THEN Closed(c) ELSE conn[c]]
    BY <1>5 DEF Drop
  <2>2. conn' \in [Conn -> Connection] /\ \A c \in Conn : Sound(conn'[c])
    BY <2>1, ClosedIs
  <2>3. \A c \in Conn : conn'[c].stage \in {"absent", "closed"}
    BY <2>1, ClosedIs DEF Aborted
  <2>4. Served' = {}
    BY <2>3 DEF Served
  <2>5. RoomInv'
    BY <2>4, RoomLess DEF ServerInv
  <2>. QED
    BY <2>1, <2>2, <2>5 DEF ServerInv
<1>6. CASE UNCHANGED serverVars
  BY <1>6 DEF serverVars, ServerInv, RoomInv, Served
<1>. QED
  BY <1>1, <1>3, <1>4, <1>5, <1>6 DEF ServerNext

LEMMA ServerBegins ==
    ASSUME ServerInit
    PROVE  ServerInv
<1>. USE ServerAssumption DEF ServerInit
<1>1. NoRange \in Ranges
  BY DEF Ranges
<1>2. Fresh \in Connection /\ Fresh.stage = "absent" /\ Fresh.status = 0 /\ Fresh.wrote = 0
  BY <1>1 DEF Fresh, Connection, Stages, Requests, NoBytes
<1>3. \A c \in Conn : conn[c] = Fresh
  OBVIOUS
<1>4. Sound(Fresh)
  BY <1>2 DEF Sound
<1>5. Served = {}
  BY <1>2, <1>3 DEF Served
<1>6. RoomInv
  BY <1>5, FS_EmptySet DEF RoomInv
<1>7. conn \in [Conn -> Connection]
  BY <1>2
<1>. QED
  BY <1>3, <1>4, <1>6, <1>7 DEF ServerInv, Gone

(* The inductive invariant of the file server: heads and bodies are of the *)
(* same range, and no more is served than there is room for.               *)
THEOREM ServerInvariant == ServerSpec => []ServerInv
<1>. QED
  BY ServerBegins, ServerStepKeeps, PTL DEF ServerSpec

(* TransfersAreSound for any connections, requests, limit and file sizes.  *)
THEOREM TransfersSound == ServerSpec => []TransfersAreSound
<1>1. ServerInv => TransfersAreSound
  BY DEF ServerInv, Sound, RoomInv, TransfersAreSound, AnnouncedIsSent, ServesItsReceiver,
         DropEndsThemAll
<1>. QED
  BY <1>1, ServerInvariant, PTL

-----------------------------------------------------------------------------
(* The request that makes a queue. *)

(* A frame of any height is what a television takes, and all but a line    *)
(* high.                                                                   *)
LEMMA FrameIs ==
    ASSUME NEW h \in Nat
    PROVE  LET f == FrameOfHeight(h) IN
           /\ f \in Nat \X Nat /\ f[1] % 2 = 0 /\ f[2] % 2 = 0
           /\ f[1] <= TvFrameMax[1] /\ f[2] <= TvFrameMax[2]
           /\ 9 * f[1] - 16 * f[2] \in (-18)..18
           /\ f[2] + 1 >= Bound(h, 0, TvFrameMax[2])
<1>. DEFINE b == Bound(h, 2, 2160)
            height == Even(b)
            x == (height * 16) \div 9
            width == Even(x + 1)
<1>1. b \in Nat /\ b >= 2 /\ b <= 2160 /\ b >= Bound(h, 0, 2160)
  BY DEF Bound
<1>. HIDE DEF b
<1>2. /\ height \in Nat /\ height % 2 = 0 /\ height <= 2160
      /\ height + 1 >= Bound(h, 0, 2160)
  BY <1>1 DEF Even, Bound
<1>. HIDE DEF height
<1>3. x \in Nat /\ 9 * x <= 16 * height /\ 16 * height <= 9 * x + 8
  BY <1>2
<1>. HIDE DEF x
<1>4. width \in Nat /\ width % 2 = 0 /\ x <= width /\ width <= x + 1
  BY <1>3 DEF Even
<1>. HIDE DEF width
<1>5. width <= 3840 /\ 9 * width - 16 * height \in (-18)..18
  BY <1>2, <1>3, <1>4
<1>6. FrameOfHeight(h) = <<width, height>>
  BY DEF FrameOfHeight, TvFrameMax, width, height, x, b
<1>. QED
  BY <1>2, <1>4, <1>5, <1>6 DEF TvFrameMax

(* The frame for a picture loses at most a line and two columns of it.     *)
LEMMA HoldingIs ==
    ASSUME NEW size \in Nat \X Nat
    PROVE  LET f == FrameHolding(size)
               h == Larger(size[2], (size[1] * 9 + 15) \div 16)
           IN /\ h \in Nat /\ f = FrameOfHeight(h)
              /\ f[1] + 2 >= Bound(size[1], 0, TvFrameMax[1])
              /\ f[2] + 1 >= Bound(size[2], 0, TvFrameMax[2])
<1>. DEFINE w == size[1]
            y == (w * 9 + 15) \div 16
            h == Larger(size[2], y)
            f == FrameOfHeight(h)
<1>1. w \in Nat /\ size[2] \in Nat
  OBVIOUS
<1>2. y \in Nat /\ 16 * y >= 9 * w
  BY <1>1
<1>. HIDE DEF y
<1>3. h \in Nat /\ h >= y /\ h >= size[2]
  BY <1>1, <1>2 DEF Larger
<1>. HIDE DEF h
<1>4. /\ f[1] \in Nat /\ f[2] \in Nat /\ f[2] + 1 >= Bound(h, 0, 2160) /\ f[2] % 2 = 0
      /\ 9 * f[1] - 16 * f[2] >= -8 /\ f[2] <= 2160
  <2>. DEFINE b == Bound(h, 2, 2160)
              height == Even(b)
              x == (height * 16) \div 9
              width == Even(x + 1)
  <2>1. b \in Nat
    BY <1>3 DEF Bound
  <2>. HIDE DEF b
  <2>2. height \in Nat
    BY <2>1 DEF Even
  <2>. HIDE DEF height
  <2>3. x \in Nat /\ 16 * height <= 9 * x + 8
    BY <2>2
  <2>. HIDE DEF x
  <2>4. x <= width /\ width \in Nat
    BY <2>3 DEF Even
  <2>. HIDE DEF width
  <2>5. f = <<width, height>>
    BY DEF FrameOfHeight, TvFrameMax, width, height, x, b
  <2>6. 9 * f[1] - 16 * f[2] >= -8
    BY <2>2, <2>3, <2>4, <2>5
  <2>7. /\ f[1] \in Nat /\ f[2] \in Nat /\ f[2] + 1 >= Bound(h, 0, 2160) /\ f[2] % 2 = 0
        /\ f[2] <= 2160
    BY <1>3, FrameIs DEF TvFrameMax
  <2>. QED
    BY <2>6, <2>7
<1>. HIDE DEF f
<1>5. f[2] + 1 >= Bound(size[2], 0, 2160)
  BY <1>1, <1>3, <1>4 DEF Bound
<1>6. f[1] + 2 >= Bound(w, 0, 3840)
  <2>1. CASE h >= 2160
    <3>1. f[2] + 1 >= 2160
      BY <1>3, <1>4, <2>1 DEF Bound
    <3>2. f[2] = 2160
      BY <1>4, <3>1
    <3>3. f[1] >= 3839
      BY <1>4, <3>2
    <3>. QED
      BY <1>1, <1>4, <3>3 DEF Bound
  <2>2. CASE h < 2160
    <3>1. f[2] + 1 >= h
      BY <1>3, <1>4, <2>2 DEF Bound
    <3>2. 9 * f[1] + 8 >= 16 * (h - 1)
      BY <1>3, <1>4, <3>1
    <3>3. 9 * f[1] + 24 >= 9 * w
      BY <1>1, <1>2, <1>3, <1>4, <3>2
    <3>4. f[1] + 2 >= w
      BY <1>1, <1>4, <3>3
    <3>. QED
      BY <1>1, <1>4, <3>4 DEF Bound
  <2>. QED
    BY <1>3, <2>1, <2>2
<1>7. FrameHolding(size) = f
  BY DEF FrameHolding, f, h, y
<1>. QED
  BY <1>3, <1>5, <1>6, <1>7 DEF TvFrameMax, f, h, y

(* What a file with this in it is listed as.                               *)
Entry(f, contents) ==
    [item |-> f, kind |-> Format(contents).kind, type |-> Format(contents).type,
     native |-> contents.ext \in DOMAIN NativeFormat /\ CheckStreams(contents)]
Entries == {Entry(f, c) : f \in File, c \in Contents} \cup {FromTheWeb(s) : s \in Stream}

MediaTypes ==
    /\ disk \in [File -> Contents] /\ touched \in SUBSET File
    /\ order \in [items : Seq(Item), receiver : Television, height : Heights \cup {NoStart}]
    /\ listed \in Seq(Entries)
    /\ way \in {"idle", "reading", "asking", "fetch", "decode"}
    /\ shown \in [place : Nat, frame : Nat \X Nat]
    /\ shown.place <= Len(listed) /\ (way \notin {"fetch", "decode"} => shown.place = 0)

(* What was read of a file is on the list as long as nobody wrote over it, *)
(* even where an earlier place lists what it held before.                  *)
ListedTrue ==
    \A i \in DOMAIN listed :
        LET f == listed[i].item IN
        f \in File \ touched => Playable(disk[f]) /\ \E j \in DOMAIN listed : listed[j] = Listing(f)

Fetched ==
    way = "fetch" => \A i \in DOMAIN listed :
        /\ listed[i].native
        /\ order.receiver.kind # "Chromecast" =>
             listed[i].kind = "music" /\ ListsType(order.receiver.says, listed[i].type)

MediaInv == MediaTypes /\ ListedTrue /\ Fetched /\ FrameHolds

LEMMA EntriesAre ==
    ASSUME disk \in [File -> Contents]
    PROVE  /\ \A f \in File : Listing(f) = Entry(f, disk[f]) /\ Listing(f) \in Entries
           /\ \A f \in File : Listing(f).item = f
           /\ \A s \in Stream : FromTheWeb(s) \in Entries /\ FromTheWeb(s).item = s
           /\ \A e \in Entries : e.item \in Item
<1>1. \A f \in File : Listing(f) = Entry(f, disk[f]) /\ Listing(f).item = f
  BY DEF Listing, Entry
<1>2. \A f \in File, c \in Contents : Entry(f, c).item = f
  BY DEF Entry
<1>3. \A s \in Stream : FromTheWeb(s).item = s
  BY DEF FromTheWeb
<1>. QED
  BY <1>1, <1>2, <1>3 DEF Entries, Item

LEMMA AppendIs ==
    ASSUME NEW T, NEW s \in Seq(T), NEW x \in T
    PROVE  /\ Append(s, x) \in Seq(T) /\ Len(Append(s, x)) = Len(s) + 1
           /\ Len(s) + 1 \in DOMAIN Append(s, x) /\ Append(s, x)[Len(s) + 1] = x
           /\ \A i \in DOMAIN s : i \in DOMAIN Append(s, x) /\ Append(s, x)[i] = s[i]
           /\ \A i \in DOMAIN Append(s, x) : i \in DOMAIN s \/ Append(s, x)[i] = x
OBVIOUS

LEMMA InspectsKeeps ==
    ASSUME MediaInv, way = "reading", NEW e \in Entries, listed' = Append(listed, e),
           UNCHANGED <<disk, order, way, shown>>,
           \/ e.item \in Stream /\ UNCHANGED touched
           \/ /\ e.item \in File /\ e = Listing(e.item) /\ Playable(disk[e.item])
              /\ touched' = touched \ {e.item}
    PROVE  MediaInv'
<1>. USE DEF MediaInv
<1>1. listed \in Seq(Entries)
  BY DEF MediaTypes
<1>2. /\ listed' \in Seq(Entries) /\ Len(listed') = Len(listed) + 1
      /\ Len(listed) + 1 \in DOMAIN listed' /\ listed'[Len(listed) + 1] = e
      /\ \A i \in DOMAIN listed : i \in DOMAIN listed' /\ listed'[i] = listed[i]
      /\ \A i \in DOMAIN listed' : i \in DOMAIN listed \/ listed'[i] = e
  BY <1>1, AppendIs
<1>3. MediaTypes'
  <2>1. shown.place <= Len(listed') /\ touched' \in SUBSET File
    BY <1>1, <1>2 DEF MediaTypes
  <2>. QED
    BY <1>2, <2>1 DEF MediaTypes
<1>4. ListedTrue'
  <2>. SUFFICES ASSUME NEW i \in DOMAIN listed', listed'[i].item \in File \ touched'
                PROVE  /\ Playable(disk[listed'[i].item])
                       /\ \E j \in DOMAIN listed' : listed'[j] = Listing(listed'[i].item)
    <3>1. \A f : Listing(f)' = Listing(f) /\ Playable(disk[f])' = Playable(disk[f])
      BY DEF Listing
    <3>. QED
      BY <3>1 DEF ListedTrue
  <2>1. CASE listed'[i].item = e.item
    <3>1. e.item \in File /\ e = Listing(e.item) /\ Playable(disk[e.item])
      BY <2>1, MediaFilesAssumption
    <3>. QED
      BY <1>2, <2>1, <3>1
  <2>2. CASE listed'[i].item # e.item
    <3>1. i \in DOMAIN listed /\ listed'[i] = listed[i]
      BY <1>2, <2>2
    <3>2. listed[i].item \in File \ touched
      BY <2>2, <3>1
    <3>3. PICK j \in DOMAIN listed : Playable(disk[listed[i].item])
                                     /\ listed[j] = Listing(listed[i].item)
      BY <3>1, <3>2 DEF ListedTrue
    <3>. QED
      BY <1>2, <3>1, <3>3
  <2>. QED
    BY <2>1, <2>2
<1>5. Fetched' /\ FrameHolds'
  BY DEF Fetched, FrameHolds
<1>. QED
  BY <1>3, <1>4, <1>5

(* Before the first item plays nothing was promised of a frame.            *)
LEMMA StillHolds ==
    ASSUME MediaInv, shown'.place = 0
    PROVE  FrameHolds'
BY DEF FrameHolds

LEMMA PlaysKeeps ==
    ASSUME MediaInv, PlaysNext
    PROVE  MediaInv'
<1>. USE DEF MediaInv
<1>. DEFINE next == shown.place + 1
            item == listed[next].item
            frame == IF way = "decode" THEN TvFrame(item, order.height) ELSE <<0, 0>>
<1>1. /\ way \in {"fetch", "decode"} /\ shown.place < Len(listed)
      /\ shown' = [place |-> next, frame |-> frame]
      /\ UNCHANGED <<disk, touched, order, listed, way>>
  BY DEF PlaysNext
<1>2. /\ disk \in [File -> Contents] /\ listed \in Seq(Entries) /\ shown.place \in Nat
      /\ order.height \in Heights \cup {NoStart}
  BY DEF MediaTypes
<1>3. next \in DOMAIN listed /\ next \in Nat /\ next <= Len(listed)
  BY <1>1, <1>2
<1>. HIDE DEF next
<1>. DEFINE fits(f) ==
              /\ f \in Nat \X Nat /\ f[1] % 2 = 0 /\ f[2] % 2 = 0
              /\ f[1] <= TvFrameMax[1] /\ f[2] <= TvFrameMax[2]
              /\ 9 * f[1] - 16 * f[2] \in (-18)..18
            holds(f) ==
              /\ f[1] + 2 >= Bound(disk[item].size[1], 0, TvFrameMax[1])
              /\ f[2] + 1 >= Bound(disk[item].size[2], 0, TvFrameMax[2])
<1>4. ASSUME way = "decode"
      PROVE  /\ fits(frame)
             /\ item \in File /\ order.height \in {NoStart, 0} => holds(frame)
  <2>0. item \in File => disk[item].size \in Nat \X Nat
    BY <1>2, MediaFilesAssumption
  <2>1. CASE order.height \notin {NoStart, 0}
    <3>1. frame = FrameOfHeight(order.height) /\ order.height \in Nat
      BY <1>2, <1>4, <2>1, MediaFilesAssumption DEF TvFrame
    <3>. QED
      BY <2>1, <3>1, FrameIs
  <2>2. CASE order.height \in {NoStart, 0} /\ item \in File /\ disk[item].size # <<0, 0>>
    <3>1. frame = FrameHolding(disk[item].size)
      <4>1. frame = TvFrame(item, order.height)
        BY <1>4
      <4>. HIDE DEF frame, item
      <4>. QED
        BY <2>2, <4>1 DEF TvFrame
    <3>2. PICK h \in Nat : frame = FrameOfHeight(h)
      BY <2>0, <2>2, <3>1, HoldingIs
    <3>3. fits(frame)
      BY <3>2, FrameIs
    <3>. HIDE DEF frame
    <3>4. holds(frame)
      BY <2>0, <2>2, <3>1, HoldingIs
    <3>. QED
      BY <3>3, <3>4
  <2>3. CASE order.height \in {NoStart, 0} /\ ~(item \in File /\ disk[item].size # <<0, 0>>)
    <3>1. frame = <<1920, 1080>>
      <4>1. frame = TvFrame(item, order.height)
        BY <1>4
      <4>. HIDE DEF frame, item
      <4>. QED
        BY <2>3, <4>1 DEF TvFrame
    <3>2. item \in File => disk[item].size = <<0, 0>>
      BY <2>3
    <3>. QED
      BY <3>1, <3>2 DEF TvFrameMax, Bound
  <2>. QED
    BY <2>1, <2>2, <2>3
<1>5. frame \in Nat \X Nat
  <2>1. <<0, 0>> \in Nat \X Nat
    OBVIOUS
  <2>. QED
    BY <1>4, <2>1
<1>. HIDE DEF frame
<1>6. shown'.place = next /\ shown'.frame = frame /\ shown' \in [place : Nat, frame : Nat \X Nat]
  BY <1>1, <1>3, <1>5
<1>7. MediaTypes'
  BY <1>1, <1>3, <1>6 DEF MediaTypes
<1>8. ListedTrue' /\ Fetched'
  BY <1>1 DEF ListedTrue, Fetched, Listing
<1>9. FrameHolds'
  BY <1>1, <1>4, <1>6 DEF FrameHolds
<1>. QED
  BY <1>7, <1>8, <1>9

LEMMA MediaStep ==
    ASSUME MediaInv, [MediaNext]_mediaVars
    PROVE  MediaInv'
<1>. USE DEF MediaInv
<1>0. /\ disk \in [File -> Contents] /\ listed \in Seq(Entries)
      /\ order.receiver \in Television /\ <<>> \in Seq(Entries) /\ <<>> \in Seq(Item)
  BY DEF MediaTypes
<1>1. NoOrder \in [items : Seq(Item), receiver : Television, height : Heights \cup {NoStart}]
  <2>1. (CHOOSE r \in Television : TRUE) \in Television
    BY MediaFilesAssumption
  <2>. QED
    BY <1>0, <2>1 DEF NoOrder
<1>2. ASSUME NEW n \in 1..MaxFiles, NEW receiver \in Television,
             NEW height \in Heights \cup {NoStart}, NEW items \in [1..n -> Item],
             Orders(items, receiver, height)
      PROVE  MediaInv'
  <2>1. /\ order' = [items |-> items, receiver |-> receiver, height |-> height]
        /\ way = "idle" /\ way' = "reading" /\ UNCHANGED <<disk, touched, listed, shown>>
    BY <1>2 DEF Orders
  <2>2. items \in Seq(Item)
    <3>1. n \in Nat
      OBVIOUS
    <3>. QED
      BY <3>1
  <2>3. MediaTypes'
    BY <2>1, <2>2 DEF MediaTypes
  <2>4. ListedTrue' /\ Fetched' /\ FrameHolds'
    BY <2>1 DEF ListedTrue, Fetched, FrameHolds, Listing
  <2>. QED
    BY <2>3, <2>4
<1>3. ASSUME Refuses, way = "reading"
      PROVE  MediaInv'
  <2>1. /\ way' = "idle" /\ listed' = <<>> /\ order' = NoOrder
        /\ UNCHANGED <<disk, touched, shown>> /\ shown.place = 0
    BY <1>3 DEF Refuses, MediaTypes
  <2>2. MediaTypes'
    BY <1>0, <1>1, <2>1 DEF MediaTypes
  <2>. QED
    BY <2>1, <2>2 DEF ListedTrue, Fetched, FrameHolds
<1>4. CASE InspectsNext
  <2>. DEFINE item == order.items[Len(listed) + 1]
  <2>1. way = "reading"
    BY <1>4 DEF InspectsNext
  <2>2. \/ /\ item \in Stream /\ listed' = Append(listed, FromTheWeb(item))
           /\ UNCHANGED <<disk, touched, order, way, shown>>
        \/ /\ item \in File /\ Playable(disk[item]) /\ listed' = Append(listed, Listing(item))
           /\ touched' = touched \ {item} /\ UNCHANGED <<disk, order, way, shown>>
        \/ Refuses
    BY <1>4 DEF InspectsNext
  <2>. HIDE DEF item
  <2>3. CASE /\ item \in Stream /\ listed' = Append(listed, FromTheWeb(item))
             /\ UNCHANGED <<disk, touched, order, way, shown>>
    <3>1. FromTheWeb(item) \in Entries /\ FromTheWeb(item).item = item
      BY <1>0, <2>3, EntriesAre
    <3>. QED
      BY <2>1, <2>3, <3>1, InspectsKeeps
  <2>4. CASE /\ item \in File /\ Playable(disk[item]) /\ listed' = Append(listed, Listing(item))
             /\ touched' = touched \ {item} /\ UNCHANGED <<disk, order, way, shown>>
    <3>1. Listing(item) \in Entries /\ Listing(item).item = item
      BY <1>0, <2>4, EntriesAre
    <3>. QED
      BY <2>1, <2>4, <3>1, InspectsKeeps
  <2>. QED
    BY <1>3, <2>1, <2>2, <2>3, <2>4
<1>5. CASE ChoosesWay
  <2>1. way = "reading"
    BY <1>5 DEF ChoosesWay
  <2>2. CASE Refuses
    BY <1>3, <2>1, <2>2
  <2>3. CASE ~Refuses
    <3>1. /\ UNCHANGED <<disk, touched, order, listed, shown>>
          /\ way' \in {"fetch", "asking", "decode"}
          /\ way' = "fetch" => order.receiver.kind = "Chromecast" /\ Fetchable
      BY <1>5, <2>3 DEF ChoosesWay
    <3>2. shown.place = 0
      BY <2>1 DEF MediaTypes
    <3>3. MediaTypes' /\ ListedTrue'
      BY <3>1, <3>2 DEF MediaTypes, ListedTrue, Listing
    <3>4. Fetched'
      BY <3>1 DEF Fetched, Fetchable
    <3>. QED
      BY <3>1, <3>2, <3>3, <3>4, StillHolds
  <2>. QED
    BY <2>2, <2>3
<1>6. CASE TelevisionAnswers
  <2>1. PICK types \in {order.receiver.says, {}} :
          way' = IF \A i \in DOMAIN listed :
                       /\ listed[i].item \in File /\ listed[i].kind = "music"
                       /\ listed[i].native /\ ListsType(types, listed[i].type)
                 THEN "fetch" ELSE "decode"
    BY <1>6 DEF TelevisionAnswers, AcceptedTypes
  <2>2. way = "asking" /\ UNCHANGED <<disk, touched, order, listed, shown>>
    BY <1>6 DEF TelevisionAnswers
  <2>3. shown.place = 0
    BY <2>2 DEF MediaTypes
  <2>4. MediaTypes' /\ ListedTrue'
    BY <2>1, <2>2, <2>3 DEF MediaTypes, ListedTrue, Listing
  <2>5. ASSUME NEW type, ListsType(types, type)
        PROVE  ListsType(order.receiver.says, type)
    BY <2>1, <2>5 DEF ListsType
  <2>6. Fetched'
    BY <2>1, <2>2, <2>5 DEF Fetched
  <2>. QED
    BY <2>2, <2>3, <2>4, <2>6, StillHolds
<1>7. CASE QueueEnds
  <2>1. /\ way' = "idle" /\ listed' = <<>> /\ order' = NoOrder /\ shown' = Still
        /\ UNCHANGED <<disk, touched>>
    BY <1>7 DEF QueueEnds
  <2>2. Still \in [place : Nat, frame : Nat \X Nat] /\ Still.place = 0
    BY DEF Still
  <2>3. MediaTypes'
    BY <1>0, <1>1, <2>1, <2>2 DEF MediaTypes
  <2>. QED
    BY <2>1, <2>2, <2>3 DEF ListedTrue, Fetched, FrameHolds
<1>8. ASSUME NEW f \in File, NEW contents \in Contents, Written(f, contents)
      PROVE  MediaInv'
  <2>1. /\ disk' = [disk EXCEPT ![f] = contents] /\ touched' = touched \cup {f}
        /\ UNCHANGED <<order, listed, way, shown>>
    BY <1>8 DEF Written
  <2>2. MediaTypes' /\ Fetched'
    BY <2>1 DEF MediaTypes, Fetched
  <2>3. \A g \in File \ touched' : g \in File \ touched /\ disk'[g] = disk[g]
    BY <1>0, <2>1
  <2>4. ListedTrue'
    BY <2>1, <2>3 DEF ListedTrue, Listing
  <2>5. FrameHolds'
    BY <2>1, <2>3 DEF FrameHolds
  <2>. QED
    BY <2>2, <2>4, <2>5
<1>9. CASE UNCHANGED mediaVars
  BY <1>9 DEF mediaVars, MediaTypes, ListedTrue, Fetched, FrameHolds, Listing
<1>. QED
  BY <1>2, <1>4, <1>5, <1>6, <1>7, <1>8, <1>9, PlaysKeeps DEF MediaNext

LEMMA MediaBegins ==
    ASSUME MediaInit
    PROVE  MediaInv
<1>1. (CHOOSE r \in Television : TRUE) \in Television
  BY MediaFilesAssumption
<1>2. <<>> \in Seq(Item) /\ <<>> \in Seq(Entries)
  OBVIOUS
<1>3. NoOrder \in [items : Seq(Item), receiver : Television, height : Heights \cup {NoStart}]
  BY <1>1, <1>2 DEF NoOrder
<1>4. Still \in [place : Nat, frame : Nat \X Nat] /\ Still.place = 0
  BY DEF Still
<1>. QED
  BY <1>2, <1>3, <1>4 DEF MediaInit, MediaInv, MediaTypes, ListedTrue, Fetched, FrameHolds

LEMMA PlayableIs ==
    ASSUME MediaInv
    PROVE  QueueIsPlayable
<1>. USE DEF MediaInv
<1>1. ASSUME way = "fetch", shown.place > 0, listed[shown.place].item \in File \ touched
      PROVE  LET contents == disk[listed[shown.place].item]
             IN  /\ contents.ext \in DOMAIN NativeFormat
                 /\ Format(contents).kind # "photo" => CastPlaysStreams(contents)
                 /\ order.receiver.kind # "Chromecast" =>
                      /\ Format(contents).kind = "music"
                      /\ ListsType(order.receiver.says, Format(contents).type)
  <2>. DEFINE f == listed[shown.place].item
  <2>1. shown.place \in DOMAIN listed /\ disk \in [File -> Contents]
    BY <1>1 DEF MediaTypes
  <2>2. PICK j \in DOMAIN listed : listed[j] = Listing(f)
    BY <1>1, <2>1 DEF ListedTrue
  <2>3. /\ listed[j].kind = Format(disk[f]).kind /\ listed[j].type = Format(disk[f]).type
        /\ listed[j].native = (disk[f].ext \in DOMAIN NativeFormat /\ CheckStreams(disk[f]))
    BY <2>2 DEF Listing
  <2>4. /\ listed[j].native
        /\ order.receiver.kind # "Chromecast" =>
             listed[j].kind = "music" /\ ListsType(order.receiver.says, listed[j].type)
    BY <1>1, <2>2 DEF Fetched
  <2>. QED
    BY <2>3, <2>4 DEF CheckStreams
<1>. QED
  BY <1>1 DEF QueueIsPlayable, ReceiverPlaysWhatItFetches

(* The inductive invariant of a request: what was read stays listed until  *)
(* its file is written over, and a way is only taken by what is listed.    *)
THEOREM MediaInvariant == MediaSpec => []MediaInv
<1>. QED
  BY MediaBegins, MediaStep, PTL DEF MediaSpec

(* QueueIsPlayable for any files, contents, televisions and frame heights. *)
THEOREM QueuePlayable == MediaSpec => []QueueIsPlayable
<1>. QED
  BY MediaInvariant, PlayableIs, PTL
=============================================================================
