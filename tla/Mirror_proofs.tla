---------------------------- MODULE Mirror_proofs ----------------------------
(***************************************************************************)
(* Proofs about the two parts of Cast mirroring.  MirrorTrack: for any     *)
(* wire cycle, window and inbox with MaxUnacked + NackInbox < WireCycle,   *)
(* ids on the wire are never mistaken.  MirrorSession: what holds of a     *)
(* session for every receiver, size and answer, and what                   *)
(* StreamConfig::fit_within returns, for every size and every cap.         *)
(***************************************************************************)
EXTENDS MirrorTrack, MirrorSession, FiniteSetTheorems, TLAPS

(***************************************************************************)
(* MirrorTrack.                                                            *)
(***************************************************************************)

-----------------------------------------------------------------------------
(* Remainders. *)

LEMMA DivMod ==
    ASSUME NEW n \in Int
    PROVE  \E q \in Int, r \in 0..(WireCycle - 1) :
              n = WireCycle * q + r /\ n % WireCycle = r
<1>1. n = WireCycle * (n \div WireCycle) + (n % WireCycle) /\ n \div WireCycle \in Int
  BY CycleAssumption
<1>2. n % WireCycle \in 0..(WireCycle - 1)
  BY CycleAssumption
<1>3. QED
  BY <1>1, <1>2

(* A multiple of the cycle within one cycle of a range is 0 or the cycle. *)
LEMMA SmallMultiple ==
    ASSUME NEW k \in Int, -WireCycle < WireCycle * k, WireCycle * k < 2 * WireCycle
    PROVE  k = 0 \/ k = 1
<1>1. CASE k >= 2
  BY <1>1, CycleAssumption
<1>2. CASE k <= -1
  BY <1>2, CycleAssumption
<1>3. QED
  BY <1>1, <1>2

(* The byte expands to the id it was made from, when that is no later than *)
(* the last one sent and less than a cycle before it.                      *)
LEMMA ExpansionExact ==
    ASSUME NEW last \in Int, NEW id \in Int, id <= last, last < id + WireCycle
    PROVE  Expanded(last, id % WireCycle) = id
<1>1. PICK q \in Int, r \in 0..(WireCycle - 1) :
         last = WireCycle * q + r /\ last % WireCycle = r
  BY DivMod
<1>2. PICK p \in Int, s \in 0..(WireCycle - 1) :
         id = WireCycle * p + s /\ id % WireCycle = s
  BY DivMod
<1>3. WireCycle * (q - p) = WireCycle * q - WireCycle * p
  BY CycleAssumption
<1> DEFINE a == WireCycle * q
           b == WireCycle * p
<1>4. a \in Int /\ b \in Int /\ WireCycle \in Int
  BY CycleAssumption
<1>5. -WireCycle < a - b /\ a - b < 2 * WireCycle
  <2>1. a + r >= b + s /\ a + r < b + s + WireCycle
    BY <1>1, <1>2
  <2> HIDE DEF a, b
  <2>2. QED
    BY <1>4, <2>1
<1>6. q - p = 0 \/ q - p = 1
  BY <1>3, <1>5, SmallMultiple
<1>7. CASE q = p
  BY <1>1, <1>2, <1>7, CycleAssumption DEF Expanded
<1>8. CASE q = p + 1
  <2>1. a = b + WireCycle
    BY <1>8, CycleAssumption
  <2>2. (last - (last % WireCycle)) + (id % WireCycle) = id + WireCycle
    <3>1. last = a + r /\ last % WireCycle = r /\ id = b + s /\ id % WireCycle = s
      BY <1>1, <1>2
    <3> HIDE DEF a, b
    <3>2. QED
      BY <1>4, <2>1, <3>1
  <2>3. QED
    BY <2>2, CycleAssumption DEF Expanded
<1>9. QED
  BY <1>6, <1>7, <1>8

(* Two ids less than a cycle apart with one byte are one id. *)
LEMMA SameByte ==
    ASSUME NEW f \in Int, NEW h \in Int, f % WireCycle = h % WireCycle,
           h - f < WireCycle, f - h < WireCycle
    PROVE  h = f
<1>1. CASE f <= h
  <2>1. Expanded(h, f % WireCycle) = f
    BY <1>1, ExpansionExact, CycleAssumption
  <2>2. Expanded(h, h % WireCycle) = h
    BY ExpansionExact, CycleAssumption
  <2>3. QED
    BY <2>1, <2>2
<1>2. CASE h <= f
  <2>1. Expanded(f, h % WireCycle) = h
    BY <1>2, ExpansionExact, CycleAssumption
  <2>2. Expanded(f, f % WireCycle) = f
    BY ExpansionExact, CycleAssumption
  <2>3. QED
    BY <2>1, <2>2
<1>3. QED
  BY <1>1, <1>2

-----------------------------------------------------------------------------
(***************************************************************************)
(* The inductive invariant.  What the receiver holds lies between the      *)
(* checkpoint and the last frame sent.  A datagram under way says nothing  *)
(* the receiver does not hold, and one that is not outdated nothing behind *)
(* the checkpoint, so it expands exactly.  A batch in the inbox is at most *)
(* as many frames late as turns it has waited.                             *)
(***************************************************************************)
WindowInv ==
    /\ window.checkpoint <= receiver.cp
    /\ receiver.cp <= window.last_sent
    /\ window.last_sent - window.checkpoint <= MaxUnacked
    /\ worker.frame_id \in {window.last_sent, window.last_sent + 1}
    /\ worker.pc \in {"turn", "pull", "send"} =>
          worker.frame_id = window.last_sent + 1
    /\ worker.pc = "push" => worker.frame_id = window.last_sent
    /\ worker.pc = "send" => window.last_sent - window.checkpoint < MaxUnacked

HistoryInv ==
    /\ worker.acked <= window.checkpoint
    /\ worker.pc = "push" => worker.acked < worker.frame_id
    /\ worker.oldest <= window.checkpoint + 1
    /\ worker.oldest <= worker.frame_id
    /\ worker.frame_id - worker.oldest <= MaxUnacked

(* One frame may have been sent since the last turn. *)
Slack == IF worker.pc \in {"pull", "send"} THEN 0 ELSE 1

InboxInv ==
    \A i \in 1..Len(inbox) : \A f \in inbox[i] :
        /\ f <= window.last_sent
        /\ f >= window.last_sent - MaxUnacked - NackInbox + i + 1 - Slack

DatagramInv(d) ==
    /\ d.cp <= receiver.cp
    /\ d.at <= window.last_sent
    /\ d.at - d.cp <= MaxUnacked
    /\ \A f \in d.nacks : d.cp < f /\ f <= d.at
    /\ d.time = NoTime <=> ~Timed
    /\ Timed => d.time <= receiver.clock
    /\ Timed /\ (window.newest = NoTime \/ d.time >= window.newest) =>
          d.cp >= window.checkpoint

NetworkInv ==
    /\ ~Timed => window.newest = NoTime
    /\ window.newest = NoTime /\ Timed => window.checkpoint = -1
    /\ window.newest # NoTime => window.newest <= receiver.clock
    /\ \A d \in network : DatagramInv(d)
    /\ Timed => \A d1, d2 \in network : d1.time <= d2.time => d1.cp <= d2.cp

TrackInv == TypeOK /\ WindowInv /\ HistoryInv /\ InboxInv /\ NetworkInv

(* A datagram that is not outdated is taken for what it says. *)
LEMMA DatagramExact ==
    ASSUME TrackInv, NEW d \in network, OnTime(d),
           ~Outdated(d.time)
    PROVE  Expanded(window.last_sent, d.cp % WireCycle) = d.cp
<1>1. d \in Datagrams /\ DatagramInv(d)
  BY DEF TrackInv, TypeOK, NetworkInv
<1>2. /\ window.last_sent \in Int /\ window.checkpoint \in Int /\ d.cp \in Int
      /\ receiver.cp \in Int /\ d.at \in Int
  BY <1>1 DEF TrackInv, TypeOK, Datagrams, Checkpoints, Frames
<1>3. d.cp <= window.last_sent
  BY <1>1, <1>2 DEF DatagramInv, TrackInv, WindowInv
<1>4. window.last_sent < d.cp + WireCycle
  <2>1. CASE Timed
    <3>1. d.time # NoTime /\ ~Outdated(d.time)
      BY <1>1, <2>1 DEF DatagramInv
    <3>2. window.newest = NoTime \/ d.time >= window.newest
      BY <1>1, <3>1 DEF Outdated, TrackInv, TypeOK, Datagrams, Times
    <3>3. d.cp >= window.checkpoint
      BY <1>1, <2>1, <3>2 DEF DatagramInv
    <3>4. window.last_sent - window.checkpoint <= MaxUnacked
      BY DEF TrackInv, WindowInv
    <3>5. QED
      BY <1>2, <3>3, <3>4, CycleAssumption
  <2>2. CASE ~Timed
    <3>1. window.last_sent - d.at < Lifetime
      BY <1>1, <2>2 DEF DatagramInv, OnTime
    <3>2. d.at - d.cp <= MaxUnacked
      BY <1>1 DEF DatagramInv
    <3>3. QED
      BY <1>2, <3>1, <3>2, CycleAssumption, TrackAssumption, LifetimeAssumption
  <2>3. QED
    BY <2>1, <2>2
<1>5. QED
  BY <1>2, <1>3, <1>4, ExpansionExact

(* The same, once it was accepted. *)
LEMMA AcceptedExact ==
    ASSUME TrackInv, NEW d \in network, OnTime(d),
           Accepted(Expanded(window.last_sent, d.cp % WireCycle), d.time)
    PROVE  /\ Expanded(window.last_sent, d.cp % WireCycle) = d.cp
           /\ ~Outdated(d.time) /\ d.cp >= window.checkpoint
BY DatagramExact DEF Accepted

(* A NACK in the inbox finds the frame it means or none. *)
LEMMA NacksExact ==
    ASSUME TrackInv
    PROVE  NackNamesFrame
<1> SUFFICES ASSUME NEW i \in 1..Len(inbox), NEW f \in inbox[i],
                    NEW h \in Matches(f)
             PROVE  h = f
  BY DEF NackNamesFrame
<1>1. inbox[i] \in SUBSET Frames /\ i \in Nat
  BY DEF TrackInv, TypeOK
<1>2. f \in Int /\ h \in Int /\ window.last_sent \in Int /\ worker.frame_id \in Int
  BY <1>1 DEF TrackInv, TypeOK, Frames, Checkpoints, Matches, History
<1>3. f <= window.last_sent /\ f >= window.last_sent - MaxUnacked - NackInbox + 1
  <2>1. /\ f <= window.last_sent
        /\ f >= window.last_sent - MaxUnacked - NackInbox + i + 1 - Slack
    BY DEF TrackInv, InboxInv
  <2>2. Slack \in {0, 1} /\ i >= 1 /\ MaxUnacked \in Int /\ NackInbox \in Int
    BY CycleAssumption DEF Slack
  <2>3. QED
    BY SMTT(30), <1>1, <1>2, <2>1, <2>2
<1>4. worker.oldest \in Int /\ worker.frame_id - worker.oldest <= MaxUnacked
  BY DEF TrackInv, TypeOK, HistoryInv, Frames
<1>5. h >= worker.oldest /\ h <= worker.frame_id - 1 /\ h % WireCycle = f % WireCycle
  BY DEF Matches, History
<1>6. worker.frame_id = window.last_sent \/ worker.frame_id = window.last_sent + 1
  BY DEF TrackInv, WindowInv
<1>7. h - f < WireCycle /\ f - h < WireCycle
  <2>1. MaxUnacked \in Int /\ NackInbox \in Int /\ WireCycle \in Int
        /\ MaxUnacked >= 1 /\ NackInbox >= 1 /\ MaxUnacked + NackInbox < WireCycle
    BY CycleAssumption
  <2>2. h <= window.last_sent /\ h >= window.last_sent - MaxUnacked
    <3>1. CASE worker.frame_id = window.last_sent
      BY SMTT(30), <1>2, <1>4, <1>5, <2>1, <3>1
    <3>2. CASE worker.frame_id = window.last_sent + 1
      BY SMTT(30), <1>2, <1>4, <1>5, <2>1, <3>2
    <3>3. QED
      BY <1>6, <3>1, <3>2
  <2>3. QED
    BY SMTT(30), <1>2, <1>3, <2>1, <2>2
<1>8. QED
  BY <1>2, <1>5, <1>7, SameByte

(* What retransmit queues are frames. *)
LEMMA RequeuedTyped ==
    ASSUME TrackInv, NEW n \in 0..Len(inbox)
    PROVE  Requeued(UNION {inbox[i] : i \in 1..n}) \subseteq Frames
<1> SUFFICES ASSUME NEW i \in 1..n, NEW f \in inbox[i], Matches(f) # {}
             PROVE  Named(f) \in Frames
  BY DEF Requeued, TrackInv, TypeOK
<1>1. i \in 1..Len(inbox)
  BY DEF TrackInv, TypeOK
<1>2. Matches(f) = {f}
  BY <1>1, NacksExact DEF NackNamesFrame
<1>3. f \in Int /\ f \in Frames
  BY <1>1 DEF TrackInv, TypeOK, Frames
<1>4. Named(f) = f
  BY <1>2, <1>3 DEF Named
<1>5. QED
  BY <1>3, <1>4

-----------------------------------------------------------------------------
(* The invariant holds at first and is kept by every action. *)

LEMMA InitTrackInv ==
    ASSUME Init
    PROVE  TrackInv
<1>1. TypeOK
  <2>1. /\ 0 \in Frames /\ -1 \in Checkpoints /\ 0 \in Times /\ Video \in BOOLEAN
        /\ NackInbox >= 0
    BY CycleAssumption, TrackAssumption DEF Frames, Checkpoints, Times
  <2>2. window \in [last_sent : Checkpoints, checkpoint : Checkpoints,
                    newest : Times \cup {NoTime}, stalled : BOOLEAN]
    BY <2>1 DEF Init
  <2>3. worker \in [pc : {"turn", "pull", "send", "push", "ended", "failed"},
                    key : BOOLEAN, acked : Checkpoints,
                    frame_id : Frames, oldest : Frames,
                    resyncing : BOOLEAN, resync_requested : BOOLEAN,
                    key_frame_request : BOOLEAN]
    BY <2>1 DEF Init
  <2>4. inbox \in Seq(SUBSET Frames) /\ Len(inbox) <= NackInbox
    BY <2>1 DEF Init
  <2>5. QED
    BY <2>1, <2>2, <2>3, <2>4 DEF Init, TypeOK
<1>2. WindowInv /\ HistoryInv
  BY CycleAssumption DEF Init, WindowInv, HistoryInv
<1>3. InboxInv /\ NetworkInv
  BY TrackAssumption DEF Init, InboxInv, NetworkInv
<1>4. QED
  BY <1>1, <1>2, <1>3 DEF TrackInv

(* Feedback under way does not depend on the worker. *)
LEMMA NetworkUnchanged ==
    ASSUME NetworkInv, UNCHANGED <<window, receiver, network>>
    PROVE  NetworkInv'
BY DEF NetworkInv, DatagramInv

(* A worker that only moves on keeps its place in window and history. *)
LEMMA WorkerMoves ==
    ASSUME TrackInv, UNCHANGED <<window, inbox, receiver, network>>,
           TypeOK',
           worker'.frame_id = worker.frame_id, worker'.oldest = worker.oldest,
           worker'.acked = worker.acked,
           \/ worker'.pc \in {"turn", "ended", "failed"}
           \/ worker'.pc = worker.pc,
           worker'.pc = "turn" => worker.pc \in {"turn", "pull", "send"}
    PROVE  TrackInv'
<1>1. WindowInv'
  BY DEF TrackInv, WindowInv
<1>2. HistoryInv'
  BY DEF TrackInv, HistoryInv
<1>3. InboxInv'
  <2>1. inbox \in Seq(SUBSET Frames) /\ window.last_sent \in Int
    BY DEF TrackInv, TypeOK, Checkpoints, Frames
  <2>2. Slack' \in {0, 1} /\ Slack \in {0, 1} /\ Slack' >= Slack
    BY DEF Slack
  <2>3. QED
    BY SMTT(30), <2>1, <2>2, CycleAssumption DEF TrackInv, InboxInv, Frames
<1>4. NetworkInv'
  BY NetworkUnchanged DEF TrackInv
<1>5. QED
  BY <1>1, <1>2, <1>3, <1>4 DEF TrackInv

LEMMA TurnKeepsInv ==
    ASSUME TrackInv, Turn
    PROVE  TrackInv'
<1>1. PICK n \in 0..Len(inbox) :
         /\ n > 0 \/ inbox = <<>>
         /\ inbox' = SubSeq(inbox, n + 1, Len(inbox))
         /\ repairs' \subseteq Requeued(UNION {inbox[i] : i \in 1..n})
         /\ wanted' \in BOOLEAN
         /\ encoder' \in [forced : BOOLEAN, linked : BOOLEAN]
  BY DEF Turn, TrackInv, TypeOK
<1>2. /\ worker' = [worker EXCEPT !.pc = "pull", !.key_frame_request = FALSE]
      /\ UNCHANGED <<window, stop, receiver, network>>
  BY DEF Turn
<1>3. inbox \in Seq(SUBSET Frames) /\ Len(inbox) \in Nat /\ Len(inbox) <= NackInbox
  BY DEF TrackInv, TypeOK
<1>4. /\ inbox' \in Seq(SUBSET Frames) /\ Len(inbox') = Len(inbox) - n
      /\ \A i \in 1..Len(inbox') : inbox'[i] = inbox[i + n]
  BY <1>1, <1>3
<1>5. TypeOK'
  <2>1. worker' \in [pc : {"turn", "pull", "send", "push", "ended", "failed"},
                     key : BOOLEAN, acked : Checkpoints,
                     frame_id : Frames, oldest : Frames,
                     resyncing : BOOLEAN, resync_requested : BOOLEAN,
                     key_frame_request : BOOLEAN]
    BY <1>2 DEF TrackInv, TypeOK
  <2>2. repairs' \in SUBSET Frames
    BY <1>1, RequeuedTyped
  <2>3. Len(inbox') <= NackInbox
    BY <1>1, <1>3, <1>4, CycleAssumption
  <2>4. QED
    BY <1>1, <1>2, <1>4, <2>1, <2>2, <2>3 DEF TrackInv, TypeOK
<1>6. WindowInv' /\ HistoryInv'
  <2>1. worker.pc = "turn"
    BY DEF Turn
  <2>2. QED
    BY <1>2, <2>1 DEF TrackInv, TypeOK, WindowInv, HistoryInv
<1>7. InboxInv'
  <2>1. Slack = 1 /\ Slack' = 0
    BY <1>2 DEF Turn, Slack, TrackInv, TypeOK
  <2>2. window.last_sent \in Int
    BY DEF TrackInv, TypeOK, Checkpoints, Frames
  <2>3. SUFFICES ASSUME NEW i \in 1..Len(inbox'), NEW f \in inbox'[i]
                 PROVE  /\ f <= window.last_sent
                        /\ f >= window.last_sent - MaxUnacked - NackInbox + i + 1
    BY <1>2, <2>1, <2>2, CycleAssumption DEF InboxInv
  <2>4. i + n \in 1..Len(inbox) /\ f \in inbox[i + n] /\ n >= 1
    BY <1>1, <1>3, <1>4
  <2>5. /\ f <= window.last_sent
        /\ f >= window.last_sent - MaxUnacked - NackInbox + (i + n) + 1 - 1
    BY <2>1, <2>4 DEF TrackInv, InboxInv
  <2>6. f \in Int
    BY <1>3, <2>4 DEF Frames
  <2>7. QED
    <3>1. n \in Int /\ i \in Int /\ n >= 1
      BY <2>4
    <3>2. MaxUnacked \in Int /\ NackInbox \in Int
      BY CycleAssumption
    <3>3. QED
      BY SMTT(30), <2>2, <2>5, <2>6, <3>1, <3>2
<1>8. NetworkInv'
  BY <1>2, NetworkUnchanged DEF TrackInv
<1>9. QED
  BY <1>5, <1>6, <1>7, <1>8 DEF TrackInv

LEMMA TurnEndsKeepsInv ==
    ASSUME TrackInv, TurnEnds
    PROVE  TrackInv'
<1>1. PICK pc \in {"ended", "failed"} : worker' = [worker EXCEPT !.pc = pc]
  BY DEF TurnEnds
<1>2. UNCHANGED <<window, repairs, inbox, wanted, stop, encoder, receiver, network>>
  BY DEF TurnEnds
<1>3. TypeOK'
  BY <1>1, <1>2 DEF TrackInv, TypeOK
<1>4. QED
  BY <1>1, <1>2, <1>3, WorkerMoves DEF TrackInv, TypeOK

LEMMA NoSampleKeepsInv ==
    ASSUME TrackInv, NoSample
    PROVE  TrackInv'
<1>1. PICK pc \in {"turn", "ended"} : worker' = [worker EXCEPT !.pc = pc]
  BY DEF NoSample
<1>2. /\ worker.pc = "pull"
      /\ UNCHANGED <<window, repairs, inbox, wanted, stop, encoder, receiver, network>>
  BY DEF NoSample
<1>3. TypeOK'
  BY <1>1, <1>2 DEF TrackInv, TypeOK
<1>4. QED
  BY <1>1, <1>2, <1>3, WorkerMoves DEF TrackInv, TypeOK

LEMMA PullKeepsInv ==
    ASSUME TrackInv, NEW key \in BOOLEAN, Pull(key)
    PROVE  TrackInv'
<1> DEFINE sent == [worker EXCEPT !.pc = "send", !.key = key,
                                  !.resyncing = FALSE,
                                  !.resync_requested = @ /\ ~worker.resyncing]
<1>1. /\ worker.pc = "pull"
      /\ UNCHANGED <<window, repairs, inbox, wanted, stop, receiver, network>>
      /\ worker' \in {Refused, AwaitingKey} \/ (CanSend /\ worker' = sent)
  BY DEF Pull
<1>2. encoder' \in [forced : BOOLEAN, linked : BOOLEAN]
  BY DEF Pull, TrackInv, TypeOK
<1>3. CASE worker' \in {Refused, AwaitingKey}
  <2>1. TypeOK'
    <3>1. CASE worker' = Refused
      BY ZenonT(60), <1>1, <1>2, <3>1, TrackAssumption DEF Refused, TrackInv, TypeOK
    <3>2. CASE worker' = AwaitingKey
      BY <1>1, <1>2, <3>2 DEF AwaitingKey, TrackInv, TypeOK
    <3>3. QED
      BY <1>3, <3>1, <3>2
  <2>2. /\ worker'.frame_id = worker.frame_id /\ worker'.oldest = worker.oldest
        /\ worker'.acked = worker.acked /\ worker'.pc = "turn"
    BY ZenonT(60), <1>3 DEF Refused, AwaitingKey, TrackInv, TypeOK
  <2>3. QED
    BY <1>1, <2>1, <2>2, WorkerMoves
<1>4. CASE CanSend /\ worker' = sent
  <2>1. TypeOK'
    BY ZenonT(60), <1>1, <1>2, <1>4 DEF TrackInv, TypeOK
  <2>2. /\ worker'.frame_id = worker.frame_id /\ worker'.oldest = worker.oldest
        /\ worker'.acked = worker.acked /\ worker'.pc = "send"
    BY <1>4 DEF TrackInv, TypeOK
  <2>3. WindowInv' /\ HistoryInv'
    BY <1>1, <1>4, <2>2 DEF TrackInv, WindowInv, HistoryInv, CanSend, Pending
  <2>4. InboxInv'
    <3>1. Slack' = Slack
      BY <1>1, <2>2 DEF Slack
    <3>2. QED
      BY <1>1, <3>1 DEF TrackInv, InboxInv
  <2>5. NetworkInv'
    BY <1>1, NetworkUnchanged DEF TrackInv
  <2>6. QED
    BY <2>1, <2>3, <2>4, <2>5 DEF TrackInv
<1>5. QED
  BY <1>1, <1>3, <1>4

LEMMA PullFailsKeepsInv ==
    ASSUME TrackInv, PullFails
    PROVE  TrackInv'
<1>1. worker' = [worker EXCEPT !.pc = "failed"]
  BY DEF PullFails
<1>2. UNCHANGED <<window, repairs, inbox, wanted, stop, encoder, receiver, network>>
  BY DEF PullFails
<1>3. TypeOK'
  BY <1>1, <1>2 DEF TrackInv, TypeOK
<1>4. QED
  BY <1>1, <1>2, <1>3, WorkerMoves DEF TrackInv, TypeOK

LEMMA SendKeepsInv ==
    ASSUME TrackInv, Send
    PROVE  TrackInv'
<1>1. /\ worker.pc = "send" /\ window' = SentWindow
      /\ worker' = [worker EXCEPT !.pc = "push", !.acked = window.checkpoint]
      /\ encoder' = [encoder EXCEPT !.linked = TRUE]
      /\ UNCHANGED <<repairs, inbox, wanted, stop, receiver, network>>
  BY DEF Send
<1>2. window' \in [last_sent : Checkpoints, checkpoint : Checkpoints,
                   newest : Times \cup {NoTime}, stalled : BOOLEAN]
  BY <1>1 DEF SentWindow, TrackInv, TypeOK, Checkpoints
<1>3. worker' \in [pc : {"turn", "pull", "send", "push", "ended", "failed"},
                   key : BOOLEAN, acked : Checkpoints,
                   frame_id : Frames, oldest : Frames,
                   resyncing : BOOLEAN, resync_requested : BOOLEAN,
                   key_frame_request : BOOLEAN]
  BY <1>1 DEF TrackInv, TypeOK
<1>4. TypeOK'
  BY <1>1, <1>2, <1>3 DEF TrackInv, TypeOK
<1>5. /\ window'.last_sent = worker.frame_id
      /\ window'.checkpoint = window.checkpoint /\ window'.newest = window.newest
      /\ worker'.pc = "push" /\ worker'.acked = window.checkpoint
      /\ worker'.frame_id = worker.frame_id /\ worker'.oldest = worker.oldest
  BY <1>1 DEF SentWindow, TrackInv, TypeOK
<1>6. /\ window.last_sent \in Int /\ window.checkpoint \in Int
      /\ receiver.cp \in Int /\ worker.frame_id \in Int
      /\ worker.frame_id = window.last_sent + 1
  BY <1>1 DEF TrackInv, TypeOK, WindowInv, Checkpoints, Frames
<1>7. WindowInv'
  BY <1>1, <1>5, <1>6, CycleAssumption DEF TrackInv, WindowInv
<1>8. HistoryInv'
  BY <1>5, <1>6 DEF TrackInv, HistoryInv, WindowInv
<1>9. InboxInv'
  <2>1. Slack = 0 /\ Slack' = 1
    BY <1>1, <1>5 DEF Slack
  <2>2. inbox \in Seq(SUBSET Frames)
    BY DEF TrackInv, TypeOK
  <2>3. SUFFICES ASSUME NEW i \in 1..Len(inbox), NEW f \in inbox[i]
                 PROVE  /\ f <= worker.frame_id
                        /\ f >= worker.frame_id - MaxUnacked - NackInbox + i + 1 - 1
    BY <1>1, <1>5, <2>1 DEF InboxInv
  <2>4. /\ f <= window.last_sent
        /\ f >= window.last_sent - MaxUnacked - NackInbox + i + 1 - 0
    BY <2>1 DEF TrackInv, InboxInv
  <2>5. f \in Int /\ MaxUnacked \in Int /\ NackInbox \in Int
    BY <2>2, CycleAssumption DEF Frames
  <2>6. QED
    BY SMTT(30), <1>6, <2>4, <2>5
<1>10. NetworkInv'
  <2>1. ASSUME NEW d \in network
        PROVE  DatagramInv(d)'
    <3>1. DatagramInv(d) /\ d.at \in Int
      BY DEF TrackInv, NetworkInv, TypeOK, Datagrams, Checkpoints, Frames
    <3>2. QED
      BY <1>1, <1>5, <1>6, <3>1 DEF DatagramInv
  <2>2. QED
    BY <1>1, <1>5, <2>1 DEF TrackInv, NetworkInv
<1>11. QED
  BY <1>4, <1>7, <1>8, <1>9, <1>10 DEF TrackInv

LEMMA PushKeepsInv ==
    ASSUME TrackInv, Push
    PROVE  TrackInv'
<1>1. /\ worker.pc = "push"
      /\ UNCHANGED <<window, repairs, inbox, wanted, stop, encoder, receiver, network>>
  BY DEF Push
<1>2. CASE worker.frame_id = MaxFrameId
  <2>1. worker' = [worker EXCEPT !.pc = "failed"]
    BY <1>2 DEF Push
  <2>2. TypeOK'
    BY <1>1, <2>1 DEF TrackInv, TypeOK
  <2>3. QED
    BY <1>1, <2>1, <2>2, WorkerMoves DEF TrackInv, TypeOK
<1>3. CASE worker.frame_id # MaxFrameId
  <2>1. PICK oldest \in Aged :
           worker' = [worker EXCEPT !.pc = "turn", !.frame_id = @ + 1,
                                    !.oldest = Pruned(oldest)]
    BY <1>3 DEF Push
  <2> DEFINE kept == Pruned(oldest)
  <2>2. /\ window.last_sent \in Int /\ window.checkpoint \in Int
        /\ worker.frame_id \in Frames /\ worker.oldest \in Frames
        /\ worker.acked \in Int
    BY DEF TrackInv, TypeOK, Checkpoints, Frames
  <2>3. /\ worker.frame_id = window.last_sent
        /\ window.last_sent - window.checkpoint <= MaxUnacked
        /\ worker.acked <= window.checkpoint /\ worker.acked < worker.frame_id
        /\ worker.oldest <= window.checkpoint + 1
    BY <1>1 DEF TrackInv, WindowInv, HistoryInv
  <2>4. oldest \in Int /\ worker.oldest <= oldest
        /\ (oldest = worker.oldest \/ oldest <= worker.acked + 1)
    BY <2>2 DEF Aged, Frames
  <2>5. worker.oldest <= worker.frame_id /\ window.checkpoint <= window.last_sent
    BY DEF TrackInv, TypeOK, HistoryInv, WindowInv, Checkpoints, Frames
  <2>6. /\ kept \in Frames /\ kept <= window.checkpoint + 1
        /\ worker.frame_id + 1 - kept <= MaxUnacked
    BY <2>2, <2>3, <2>4, <2>5, CycleAssumption DEF Pruned, Frames
  <2> HIDE DEF kept
  <2>7. /\ worker'.pc = "turn" /\ worker'.frame_id = worker.frame_id + 1
        /\ worker'.oldest = kept /\ worker'.acked = worker.acked
    BY <2>1 DEF kept, TrackInv, TypeOK
  <2>8. worker.frame_id + 1 \in Frames
    BY <1>3, <2>2, CycleAssumption DEF Frames
  <2>9. TypeOK'
    BY <1>1, <2>1, <2>6, <2>8 DEF kept, TrackInv, TypeOK
  <2>10. WindowInv' /\ HistoryInv'
    BY <1>1, <2>2, <2>3, <2>5, <2>6, <2>7 DEF TrackInv, WindowInv, HistoryInv, Frames
  <2>11. InboxInv'
    <3>1. Slack' = Slack
      BY <1>1, <2>7 DEF Slack
    <3>2. QED
      BY <1>1, <3>1 DEF TrackInv, InboxInv
  <2>12. NetworkInv'
    BY <1>1, NetworkUnchanged DEF TrackInv
  <2>13. QED
    BY <2>9, <2>10, <2>11, <2>12 DEF TrackInv
<1>4. QED
  BY <1>2, <1>3

LEMMA PushFailsKeepsInv ==
    ASSUME TrackInv, PushFails
    PROVE  TrackInv'
<1>1. PICK pc \in {"ended", "failed"} : worker' = [worker EXCEPT !.pc = pc]
  BY DEF PushFails
<1>2. UNCHANGED <<window, repairs, inbox, wanted, stop, encoder, receiver, network>>
  BY DEF PushFails
<1>3. TypeOK'
  BY <1>1, <1>2 DEF TrackInv, TypeOK
<1>4. QED
  BY <1>1, <1>2, <1>3, WorkerMoves DEF TrackInv, TypeOK

(* Losing a datagram, or having it no more, takes nothing from the rest. *)
LEMMA NetworkShrinks ==
    ASSUME NetworkInv, UNCHANGED <<window, receiver>>, network' \subseteq network
    PROVE  NetworkInv'
BY DEF NetworkInv, DatagramInv

LEMMA AcceptedKeepsNetwork ==
    ASSUME TrackInv, NEW d \in network, network' \subseteq network,
           UNCHANGED receiver, ~Outdated(d.time), d.cp >= window.checkpoint,
           window'.last_sent = window.last_sent, window'.checkpoint = d.cp,
           window'.newest = IF d.time = NoTime THEN window.newest ELSE d.time
    PROVE  NetworkInv'
<1>1. NetworkInv /\ DatagramInv(d) /\ network \in SUBSET Datagrams
  BY DEF TrackInv, NetworkInv, TypeOK
<1>2. CASE Timed
  <2>1. d.time # NoTime /\ d.time \in Times /\ window'.newest = d.time
    BY <1>1, <1>2 DEF DatagramInv, Datagrams
  <2>2. d.time <= receiver.clock
    BY <1>1, <1>2 DEF DatagramInv
  <2>3. ASSUME NEW e \in network
        PROVE  DatagramInv(e)'
    <3>1. DatagramInv(e) /\ e.time \in Times
      BY <1>1, <1>2 DEF NetworkInv, DatagramInv, Datagrams
    <3>2. d.time <= e.time => d.cp <= e.cp
      BY <1>1, <1>2 DEF NetworkInv
    <3>3. QED
      BY <1>2, <2>1, <3>1, <3>2, TrackAssumption DEF DatagramInv, Times
  <2>4. QED
    BY <1>1, <1>2, <2>1, <2>2, <2>3, TrackAssumption DEF NetworkInv, Times
<1>3. CASE ~Timed
  <2>1. d.time = NoTime /\ window'.newest = window.newest
    BY <1>1, <1>3 DEF DatagramInv
  <2>2. ASSUME NEW e \in network
        PROVE  DatagramInv(e)'
    BY <1>1, <1>3 DEF NetworkInv, DatagramInv
  <2>3. QED
    BY <1>1, <1>3, <2>1, <2>2 DEF NetworkInv
<1>4. QED
  BY <1>2, <1>3, TrackAssumption

LEMMA DeliverKeepsInv ==
    ASSUME TrackInv, NEW d \in network, NEW kept \in BOOLEAN, Deliver(d, kept)
    PROVE  TrackInv'
<1> DEFINE id == Expanded(window.last_sent, d.cp % WireCycle)
<1>1. /\ OnTime(d) /\ Delivered(d) /\ network' \subseteq network
      /\ UNCHANGED <<worker, repairs, wanted, stop, encoder, receiver>>
  BY DEF Deliver
<1>2. d \in Datagrams /\ DatagramInv(d)
  BY DEF TrackInv, TypeOK, NetworkInv
<1>3. CASE ~Accepted(id, d.time)
  <2>1. UNCHANGED <<window, inbox>>
    BY <1>1, <1>3 DEF Delivered
  <2>2. TypeOK'
    BY <1>1, <2>1 DEF TrackInv, TypeOK
  <2>3. WindowInv' /\ HistoryInv' /\ InboxInv'
    BY <1>1, <2>1 DEF TrackInv, WindowInv, HistoryInv, InboxInv, Slack
  <2>4. NetworkInv'
    BY <1>1, <2>1, NetworkShrinks DEF TrackInv
  <2>5. QED
    BY <2>2, <2>3, <2>4 DEF TrackInv
<1>4. CASE Accepted(id, d.time)
  <2>1. id = d.cp /\ ~Outdated(d.time) /\ d.cp >= window.checkpoint
    BY <1>1, <1>4, AcceptedExact
  <2>2. /\ window' = Acknowledged(d.cp, d.time)
        /\ inbox' = IF d.nacks # {} /\ Len(inbox) < NackInbox
                    THEN Append(inbox, d.nacks) ELSE inbox
    BY <1>1, <1>4, <2>1 DEF Delivered
  <2>3. /\ window'.last_sent = window.last_sent /\ window'.checkpoint = d.cp
        /\ window'.newest = IF d.time = NoTime THEN window.newest ELSE d.time
    BY <2>2 DEF Acknowledged, TrackInv, TypeOK
  <2>4. /\ window.last_sent \in Int /\ window.checkpoint \in Int /\ d.cp \in Int
        /\ worker.oldest \in Int /\ worker.acked \in Int /\ receiver.cp \in Int
        /\ inbox \in Seq(SUBSET Frames) /\ Len(inbox) <= NackInbox
        /\ d.nacks \in SUBSET Frames
    BY <1>2 DEF TrackInv, TypeOK, Checkpoints, Frames, Datagrams
  <2>5. inbox' \in Seq(SUBSET Frames) /\ Len(inbox') <= NackInbox
    BY <2>2, <2>4, CycleAssumption
  <2>6. TypeOK'
    <3>1. window' \in [last_sent : Checkpoints, checkpoint : Checkpoints,
                       newest : Times \cup {NoTime}, stalled : BOOLEAN]
      BY <1>2, <2>2 DEF Acknowledged, TrackInv, TypeOK, Datagrams
    <3>2. QED
      BY <1>1, <2>5, <3>1 DEF TrackInv, TypeOK
  <2>7. WindowInv' /\ HistoryInv'
    <3>1. d.cp <= receiver.cp
      BY <1>2 DEF DatagramInv
    <3>2. WindowInv'
      BY SMTT(30), <1>1, <2>1, <2>3, <2>4, <3>1, CycleAssumption DEF TrackInv, WindowInv
    <3>3. HistoryInv'
      BY <1>1, <2>1, <2>3, <2>4 DEF TrackInv, HistoryInv
    <3>4. QED
      BY <3>2, <3>3
  <2>8. InboxInv'
    <3>1. Slack' = Slack /\ Slack \in {0, 1}
      BY <1>1 DEF Slack
    <3>2. CASE inbox' = inbox
      BY <2>3, <3>1, <3>2 DEF TrackInv, InboxInv
    <3>3. CASE inbox' = Append(inbox, d.nacks) /\ Len(inbox) < NackInbox
      <4>1. SUFFICES ASSUME NEW i \in 1..Len(inbox'), NEW f \in inbox'[i]
                     PROVE  /\ f <= window.last_sent
                            /\ f >= window.last_sent - MaxUnacked - NackInbox
                                       + i + 1 - Slack
        BY <2>3, <3>1 DEF InboxInv
      <4>2. CASE i \in 1..Len(inbox)
        <5>1. f \in inbox[i]
          BY <2>4, <3>3, <4>2
        <5>2. QED
          BY <4>2, <5>1 DEF TrackInv, InboxInv
      <4>3. CASE i = Len(inbox) + 1
        <5>1. f \in d.nacks
          BY <2>4, <3>3, <4>3
        <5>2. f \in Int /\ d.cp < f /\ f <= d.at /\ d.at <= window.last_sent
              /\ d.at \in Int
          BY <1>2, <2>4, <5>1 DEF DatagramInv, Datagrams, Frames, Checkpoints
        <5>3. i <= NackInbox /\ i \in Int /\ NackInbox \in Int /\ MaxUnacked \in Int
          BY <2>4, <3>3, <4>3, CycleAssumption
        <5>4. window.last_sent - window.checkpoint <= MaxUnacked
          BY DEF TrackInv, WindowInv
        <5>5. f >= window.last_sent - MaxUnacked + 1
          <6>1. /\ d.cp \in Int /\ window.checkpoint \in Int
                /\ window.last_sent \in Int /\ d.cp >= window.checkpoint
            BY <2>1, <2>4
          <6>2. f \in Int /\ d.cp < f
            BY <5>2
          <6>3. QED
            BY <5>3, <5>4, <6>1, <6>2
        <5>6. Slack \in Int /\ Slack >= 0
          BY <3>1
        <5>7. f <= window.last_sent /\ window.last_sent \in Int
          BY <2>4, <5>2
        <5>8. QED
          BY <5>2, <5>3, <5>5, <5>6, <5>7
      <4>4. QED
        BY <2>4, <3>3, <4>2, <4>3
    <3>4. QED
      BY <2>2, <3>2, <3>3
  <2>9. NetworkInv'
    BY <1>1, <2>1, <2>3, AcceptedKeepsNetwork
  <2>10. QED
    BY <2>6, <2>7, <2>8, <2>9 DEF TrackInv
<1>5. QED
  BY <1>3, <1>4

LEMMA ReportKeepsInv ==
    ASSUME TrackInv, Report
    PROVE  TrackInv'
<1>1. PICK cp \in receiver.cp..window.last_sent :
       \E nacks \in SUBSET ((cp + 1)..window.last_sent) :
         /\ receiver' = [cp |-> cp, clock |-> receiver.clock + 1]
         /\ network' = network \cup
              {[cp |-> cp, nacks |-> nacks, at |-> window.last_sent,
                time |-> IF Timed THEN receiver.clock + 1 ELSE NoTime]}
  BY DEF Report
<1>2. PICK nacks \in SUBSET ((cp + 1)..window.last_sent) :
         /\ receiver' = [cp |-> cp, clock |-> receiver.clock + 1]
         /\ network' = network \cup
              {[cp |-> cp, nacks |-> nacks, at |-> window.last_sent,
                time |-> IF Timed THEN receiver.clock + 1 ELSE NoTime]}
  BY <1>1
<1> DEFINE new == [cp |-> cp, nacks |-> nacks, at |-> window.last_sent,
                   time |-> IF Timed THEN receiver.clock + 1 ELSE NoTime]
<1>3. /\ receiver.clock < MaxReports
      /\ UNCHANGED <<window, worker, repairs, inbox, wanted, stop, encoder>>
  BY DEF Report
<1>4. /\ window.last_sent \in Checkpoints /\ receiver.cp \in Checkpoints
      /\ window.checkpoint \in Checkpoints
      /\ receiver.clock \in Times /\ receiver'.clock = receiver.clock + 1
      /\ receiver'.cp = cp
  BY <1>2 DEF TrackInv, TypeOK
<1>5. cp \in Checkpoints /\ nacks \in SUBSET Frames
  BY <1>4, CycleAssumption DEF Checkpoints, Frames
<1>6. receiver.clock + 1 \in Times
  BY <1>3, <1>4, TrackAssumption DEF Times
<1>7. TypeOK'
  <2>1. new \in Datagrams
    BY <1>4, <1>5, <1>6 DEF Datagrams
  <2>2. QED
    BY <1>2, <1>3, <1>5, <1>6, <2>1 DEF TrackInv, TypeOK
<1>8. WindowInv' /\ HistoryInv' /\ InboxInv'
  <2>1. WindowInv'
    BY <1>3, <1>4, <1>5 DEF TrackInv, WindowInv, Checkpoints, Frames
  <2>2. HistoryInv' /\ InboxInv'
    BY <1>3 DEF TrackInv, HistoryInv, InboxInv, Slack
  <2>3. QED
    BY <2>1, <2>2
<1>9. NetworkInv'
  <2>1. ASSUME NEW d \in network
        PROVE  DatagramInv(d)' /\ d.cp <= cp /\ (Timed => d.time <= receiver.clock)
    <3>1. DatagramInv(d) /\ d \in Datagrams
      BY DEF TrackInv, NetworkInv, TypeOK
    <3>2. d.cp <= cp
      BY <1>4, <3>1 DEF DatagramInv, Datagrams, Checkpoints, Frames
    <3>3. Timed => d.time \in Times /\ d.time <= receiver'.clock
      BY <1>4, <3>1 DEF DatagramInv, Datagrams, Times
    <3>4. QED
      BY <1>3, <1>4, <3>1, <3>2, <3>3 DEF DatagramInv
  <2>2. ASSUME NEW d \in network', d = new
        PROVE  DatagramInv(d)'
    <3>1. receiver.clock + 1 # NoTime
      BY <1>6, TrackAssumption DEF Times
    <3>2. cp >= window.checkpoint /\ window.last_sent - cp <= MaxUnacked
      BY <1>4, <1>5, CycleAssumption DEF TrackInv, WindowInv, Checkpoints, Frames
    <3>3. \A f \in nacks : cp < f /\ f <= window.last_sent
      BY <1>4, <1>5 DEF Checkpoints, Frames
    <3>4. /\ d.cp = cp /\ d.at = window.last_sent /\ d.nacks = nacks
          /\ d.time = IF Timed THEN receiver.clock + 1 ELSE NoTime
      BY <2>2
    <3> HIDE DEF new
    <3>5. QED
      <4>1. /\ d.cp <= receiver'.cp /\ d.at <= window'.last_sent
            /\ d.at - d.cp <= MaxUnacked
            /\ \A f \in d.nacks : d.cp < f /\ f <= d.at
        <5>1. cp \in Int /\ window.last_sent \in Int /\ cp <= window.last_sent
          BY <1>4, <1>5 DEF Checkpoints, Frames
        <5>2. receiver'.cp = cp /\ window'.last_sent = window.last_sent
          BY <1>3, <1>4
        <5>3. d.cp <= receiver'.cp /\ d.at <= window'.last_sent
          BY <3>4, <5>1, <5>2
        <5>4. QED
          BY <3>2, <3>3, <3>4, <5>3
      <4>2. d.time = NoTime <=> ~Timed
        BY <3>1, <3>4
      <4>3. Timed => d.time <= receiver'.clock
        BY <1>4, <3>4 DEF Times
      <4>4. d.cp >= window'.checkpoint
        BY <1>3, <3>2, <3>4
      <4>5. QED
        BY <4>1, <4>2, <4>3, <4>4 DEF DatagramInv
  <2>3. Timed => \A d1, d2 \in network' : d1.time <= d2.time => d1.cp <= d2.cp
    <3>1. SUFFICES ASSUME Timed, NEW d1 \in network', NEW d2 \in network',
                          d1.time <= d2.time
                   PROVE  d1.cp <= d2.cp
      OBVIOUS
    <3>2. new.time = receiver.clock + 1 /\ new.cp = cp /\ cp <= cp
      BY <1>5, <3>1 DEF Checkpoints, Frames
    <3>3. \A d \in network : d.time \in Times /\ ~(new.time <= d.time)
      BY <1>4, <2>1, <3>1, <3>2
         DEF TrackInv, TypeOK, Datagrams, NetworkInv, DatagramInv, Times
    <3>4. \A d \in network' : d \in network \/ d = new
      BY <1>2
    <3> HIDE DEF new
    <3>5. QED
      BY <2>1, <3>1, <3>2, <3>3, <3>4 DEF TrackInv, NetworkInv
  <2>4. window.newest # NoTime => window.newest <= receiver'.clock
    BY <1>4 DEF TrackInv, NetworkInv, TypeOK, Times
  <2>5. \A d \in network' : DatagramInv(d)'
    BY <1>2, <2>1, <2>2
  <2> HIDE DEF new
  <2>6. QED
    BY <1>3, <2>3, <2>4, <2>5 DEF TrackInv, NetworkInv
<1>10. QED
  BY <1>7, <1>8, <1>9 DEF TrackInv

LEMMA SilenceKeepsInv ==
    ASSUME TrackInv, Silence
    PROVE  TrackInv'
<1>1. /\ window' = [window EXCEPT !.stalled = TRUE]
      /\ UNCHANGED <<worker, repairs, inbox, wanted, stop, encoder, receiver, network>>
  BY DEF Silence
<1>2. /\ window'.last_sent = window.last_sent
      /\ window'.checkpoint = window.checkpoint /\ window'.newest = window.newest
  BY <1>1 DEF TrackInv, TypeOK
<1>3. TypeOK'
  BY ZenonT(60), <1>1 DEF TrackInv, TypeOK
<1>4. WindowInv' /\ HistoryInv' /\ InboxInv'
  BY <1>1, <1>2 DEF TrackInv, WindowInv, HistoryInv, InboxInv, Slack
<1>5. NetworkInv'
  BY <1>1, <1>2 DEF TrackInv, NetworkInv, DatagramInv
<1>6. QED
  BY <1>3, <1>4, <1>5 DEF TrackInv

(* Flags, a lost datagram and no step at all leave what TrackInv is about. *)
LEMMA RestKeepsInv ==
    ASSUME TrackInv, UNCHANGED <<window, worker, repairs, inbox, encoder, receiver>>,
           network' \subseteq network, wanted' \in BOOLEAN, stop' \in BOOLEAN
    PROVE  TrackInv'
<1>1. TypeOK'
  BY DEF TrackInv, TypeOK
<1>2. WindowInv' /\ HistoryInv' /\ InboxInv'
  BY DEF TrackInv, WindowInv, HistoryInv, InboxInv, Slack
<1>3. NetworkInv'
  BY NetworkShrinks DEF TrackInv
<1>4. QED
  BY <1>1, <1>2, <1>3 DEF TrackInv

LEMMA NextKeepsInv ==
    ASSUME TrackInv, [Next]_vars
    PROVE  TrackInv'
<1>1. wanted \in BOOLEAN /\ stop \in BOOLEAN
  BY DEF TrackInv, TypeOK
<1>2. CASE Work
  BY <1>2, TurnKeepsInv, TurnEndsKeepsInv, NoSampleKeepsInv, PullKeepsInv,
     PullFailsKeepsInv, SendKeepsInv, PushKeepsInv, PushFailsKeepsInv DEF Work
<1>3. CASE \E d \in network, kept \in BOOLEAN : Deliver(d, kept)
  BY <1>3, DeliverKeepsInv
<1>4. CASE PictureLoss
  BY <1>1, <1>4, RestKeepsInv DEF PictureLoss
<1>5. CASE Report
  BY <1>5, ReportKeepsInv
<1>6. CASE \E d \in network : Lose(d)
  BY <1>1, <1>6, RestKeepsInv DEF Lose
<1>7. CASE Silence
  BY <1>7, SilenceKeepsInv
<1>8. CASE SessionStops
  BY <1>1, <1>8, RestKeepsInv DEF SessionStops
<1>9. CASE UNCHANGED vars
  BY <1>1, <1>9, RestKeepsInv DEF vars
<1>10. QED
  BY <1>2, <1>3, <1>4, <1>5, <1>6, <1>7, <1>8, <1>9 DEF Next

-----------------------------------------------------------------------------
(* The results. *)

(* The inductive invariant of every behaviour of the track. *)
THEOREM TrackInvariant == Spec => []TrackInv
<1>1. Init => TrackInv
  BY InitTrackInv
<1>2. TrackInv /\ [Next]_vars => TrackInv'
  BY NextKeepsInv
<1>3. QED
  BY <1>1, <1>2, PTL DEF Spec

(* Frame ids never pass u32::MAX, the inbox its limit. *)
THEOREM TypeCorrect == Spec => []TypeOK
<1>1. TrackInv => TypeOK
  BY DEF TrackInv
<1>2. QED
  BY <1>1, TrackInvariant, PTL

(* No datagram acknowledges a frame the receiver does not hold, whatever    *)
(* the cycle of wire ids and however late or repeated it is.                *)
THEOREM CheckpointNeverAhead == Spec => []CheckpointIsReal
<1>1. TrackInv => CheckpointIsReal
  BY DEF TrackInv, WindowInv, CheckpointIsReal
<1>2. QED
  BY <1>1, TrackInvariant, PTL

(* The two debug assertions of AckWindow::sent hold: the worker's look at   *)
(* the window is still good when it records the frame.                      *)
THEOREM WindowNeverExceeded == Spec => []WindowBounded
<1>1. TrackInv => WindowBounded
  <2> SUFFICES ASSUME TrackInv
               PROVE  WindowBounded
    OBVIOUS
  <2>1. /\ window.last_sent \in Int /\ window.checkpoint \in Int /\ receiver.cp \in Int
    BY DEF TrackInv, TypeOK, Checkpoints, Frames
  <2>2. QED
    BY <2>1, CycleAssumption DEF TrackInv, WindowInv, WindowBounded, Pending
<1>2. QED
  BY <1>1, TrackInvariant, PTL

(* prune_history's cap leaves every unacknowledged frame for repairs.       *)
THEOREM UnackedFramesKept == Spec => []UnackedKept
<1>1. TrackInv => UnackedKept
  BY DEF TrackInv, TypeOK, HistoryInv, UnackedKept, History, Checkpoints, Frames
<1>2. QED
  BY <1>1, TrackInvariant, PTL

(* A NACK's wire id finds the frame it means or none, with 256 ids, 120     *)
(* frames in the window and 64 batches in the inbox, and wherever their     *)
(* sum is less than the ids.                                                *)
THEOREM RepairsAreExact == Spec => []NackNamesFrame
<1>1. TrackInv => NackNamesFrame
  BY NacksExact
<1>2. QED
  BY <1>1, TrackInvariant, PTL

-----------------------------------------------------------------------------
(* The chain of delta frames. *)

(* Unless video waits for a key frame, the encoder's last frame was sent.   *)
LinkInv ==
    /\ Video /\ ~worker.resyncing /\ worker.pc \in {"turn", "pull", "push"} => encoder.linked
    /\ ReferencesWereSent

LEMMA LinkKept ==
    ASSUME TypeOK, LinkInv, [Next]_vars
    PROVE  LinkInv'
<1>. USE DEF TypeOK, LinkInv, ReferencesWereSent
<1>1. CASE Turn
  <2>1. worker' = [worker EXCEPT !.pc = "pull", !.key_frame_request = FALSE] /\ worker.pc = "turn"
    BY <1>1 DEF Turn
  <2>2. encoder'.linked = encoder.linked
    BY <1>1 DEF Turn
  <2>. QED
    BY <2>1, <2>2
<1>2. CASE TurnEnds
  BY <1>2 DEF TurnEnds
<1>3. CASE NoSample
  BY <1>3 DEF NoSample
<1>4. ASSUME NEW key \in BOOLEAN, Pull(key)
      PROVE  LinkInv'
  <2>. DEFINE skipped == ~CanSend \/ (worker.resyncing /\ ~key)
  <2>1. /\ worker.pc = "pull" /\ (Video \/ key)
        /\ encoder' = [forced |-> encoder.forced /\ ~key,
                       linked |-> IF skipped THEN FALSE ELSE encoder.linked]
    BY <1>4 DEF Pull
  <2>2. CASE ~CanSend
    <3>1. worker' = Refused
      BY <1>4, <2>2 DEF Pull
    <3>2. worker'.pc = "turn" /\ (Video => worker'.resyncing)
      BY <3>1 DEF Refused
    <3>. QED
      BY <3>2
  <2>3. CASE CanSend /\ skipped
    <3>1. worker' = AwaitingKey
      BY <1>4, <2>3 DEF Pull
    <3>2. worker'.pc = "turn" /\ worker'.resyncing
      BY <2>3, <3>1 DEF AwaitingKey
    <3>. QED
      BY <3>2
  <2>4. CASE ~skipped
    <3>1. worker' = [worker EXCEPT !.pc = "send", !.key = key, !.resyncing = FALSE,
                                   !.resync_requested = @ /\ ~worker.resyncing]
      BY <1>4, <2>4 DEF Pull
    <3>2. worker'.pc = "send" /\ worker'.key = key
      BY <3>1
    <3>3. ~key => encoder'.linked
      BY <2>1, <2>4
    <3>. QED
      BY <3>2, <3>3
  <2>. QED
    BY <2>2, <2>3, <2>4
<1>5. CASE PullFails
  BY <1>5 DEF PullFails
<1>6. CASE Send
  BY <1>6 DEF Send
<1>7. CASE Push
  BY <1>7 DEF Push
<1>8. CASE PushFails
  BY <1>8 DEF PushFails
<1>9. CASE /\ UNCHANGED <<worker, encoder>>
  BY <1>9
<1>. QED
  BY <1>1, <1>2, <1>3, <1>4, <1>5, <1>6, <1>7, <1>8, <1>9
     DEF Next, Work, Deliver, PictureLoss, Report, Lose, Silence, SessionStops, vars

(* What is sent can be decoded, and whatever the receiver asks for again    *)
(* is there, is meant and is not more than the window allows, for any       *)
(* window, cycle of wire ids and inbox.                                     *)
THEOREM WindowServed == Spec => []WindowServes
<1>1. Init => LinkInv
  BY DEF Init, LinkInv, ReferencesWereSent
<1>2. Spec => []LinkInv
  BY <1>1, LinkKept, TypeCorrect, PTL DEF Spec
<1>3. LinkInv => ReferencesWereSent
  BY DEF LinkInv
<1>4. ReferencesWereSent /\ UnackedKept /\ NackNamesFrame /\ WindowBounded => WindowServes
  BY DEF WindowServes
<1>. QED
  BY <1>2, <1>3, <1>4, UnackedFramesKept, RepairsAreExact, WindowNeverExceeded, PTL

-----------------------------------------------------------------------------
(***************************************************************************)
(* MirrorSession.                                                          *)
(***************************************************************************)

(* A product keeps an order, and so does a quotient: the arithmetic the      *)
(* scaling rests on, stated once.                                            *)
LEMMA ProductMonotone ==
    ASSUME NEW a \in Nat, NEW b \in Nat, NEW c \in Nat, a <= b
    PROVE  a * c <= b * c
  BY SMT

LEMMA Quotient ==
    ASSUME NEW a \in Nat, NEW b \in Nat, b > 0
    PROVE  /\ a \div b \in Nat
           /\ (a \div b) * b <= a
           /\ a < (a \div b) * b + b
  BY SMT

LEMMA QuotientBelow ==
    ASSUME NEW a \in Nat, NEW b \in Nat, NEW c \in Nat, b > 0, a <= c * b
    PROVE  a \div b <= c
  <1>1. SUFFICES ASSUME a \div b >= c + 1 PROVE FALSE
    BY Quotient, SMT
  <1>2. (c + 1) * b <= (a \div b) * b
    BY <1>1, ProductMonotone, Quotient
  <1>3. (c + 1) * b = c * b + b
    BY SMT
  <1>4. c * b + b <= a
    BY <1>2, <1>3, Quotient, SMT
  <1>. QED BY <1>4, SMT

(* The even part of a number of pixels is even and as large as it can be. *)
LEMMA EvenIsEven ==
    ASSUME NEW n \in Nat
    PROVE  /\ EvenPart(n) \in Nat
           /\ EvenPart(n) % 2 = 0
           /\ EvenPart(n) <= n
           /\ n >= 2 => EvenPart(n) >= 2
  BY SMT DEF EvenPart

LEMMA PixelsAreEven ==
    ASSUME NEW n \in Nat
    PROVE  /\ Pixels(n) \in Nat
           /\ Pixels(n) % 2 = 0
           /\ Pixels(n) >= 2
           /\ Pixels(n) <= Most(n, 2)
  <1>1. Most(n, 2) \in Nat /\ Most(n, 2) >= 2
    BY SMT DEF Most
  <1>. QED BY <1>1, EvenIsEven DEF Pixels

(* A size that is scaled by the height does not leave the width: the width   *)
(* was the less restrictive axis.                                            *)
LEMMA OtherAxisFits ==
    ASSUME NEW w \in Nat, NEW h \in Nat, NEW mw \in Nat, NEW mh \in Nat,
           w > 0, h > 0, ~((h * mw) \div w <= mh)
    PROVE  (w * mh) \div h <= mw
  <1>1. (h * mw) \div w \in Nat /\ ((h * mw) \div w) * w <= h * mw
    BY Quotient, SMT
  <1>2. mh <= (h * mw) \div w
    BY <1>1, SMT
  <1>3. mh * w <= ((h * mw) \div w) * w
    BY <1>1, <1>2, ProductMonotone
  <1>4. w * mh <= mw * h
    BY <1>1, <1>3, SMT
  <1>. QED BY <1>4, QuotientBelow, SMT

LEMMA CapKept ==
    ASSUME NEW n \in Nat, NEW cap \in Nat, cap >= 2, n <= cap
    PROVE  Pixels(n) <= cap
  <1>1. Most(n, 2) <= cap /\ Most(n, 2) \in Nat
    BY SMT DEF Most
  <1>2. Pixels(n) <= Most(n, 2) /\ Pixels(n) \in Nat
    BY PixelsAreEven
  <1>. QED BY <1>1, <1>2, SMT

(* Every size the sender fits under a cap is one H.264 can encode, even and  *)
(* of at least two pixels on each axis, and lies inside the cap: whatever    *)
(* the two shapes, scaling by the most restrictive axis never leaves the     *)
(* other (StreamConfig::fit_within, used for screens, preferences and the    *)
(* limits of an ANSWER).                                                     *)
THEOREM FittedSize ==
    ASSUME NEW source \in Dimensions, NEW max \in Dimensions
    PROVE  LET fit == FitWithin(source, max)
           IN /\ fit \in Dimensions
              /\ \A i \in {1, 2} : /\ fit[i] % 2 = 0
                                   /\ fit[i] >= 2
                                   /\ fit[i] <= Pixels(max[i])
  <1>. DEFINE mw == Pixels(max[1])
              mh == Pixels(max[2])
              w == Most(source[1], 2)
              h == Most(source[2], 2)
              scaled == (h * mw) \div w
              narrowed == (w * mh) \div h
  <1>1. /\ source[1] \in Nat /\ source[2] \in Nat
        /\ max[1] \in Nat /\ max[2] \in Nat
    BY DEF Dimensions
  <1>2. /\ mw \in Nat /\ mw % 2 = 0 /\ mw >= 2
        /\ mh \in Nat /\ mh % 2 = 0 /\ mh >= 2
    BY <1>1, PixelsAreEven
  <1>3. w \in Nat /\ h \in Nat /\ w >= 2 /\ h >= 2
    BY <1>1, SMT DEF Most
  <1>4. scaled \in Nat /\ narrowed \in Nat
    <2>1. h * mw \in Nat /\ w * mh \in Nat
      BY <1>2, <1>3, SMT
    <2>. HIDE DEF mw, mh, w, h
    <2>. QED BY <2>1, <1>3, Quotient, SMT DEF scaled, narrowed
  <1>5. CASE source[1] = 0 \/ source[2] = 0
    <2>1. FitWithin(source, max) = <<mw, mh>>
      BY <1>5 DEF FitWithin
    <2>. QED BY <1>2, <2>1 DEF Dimensions
  <1>6. CASE ~(source[1] = 0 \/ source[2] = 0) /\ w <= mw /\ h <= mh
    <2>1. FitWithin(source, max) = <<EvenPart(w), EvenPart(h)>>
      BY <1>6 DEF FitWithin
    <2>2. /\ EvenPart(w) \in Nat /\ EvenPart(w) % 2 = 0
          /\ EvenPart(w) <= w /\ EvenPart(w) >= 2
          /\ EvenPart(h) \in Nat /\ EvenPart(h) % 2 = 0
          /\ EvenPart(h) <= h /\ EvenPart(h) >= 2
      BY <1>3, EvenIsEven
    <2>3. EvenPart(w) <= mw /\ EvenPart(h) <= mh
      <3>. HIDE DEF mw, mh, w, h
      <3>. QED BY <1>2, <1>3, <1>6, <2>2, SMT
    <2>. QED BY <2>1, <2>2, <2>3 DEF Dimensions
  <1>7. CASE /\ ~(source[1] = 0 \/ source[2] = 0)
             /\ ~(w <= mw /\ h <= mh) /\ scaled <= mh
    <2>1. FitWithin(source, max) = <<mw, Pixels(scaled)>>
      BY <1>7 DEF FitWithin
    <2>2. /\ Pixels(scaled) \in Nat /\ Pixels(scaled) % 2 = 0
          /\ Pixels(scaled) >= 2 /\ Pixels(scaled) <= mh
      <3>. HIDE DEF scaled, mh
      <3>. QED BY <1>2, <1>4, <1>7, PixelsAreEven, CapKept
    <2>. QED BY <1>2, <2>1, <2>2 DEF Dimensions
  <1>8. CASE /\ ~(source[1] = 0 \/ source[2] = 0)
             /\ ~(w <= mw /\ h <= mh) /\ ~(scaled <= mh)
    <2>1. FitWithin(source, max) = <<Pixels(narrowed), mh>>
      BY <1>8 DEF FitWithin
    <2>2. narrowed <= mw
      <3>. HIDE DEF mw, mh, w, h
      <3>. QED BY <1>2, <1>3, <1>8, OtherAxisFits, SMT DEF scaled, narrowed
    <2>3. /\ Pixels(narrowed) \in Nat /\ Pixels(narrowed) % 2 = 0
          /\ Pixels(narrowed) >= 2 /\ Pixels(narrowed) <= mw
      <3>. HIDE DEF narrowed, mw
      <3>. QED BY <1>2, <1>4, <2>2, PixelsAreEven, CapKept
    <2>. QED BY <1>2, <2>1, <2>3 DEF Dimensions
  <1>. QED BY <1>5, <1>6, <1>7, <1>8

-----------------------------------------------------------------------------

(* Where each thread may run and each resource be held. *)
ResourceInv ==
    /\ thread \in [Threads -> {"none", "runs", "ended", "failed", "stopped"}]
    /\ at \notin {"streaming", "winding"} =>
           \A t \in Threads : thread[t] # "runs"
    /\ prepare = "runs" => at \in {"preparing", "abandoning"}
    /\ at = "over" => pipe # "playing"

LEMMA ResourceInit == MirrorInit => ResourceInv
  BY DEF MirrorInit, ResourceInv, Threads, Tracks

LEMMA ResourceStep ==
    ASSUME ResourceInv, [MirrorNext]_mirrorVars PROVE ResourceInv'
  <1>. USE DEF ResourceInv, Running
  <1>1. CASE StartFails
    BY <1>1 DEF StartFails, Returns
  <1>2. CASE CancelledEarly
    BY <1>2 DEF CancelledEarly, Returns
  <1>3. CASE Starts
    BY <1>3 DEF Starts
  <1>4. CASE PrepareReturns
    BY <1>4 DEF PrepareReturns
  <1>5. CASE Prepared
    BY <1>5 DEF Prepared, Returns
  <1>6. CASE PrepareCancelled
    BY <1>6 DEF PrepareCancelled
  <1>7. CASE Abandoned
    BY <1>7 DEF Abandoned, Returns
  <1>8. ASSUME NEW size \in Captured, Adopts(size) PROVE ResourceInv'
    BY <1>8 DEF Adopts
  <1>9. ASSUME NEW a \in Answers, Agrees(a) PROVE ResourceInv'
    BY <1>9 DEF Agrees
  <1>10. ASSUME NEW a \in Answers, Refuses(a) PROVE ResourceInv'
    BY <1>10 DEF Refuses, Returns
  <1>11. CASE OfferFails
    BY <1>11 DEF OfferFails, Returns
  <1>12. CASE OfferCancelled
    BY <1>12 DEF OfferCancelled, Returns
  <1>13. CASE OpensCancelled
    BY <1>13 DEF OpensCancelled, Returns
  <1>14. ASSUME NEW tracks \in SUBSET Tracks, Opens(tracks) PROVE ResourceInv'
    BY <1>14 DEF Opens
  <1>15. ASSUME NEW spawned \in SUBSET Threads, OpenFails(spawned) PROVE ResourceInv'
    BY <1>15 DEF OpenFails
  <1>16. ASSUME NEW t \in Tracks, TrackEnds(t) PROVE ResourceInv'
    BY <1>16 DEF TrackEnds, taskVars, Threads
  <1>17. ASSUME NEW t \in Tracks, TrackFails(t) PROVE ResourceInv'
    BY <1>17 DEF TrackFails, taskVars, Threads
  <1>18. ASSUME NEW t \in Threads, ThreadStops(t) PROVE ResourceInv'
    BY <1>18 DEF ThreadStops, taskVars
  <1>19. ASSUME NEW congested \in BOOLEAN, Adapts(congested) PROVE ResourceInv'
    BY <1>19 DEF Adapts
  <1>20. ASSUME NEW why \in {"cancelled", "closed", "lost"}, Asks(why) PROVE ResourceInv'
    BY <1>20 DEF Asks
  <1>21. ASSUME NEW outcome \in {"ok", "failed"}, Winds(outcome) PROVE ResourceInv'
    BY <1>21 DEF Winds
  <1>22. CASE Joined
    BY <1>22 DEF Joined, Returns
  <1>23. CASE Cancel
    BY <1>23 DEF Cancel, taskVars
  <1>24. CASE Vanishes
    BY <1>24 DEF Vanishes, taskVars
  <1>25. ASSUME NEW event \in {"eos", "error"}, Reports(event) PROVE ResourceInv'
    BY <1>25 DEF Reports, taskVars
  <1>26. CASE UNCHANGED mirrorVars
    BY <1>26 DEF mirrorVars
  <1>. QED
    BY <1>1, <1>2, <1>3, <1>4, <1>5, <1>6, <1>7, <1>8, <1>9, <1>10,
       <1>11, <1>12, <1>13, <1>14, <1>15, <1>16, <1>17, <1>18, <1>19,
       <1>20, <1>21, <1>22, <1>23, <1>24, <1>25, <1>26
    DEF MirrorNext, Negotiates, Opening

(* A session that is over has left nothing behind: its threads are joined,   *)
(* a file's prepare has returned and the pipeline is stopped, whatever       *)
(* failed or was cancelled on the way (mirror, stream, StreamWorkers::drop). *)
THEOREM NothingLeft == MirrorSpec => []NothingLeftRunning
  <1>1. ResourceInv => NothingLeftRunning
    BY DEF ResourceInv, NothingLeftRunning, Running
  <1>. QED BY <1>1, ResourceInit, ResourceStep, PTL DEF MirrorSpec

(* Why a session that says it succeeded may say so. *)
Earned ==
    \/ cancel \/ cause = "closed" \/ bus = "eos"
    \/ \A t \in Tracks : thread[t] \in {"none", "ended"}

(* The tracks still running are counted: a failed one says so before the     *)
(* count is looked at again, and none is stopped while the session streams.  *)
Alive(t) == IF thread[t] = "runs" THEN 1 ELSE 0

Counted ==
    at = "streaming" =>
        /\ ~signals.stop
        /\ \A t \in Tracks : thread[t] # "stopped"
        /\ signals.outcome # "failed" =>
               /\ \A t \in Tracks : thread[t] # "failed"
               /\ signals.running = Alive("video") + Alive("audio")

OutcomeInv ==
    /\ thread \in [Threads -> {"none", "runs", "ended", "failed", "stopped"}]
    /\ signals = [stop |-> signals.stop, running |-> signals.running,
                   outcome |-> signals.outcome]
    /\ signals.stop \in BOOLEAN /\ signals.outcome \in {"none", "ok", "failed"}
    /\ cause \in {"none", "cancelled", "closed", "lost"}
    /\ at # "over" => result = "none"
    /\ at \notin {"streaming", "winding", "over"} =>
           ~signals.stop /\ signals.outcome = "none"
    /\ at = "abandoning" => cancel
    /\ cause = "cancelled" => cancel
    /\ Counted
    /\ at = "streaming" /\ signals.outcome = "ok" =>
           \A t \in Tracks : thread[t] \in {"none", "ended"}
    /\ at = "winding" => signals.outcome # "none"
    /\ at = "winding" /\ signals.outcome = "ok" /\ cause # "lost" => Earned
    /\ result = "ok" => Earned

LEMMA OutcomeInit == MirrorInit => OutcomeInv
  BY DEF MirrorInit, OutcomeInv, Counted, Earned, Threads, Tracks, Results

LEMMA TrackCount ==
    ASSUME NEW tracks \in SUBSET Tracks, "video" \in tracks
    PROVE  Cardinality(tracks) = IF "audio" \in tracks THEN 2 ELSE 1
  <1>1. Cardinality({"video"}) = 1
    BY FS_Singleton
  <1>2. Cardinality({"video", "audio"}) = 2
    <2>1. {"video", "audio"} = {"video"} \cup {"audio"}
      OBVIOUS
    <2>2. IsFiniteSet({"video"})
      BY FS_Singleton
    <2>. QED BY <1>1, <2>1, <2>2, FS_AddElement
  <1>3. tracks = {"video"} \/ tracks = {"video", "audio"}
    BY DEF Tracks
  <1>. QED BY <1>1, <1>2, <1>3

LEMMA OutcomeStep ==
    ASSUME ResourceInv, OutcomeInv, [MirrorNext]_mirrorVars PROVE OutcomeInv'
  <1>. USE DEF OutcomeInv, Counted, Earned, Alive, Tracks, Threads, Results
  <1>1. CASE StartFails
    BY <1>1 DEF StartFails, Returns
  <1>2. CASE CancelledEarly
    BY <1>2 DEF CancelledEarly, Returns
  <1>3. CASE Starts
    BY <1>3 DEF Starts
  <1>4. CASE PrepareReturns
    BY <1>4 DEF PrepareReturns
  <1>5. CASE Prepared
    BY <1>5 DEF Prepared, Returns
  <1>6. CASE PrepareCancelled
    BY <1>6 DEF PrepareCancelled
  <1>7. CASE Abandoned
    BY <1>7 DEF Abandoned, Returns
  <1>8. ASSUME NEW size \in Captured, Adopts(size) PROVE OutcomeInv'
    BY <1>8 DEF Adopts
  <1>9. ASSUME NEW a \in Answers, Agrees(a) PROVE OutcomeInv'
    BY <1>9 DEF Agrees
  <1>10. ASSUME NEW a \in Answers, Refuses(a) PROVE OutcomeInv'
    BY <1>10 DEF Refuses, Returns
  <1>11. CASE OfferFails
    BY <1>11 DEF OfferFails, Returns
  <1>12. CASE OfferCancelled
    BY <1>12 DEF OfferCancelled, Returns
  <1>13. CASE OpensCancelled
    BY <1>13 DEF OpensCancelled, Returns
  <1>14. ASSUME NEW tracks \in SUBSET Tracks, Opens(tracks) PROVE OutcomeInv'
    <2>1. thread' \in [Threads -> {"none", "runs", "ended", "failed", "stopped"}]
      BY <1>14 DEF Opens
    <2>2. /\ signals' = [stop |-> signals'.stop,
                        running |-> signals'.running,
                        outcome |-> signals'.outcome]
          /\ signals'.stop \in BOOLEAN /\ signals'.outcome \in {"none", "ok", "failed"}
      BY <1>14 DEF Opens
    <2>3. Counted'
      BY <1>14, TrackCount, <2>2 DEF Opens
    <2>4. at' = "streaming" /\ signals'.outcome = "ok" =>
              \A t_1 \in Tracks : thread'[t_1] \in {"none", "ended"}
      BY <1>14, TrackCount, <2>2, <2>3 DEF Opens
    <2>5. result' = "none"
      BY <1>14 DEF Opens
    <2>. QED BY <1>14, <2>1, <2>2, <2>3, <2>4, <2>5 DEF Opens, ResourceInv
  <1>15. ASSUME NEW spawned \in SUBSET Threads, OpenFails(spawned) PROVE OutcomeInv'
    <2>1. thread' \in [Threads -> {"none", "runs", "ended", "failed", "stopped"}]
      BY <1>15 DEF OpenFails
    <2>2. /\ signals' = [stop |-> signals'.stop,
                        running |-> signals'.running,
                        outcome |-> signals'.outcome]
          /\ signals'.stop \in BOOLEAN /\ signals'.outcome \in {"none", "ok", "failed"}
      BY <1>15 DEF OpenFails
    <2>3. Counted'
      BY <1>15, <2>2 DEF OpenFails
    <2>4. at' = "streaming" /\ signals'.outcome = "ok" =>
              \A t_1 \in Tracks : thread'[t_1] \in {"none", "ended"}
      BY <1>15, <2>2, <2>3 DEF OpenFails
    <2>5. result' = "none"
      BY <1>15 DEF OpenFails
    <2>. QED BY <1>15, <2>1, <2>2, <2>3, <2>4, <2>5 DEF OpenFails, ResourceInv
  <1>16. ASSUME NEW t \in Tracks, TrackEnds(t) PROVE OutcomeInv'
    <2>1. thread' \in [Threads -> {"none", "runs", "ended", "failed", "stopped"}]
      BY <1>16 DEF TrackEnds, taskVars, TrackEnded, Finish
    <2>2. /\ signals' = [stop |-> signals'.stop,
                        running |-> signals'.running,
                        outcome |-> signals'.outcome]
          /\ signals'.stop \in BOOLEAN /\ signals'.outcome \in {"none", "ok", "failed"}
      BY <1>16 DEF TrackEnds, taskVars, TrackEnded, Finish
    <2>3. Counted'
      BY <1>16, <2>2 DEF TrackEnds, taskVars, TrackEnded, Finish
    <2>4. at' = "streaming" /\ signals'.outcome = "ok" =>
              \A t_1 \in Tracks : thread'[t_1] \in {"none", "ended"}
      BY <1>16, <2>2, <2>3 DEF TrackEnds, taskVars, TrackEnded, Finish
    <2>5. Earned => Earned'
      BY <1>16 DEF TrackEnds, taskVars, TrackEnded, Finish
    <2>. QED BY <1>16, <2>1, <2>2, <2>3, <2>4, <2>5 DEF TrackEnds, taskVars, TrackEnded, Finish, ResourceInv
  <1>17. ASSUME NEW t \in Tracks, TrackFails(t) PROVE OutcomeInv'
    <2>1. thread' \in [Threads -> {"none", "runs", "ended", "failed", "stopped"}]
      BY <1>17 DEF TrackFails, taskVars, Finish
    <2>2. /\ signals' = [stop |-> signals'.stop,
                        running |-> signals'.running,
                        outcome |-> signals'.outcome]
          /\ signals'.stop \in BOOLEAN /\ signals'.outcome \in {"none", "ok", "failed"}
      BY <1>17 DEF TrackFails, taskVars, Finish
    <2>3. Counted'
      BY <1>17, <2>2 DEF TrackFails, taskVars, Finish
    <2>4. at' = "streaming" /\ signals'.outcome = "ok" =>
              \A t_1 \in Tracks : thread'[t_1] \in {"none", "ended"}
      BY <1>17, <2>2, <2>3 DEF TrackFails, taskVars, Finish
    <2>5. Earned => Earned'
      BY <1>17 DEF TrackFails, taskVars, Finish
    <2>. QED BY <1>17, <2>1, <2>2, <2>3, <2>4, <2>5 DEF TrackFails, taskVars, Finish, ResourceInv
  <1>18. ASSUME NEW t \in Threads, ThreadStops(t) PROVE OutcomeInv'
    <2>1. thread' \in [Threads -> {"none", "runs", "ended", "failed", "stopped"}]
      BY <1>18 DEF ThreadStops, taskVars, TrackEnded, Finish
    <2>2. /\ signals' = [stop |-> signals'.stop,
                        running |-> signals'.running,
                        outcome |-> signals'.outcome]
          /\ signals'.stop \in BOOLEAN /\ signals'.outcome \in {"none", "ok", "failed"}
      BY <1>18 DEF ThreadStops, taskVars, TrackEnded, Finish
    <2>3. Counted'
      BY <1>18, <2>2 DEF ThreadStops, taskVars, TrackEnded, Finish
    <2>4. at' = "streaming" /\ signals'.outcome = "ok" =>
              \A t_1 \in Tracks : thread'[t_1] \in {"none", "ended"}
      BY <1>18, <2>2, <2>3 DEF ThreadStops, taskVars, TrackEnded, Finish
    <2>5. Earned => Earned'
      BY <1>18 DEF ThreadStops, taskVars, TrackEnded, Finish
    <2>. QED BY <1>18, <2>1, <2>2, <2>3, <2>4, <2>5 DEF ThreadStops, taskVars, TrackEnded, Finish, ResourceInv
  <1>19. ASSUME NEW congested \in BOOLEAN, Adapts(congested) PROVE OutcomeInv'
    BY <1>19 DEF Adapts
  <1>20. ASSUME NEW why \in {"cancelled", "closed", "lost"}, Asks(why) PROVE OutcomeInv'
    BY <1>20 DEF Asks
  <1>21. ASSUME NEW outcome \in {"ok", "failed"}, Winds(outcome) PROVE OutcomeInv'
    BY <1>21 DEF Winds
  <1>22. CASE Joined
    BY <1>22 DEF Joined, Returns
  <1>23. CASE Cancel
    BY <1>23 DEF Cancel, taskVars
  <1>24. CASE Vanishes
    BY <1>24 DEF Vanishes, taskVars
  <1>25. ASSUME NEW event \in {"eos", "error"}, Reports(event) PROVE OutcomeInv'
    BY <1>25 DEF Reports, taskVars
  <1>26. CASE UNCHANGED mirrorVars
    BY <1>26 DEF mirrorVars
  <1>. QED
    BY <1>1, <1>2, <1>3, <1>4, <1>5, <1>6, <1>7, <1>8, <1>9, <1>10,
       <1>11, <1>12, <1>13, <1>14, <1>15, <1>16, <1>17, <1>18, <1>19,
       <1>20, <1>21, <1>22, <1>23, <1>24, <1>25, <1>26
    DEF MirrorNext, Negotiates, Opening

(* No failure is reported as success and no track that merely ran out ends   *)
(* the session, for every order in which two track threads, the bus, the     *)
(* control channel and the user end it (SessionSignals, outcome, mirror).    *)
THEOREM Honest == MirrorSpec => []OkIsEarned
  <1>1. OutcomeInv => OkIsEarned
    BY DEF OutcomeInv, OkIsEarned, Earned
  <1>. QED
    BY <1>1, OutcomeInit, OutcomeStep, ResourceInit, ResourceStep, PTL
    DEF MirrorSpec

(* The mode and what was agreed with the receiver. *)
AgreementInv ==
    /\ mode \in Mode
    /\ session \subseteq Answers
    /\ at \in {"configuring", "preparing", "abandoning", "adopting",
              "negotiating"} => session = {}
    /\ at = "negotiating" => mode.kbps <= Pacer
    /\ AgreedFits

LEMMA Rates ==
    ASSUME NEW m \in Mode
    PROVE  /\ ScaledKbps(m) \in Nat
           /\ CastKbps(m, Pacer) \in Nat
           /\ CastKbps(m, Pacer) <= Pacer
  <1>. DEFINE base == TableKbps(m.size[1] * m.size[2])
              extra == (base * (Least(m.fps, 60) - 30)) \div 60
  <1>1. base \in Nat
    BY DEF TableKbps
  <1>2. ASSUME m.fps > 30 PROVE extra \in Nat
    <2>1. m.fps \in Nat
      BY DEF Mode
    <2>2. Least(m.fps, 60) - 30 \in Nat
      BY <1>2, <2>1, SMT DEF Least
    <2>. HIDE DEF base
    <2>3. base * (Least(m.fps, 60) - 30) \in Nat
      BY <1>1, <2>2, SMT
    <2>. QED BY <2>3, Quotient
  <1>3. ScaledKbps(m) \in Nat
    <2>1. m.kbps \in Nat /\ m.fps \in Nat
      BY DEF Mode
    <2>2. ScaledKbps(m) = IF m.kbps # 0 THEN m.kbps
                          ELSE IF m.fps > 30 THEN base + extra ELSE base
      BY DEF ScaledKbps
    <2>. HIDE DEF base, extra
    <2>. QED BY <1>1, <1>2, <2>1, <2>2
  <1>. QED BY <1>3, ModeAssumption DEF CastKbps, Least

LEMMA GuessIsMode == Guessed \in Mode
  <1>. DEFINE guess == [size |-> FitWithin(Portal, Ceiling),
                        fps |-> CappedFps(60, Preferred), kbps |-> 0]
  <1>1. FitWithin(Portal, Ceiling) \in Dimensions
    BY FittedSize, ModeAssumption
  <1>2. CappedFps(60, Preferred) \in Nat
    BY ModeAssumption DEF CappedFps, Most, Least
  <1>3. guess \in Mode
    BY <1>1, <1>2 DEF Mode
  <1>4. ScaledKbps(guess) \in Nat
    BY <1>3, Rates
  <1>. QED BY <1>3, <1>4 DEF Guessed, Mode

(* A size under the pixels of a limit that leaves room for two is under it. *)
LEMMA LimitKept ==
    ASSUME NEW n \in Nat, n >= 2 PROVE Pixels(n) <= n
  BY PixelsAreEven, SMT DEF Most

(* What an ANSWER with limits makes of any mode fits those limits. *)
LEMMA ConstrainedFits ==
    ASSUME NEW a \in Answers, mode \in Mode, Fits(a), NEW l \in Says[a].video
    PROVE  LET agreed == Constrained(a)
           IN /\ agreed \in Mode
              /\ agreed.size[1] <= l.size[1] /\ agreed.size[2] <= l.size[2]
              /\ agreed.fps <= l.fps
              /\ agreed.kbps \in FloorKbps(l)..CeilingKbps(l)
  <1>. DEFINE shrunk == Shrunk(mode, l)
              held == HeldKbps(shrunk, l, Pacer)
  <1>1. /\ l \in VideoLimits
        /\ Says[a].video = {l}
    <2>1. /\ Says[a].video \subseteq VideoLimits
          /\ Cardinality(Says[a].video) <= 1
      BY AnswerAssumption
    <2>2. l \in VideoLimits
      BY <2>1
    <2>3. ASSUME NEW k \in Says[a].video, k # l PROVE FALSE
      <3>1. Cardinality({k, l}) = 2
        <4>1. k \notin {l}
          BY <2>3
        <4>2. IsFiniteSet({l}) /\ Cardinality({l}) = 1
          BY FS_Singleton
        <4>3. Cardinality({l} \cup {k}) = Cardinality({l}) + 1
          BY <4>1, <4>2, FS_AddElement
        <4>4. {k, l} = {l} \cup {k}
          OBVIOUS
        <4>. QED BY <4>2, <4>3, <4>4
      <3>2. IsFiniteSet(Says[a].video)
        BY AnswerAssumption
      <3>3. Cardinality({k, l}) <= Cardinality(Says[a].video)
        BY <3>2, FS_Subset
      <3>4. Cardinality(Says[a].video) \in Nat
        BY <3>2, FS_CardinalityType
      <3>. QED BY <2>1, <3>1, <3>3, <3>4
    <2>. QED BY <2>2, <2>3
  <1>2. Accommodates(l, shrunk, Delay)
    BY DEF Fits
  <1>3. Constrained(a) = [shrunk EXCEPT !.kbps = held]
    BY <1>1 DEF Constrained
  <1>4. /\ l.size \in Dimensions /\ l.size[1] \in Nat /\ l.size[2] \in Nat
        /\ l.fps \in Nat /\ l.min_bits \in Nat /\ l.max_bits \in Nat
        /\ l.pixel_rate \in Int
    BY <1>1 DEF VideoLimits, Dimensions
  <1>5. mode.size \in Dimensions /\ mode.fps \in Nat /\ mode.kbps \in Nat
    BY DEF Mode
  <1>. DEFINE fit == FitWithin(mode.size, l.size)
  <1>6. /\ fit \in Dimensions
        /\ fit[1] \in Nat /\ fit[1] >= 2 /\ fit[1] <= Pixels(l.size[1])
        /\ fit[2] \in Nat /\ fit[2] >= 2 /\ fit[2] <= Pixels(l.size[2])
    <2>1. /\ fit \in Dimensions
          /\ \A i \in {1, 2} : fit[i] >= 2 /\ fit[i] <= Pixels(l.size[i])
      BY <1>4, <1>5, FittedSize
    <2>. HIDE DEF fit
    <2>. QED BY <2>1 DEF Dimensions
  <1>7. fit[1] <= l.size[1] /\ fit[2] <= l.size[2]
    <2>1. l.size[1] >= 2 /\ l.size[2] >= 2
      BY <1>2 DEF Accommodates
    <2>2. Pixels(l.size[1]) <= l.size[1] /\ Pixels(l.size[2]) <= l.size[2]
      BY <1>4, <2>1, LimitKept
    <2>3. Pixels(l.size[1]) \in Nat /\ Pixels(l.size[2]) \in Nat
      BY <1>4, PixelsAreEven
    <2>. HIDE DEF fit
    <2>. QED BY <1>4, <1>6, <2>2, <2>3
  <1>. DEFINE slower == Least(mode.fps, l.fps)
              fps == IF l.pixel_rate = NoLimit THEN slower
                     ELSE Least(slower, l.pixel_rate \div (fit[1] * fit[2]))
  <1>8. shrunk = [mode EXCEPT !.size = fit, !.fps = fps]
    BY DEF Shrunk
  <1>9. /\ shrunk = [size |-> fit, fps |-> fps, kbps |-> mode.kbps]
        /\ shrunk.size = fit /\ shrunk.fps = fps /\ shrunk.kbps = mode.kbps
    <2>. HIDE DEF fit, fps
    <2>. QED BY <1>8 DEF Mode
  <1>10. fps \in Nat /\ fps <= l.fps
    <2>1. slower \in Nat /\ slower <= l.fps
      BY <1>4, <1>5 DEF Least
    <2>2. CASE l.pixel_rate = NoLimit
      BY <2>1, <2>2
    <2>3. CASE l.pixel_rate # NoLimit
      <3>1. fit[1] * fit[2] \in Nat /\ fit[1] * fit[2] > 0
        <4>. HIDE DEF fit
        <4>. QED BY <1>6, SMT
      <3>2. l.pixel_rate \in Nat
        BY <1>4, <2>3, AnswerAssumption DEF WellFormed
      <3>3. l.pixel_rate \div (fit[1] * fit[2]) \in Nat
        <4>. HIDE DEF fit
        <4>. QED BY <3>1, <3>2, Quotient
      <3>. HIDE DEF fit, slower
      <3>. QED BY <1>4, <2>1, <2>3, <3>3 DEF Least
    <2>. QED BY <2>2, <2>3
  <1>11. shrunk \in Mode
    <2>. HIDE DEF fit, fps, shrunk
    <2>. QED BY <1>5, <1>6, <1>9, <1>10 DEF Mode
  <1>12. /\ CeilingKbps(l) \in Nat /\ FloorKbps(l) \in Nat
         /\ FloorKbps(l) <= CeilingKbps(l)
    <2>1. l.min_bits + 999 \in Nat
      BY <1>4
    <2>. QED BY <1>2, <1>4, <2>1, Quotient DEF CeilingKbps, FloorKbps, Accommodates
  <1>13. held \in Nat /\ held \in FloorKbps(l)..CeilingKbps(l)
    <2>1. CastKbps(shrunk, Pacer) \in Nat
      BY <1>11, Rates
    <2>. HIDE DEF shrunk
    <2>. QED BY <1>12, <2>1 DEF HeldKbps, Most, Least
  <1>14. Constrained(a) = [size |-> fit, fps |-> fps, kbps |-> held]
    <2>. HIDE DEF fit, fps, held, shrunk
    <2>. QED BY <1>3, <1>9
  <1>. HIDE DEF fit, fps, held, shrunk
  <1>. QED BY <1>6, <1>7, <1>10, <1>13, <1>14 DEF Mode

LEMMA AgreementInit == MirrorInit => AgreementInv
  <1>. SUFFICES ASSUME MirrorInit PROVE AgreementInv
    OBVIOUS
  <1>1. mode \in Mode
    BY GuessIsMode DEF MirrorInit, Mode
  <1>. QED BY <1>1 DEF MirrorInit, AgreementInv, AgreedFits

LEMMA AgreementStep ==
    ASSUME AgreementInv, [MirrorNext]_mirrorVars PROVE AgreementInv'
  <1>. USE DEF AgreementInv, AgreedFits
  <1>1. CASE StartFails
    BY <1>1 DEF StartFails, Returns
  <1>2. CASE CancelledEarly
    BY <1>2 DEF CancelledEarly, Returns
  <1>3. CASE Starts
    BY <1>3 DEF Starts
  <1>4. CASE PrepareReturns
    BY <1>4 DEF PrepareReturns
  <1>5. CASE Prepared
    BY <1>5 DEF Prepared, Returns
  <1>6. CASE PrepareCancelled
    BY <1>6 DEF PrepareCancelled
  <1>7. CASE Abandoned
    BY <1>7 DEF Abandoned, Returns
  <1>8. ASSUME NEW size \in Captured, Adopts(size) PROVE AgreementInv'
    <2>. DEFINE real == [mode EXCEPT !.size = IF size = NoSize THEN @ ELSE size,
                                     !.kbps = 0]
    <2>1. real \in Mode
      BY ModeAssumption DEF Mode
    <2>2. CastKbps(real, Pacer) \in Nat /\ CastKbps(real, Pacer) <= Pacer
      BY <2>1, Rates
    <2>3. mode' = [real EXCEPT !.kbps = CastKbps(real, Pacer)]
      BY <1>8 DEF Adopts
    <2>4. mode' \in Mode /\ mode'.kbps <= Pacer
      <3>. HIDE DEF real
      <3>. QED BY <2>1, <2>2, <2>3 DEF Mode
    <2>. HIDE DEF real
    <2>. QED BY <1>8, <2>4 DEF Adopts
  <1>9. ASSUME NEW a \in Answers, Agrees(a) PROVE AgreementInv'
    <2>1. mode' = Constrained(a) /\ session' = {a} /\ at' = "opening"
      BY <1>9 DEF Agrees
    <2>2. Fits(a) /\ at = "negotiating"
      BY <1>9 DEF Agrees
    <2>3. CASE Says[a].video = {}
      <3>1. Constrained(a) = mode
        BY <2>3 DEF Constrained
      <3>. QED BY <2>1, <2>2, <2>3, <3>1
    <2>4. CASE Says[a].video # {}
      <3>1. \A l \in Says[a].video :
               LET agreed == Constrained(a)
               IN /\ agreed \in Mode
                  /\ agreed.size[1] <= l.size[1] /\ agreed.size[2] <= l.size[2]
                  /\ agreed.fps <= l.fps
                  /\ agreed.kbps \in FloorKbps(l)..CeilingKbps(l)
        BY <2>2, ConstrainedFits
      <3>2. Constrained(a) \in Mode
        BY <2>4, <3>1
      <3>. QED BY <2>1, <2>4, <3>1, <3>2
    <2>. QED BY <2>3, <2>4
  <1>10. ASSUME NEW a \in Answers, Refuses(a) PROVE AgreementInv'
    BY <1>10 DEF Refuses, Returns
  <1>11. CASE OfferFails
    BY <1>11 DEF OfferFails, Returns
  <1>12. CASE OfferCancelled
    BY <1>12 DEF OfferCancelled, Returns
  <1>13. CASE OpensCancelled
    BY <1>13 DEF OpensCancelled, Returns
  <1>14. ASSUME NEW tracks \in SUBSET Tracks, Opens(tracks) PROVE AgreementInv'
    BY <1>14 DEF Opens
  <1>15. ASSUME NEW spawned \in SUBSET Threads, OpenFails(spawned) PROVE AgreementInv'
    BY <1>15 DEF OpenFails
  <1>16. ASSUME NEW t \in Tracks, TrackEnds(t) PROVE AgreementInv'
    BY <1>16 DEF TrackEnds, taskVars
  <1>17. ASSUME NEW t \in Tracks, TrackFails(t) PROVE AgreementInv'
    BY <1>17 DEF TrackFails, taskVars
  <1>18. ASSUME NEW t \in Threads, ThreadStops(t) PROVE AgreementInv'
    BY <1>18 DEF ThreadStops, taskVars
  <1>19. ASSUME NEW congested \in BOOLEAN, Adapts(congested) PROVE AgreementInv'
    BY <1>19 DEF Adapts
  <1>20. ASSUME NEW why \in {"cancelled", "closed", "lost"}, Asks(why) PROVE AgreementInv'
    BY <1>20 DEF Asks
  <1>21. ASSUME NEW outcome \in {"ok", "failed"}, Winds(outcome) PROVE AgreementInv'
    BY <1>21 DEF Winds
  <1>22. CASE Joined
    BY <1>22 DEF Joined, Returns
  <1>23. CASE Cancel
    BY <1>23 DEF Cancel, taskVars
  <1>24. CASE Vanishes
    BY <1>24 DEF Vanishes, taskVars
  <1>25. ASSUME NEW event \in {"eos", "error"}, Reports(event) PROVE AgreementInv'
    BY <1>25 DEF Reports, taskVars
  <1>26. CASE UNCHANGED mirrorVars
    BY <1>26 DEF mirrorVars
  <1>. QED
    BY <1>1, <1>2, <1>3, <1>4, <1>5, <1>6, <1>7, <1>8, <1>9, <1>10,
       <1>11, <1>12, <1>13, <1>14, <1>15, <1>16, <1>17, <1>18, <1>19,
       <1>20, <1>21, <1>22, <1>23, <1>24, <1>25, <1>26
    DEF MirrorNext, Negotiates, Opening

(* What a session agrees on is something the receiver said it takes, for     *)
(* every screen, preference, receiver and ANSWER: the size inside its limits *)
(* on both axes, the frame rate and the bitrate inside theirs, and without   *)
(* limits a bitrate the pacer can let out (Answer::constrain, fit_within).   *)
THEOREM Agreement == MirrorSpec => []AgreedFits
  <1>1. AgreementInv => AgreedFits
    BY DEF AgreementInv
  <1>. QED BY <1>1, AgreementInit, AgreementStep, PTL DEF MirrorSpec
=============================================================================
