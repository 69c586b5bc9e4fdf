------------------------- MODULE CastControl_proofs -------------------------
(***************************************************************************)
(* Proofs about CastControl, for any capacity of the events channel and    *)
(* any number of PINGs and unasked messages.                               *)
(***************************************************************************)
EXTENDS CastControl, TLAPS

-----------------------------------------------------------------------------
(* Types, part by part. *)

TaskOK == task \in Tasks /\ cancel \in BOOLEAN
WriterOK == writer \in ControlWriters
LoopsOK ==
    /\ reader \in {"up", "pong", "ends", "clears", "gone"}
    /\ ping \in {"idle", "ping", "gone"}
PendingOK == pending \in SUBSET Requests
EventsOK == events \in Seq({"close", "other"}) /\ Len(events) <= EventQueue
WireOK == wire \in Seq(Requests)
InboundOK == inbound \in Seq(Messages)
ReceiverOK == receiver \in Receivers

Types ==
    /\ TaskOK /\ WriterOK /\ LoopsOK /\ PendingOK /\ EventsOK /\ WireOK /\ InboundOK
    /\ ReceiverOK

LEMMA TaskTyped ==
    ASSUME Types, Next
    PROVE  TaskOK'
<1>1. CASE Opens
  BY <1>1 DEF Opens, Types, TaskOK, Tasks, Attempts, Frames, Requests, Replies, Results
<1>2. CASE Opened
  BY <1>2 DEF Opened, Quiet, Types, TaskOK, Tasks, Attempts, Frames, Requests, Replies,
     Results
<1>3. CASE OpenFails
  BY <1>3 DEF OpenFails, Types, TaskOK, Tasks, Attempts, Frames, Requests, Replies,
     Results
<1>4. CASE Connected
  BY ZenonT(60), <1>4 DEF Connected, Asks, Types, TaskOK, Tasks, Attempts, Frames,
     Requests, Replies, Results
<1>5. CASE ConnectFails
  BY <1>5 DEF ConnectFails, Aborted, Halved, Types, TaskOK, Tasks, Attempts, Frames,
     Requests, Replies, Results
<1>6. CASE Launched
  BY <1>6 DEF Launched, Heard, Says, Types, TaskOK, Tasks, Attempts, Frames, Requests,
     Replies, Results
<1>7. CASE LaunchFails
  BY <1>7 DEF LaunchFails, Heard, Types, TaskOK, Tasks, Attempts, Frames, Requests,
     Replies, Results
<1>8. CASE AppConnected
  BY <1>8 DEF AppConnected, Runs, Types, TaskOK, Tasks, Attempts, Frames, Requests,
     Replies, Results
<1>9. CASE OfferFails
  BY <1>9 DEF OfferFails, Types, TaskOK, Tasks, Attempts, Frames, Requests, Replies,
     Results
<1>10. CASE OfferDropped
  BY <1>10 DEF OfferDropped, Halved, Types, TaskOK, Tasks, Attempts, Frames, Requests,
     Replies, Results
<1>11. CASE Cancelled
  BY <1>11 DEF Cancelled, Ends, Negotiates, Types, TaskOK, Tasks, Attempts, Frames,
     Requests, Replies, Results
<1>12. CASE EventTaken
  BY ZenonT(60), <1>12 DEF EventTaken, Ends, Negotiates, Types, TaskOK, Tasks,
     Attempts, Frames, Requests, Replies, Results
<1>13. CASE EventsOver
  BY <1>13 DEF EventsOver, Ends, Negotiates, Types, TaskOK, Tasks, Attempts, Frames,
     Requests, Replies, Results
<1>14. CASE Stops
  BY <1>14 DEF Stops, Asks, Types, TaskOK, Tasks, Attempts, Frames, Requests, Replies,
     Results
<1>15. CASE StopHeard
  <2>1. PICK reply \in Replies \cup {"none"} :
          \/ task' = [[task EXCEPT !.stopped = reply = "absent"]
                       EXCEPT !.pc = "sending", !.frame = "APP_CLOSE", !.reply = "none"]
          \/ task' = [task EXCEPT !.pc = "sending", !.frame = "GET_STATUS", !.reply = "none"]
    BY <1>15 DEF StopHeard, Says, Asks
  <2>2. cancel' = cancel
    BY <1>15 DEF StopHeard
  <2>3. CASE task' = [[task EXCEPT !.stopped = reply = "absent"]
                      EXCEPT !.pc = "sending", !.frame = "APP_CLOSE", !.reply = "none"]
    BY ZenonT(60), <2>2, <2>3 DEF Types, TaskOK, Tasks, Attempts, Frames, Requests,
       Replies, Results
  <2>4. CASE task' = [task EXCEPT !.pc = "sending", !.frame = "GET_STATUS", !.reply = "none"]
    BY <2>2, <2>4 DEF Types, TaskOK, Tasks, Attempts, Frames, Requests, Replies, Results
  <2>5. QED
    BY <2>1, <2>3, <2>4
<1>16. CASE StatusHeard
  BY <1>16 DEF StatusHeard, Heard, Says, Types, TaskOK, Tasks, Attempts, Frames,
     Requests, Replies, Results
<1>17. CASE Closes
  BY <1>17 DEF Closes, Types, TaskOK, Tasks, Attempts, Frames, Requests, Replies,
     Results
<1>18. CASE Closed
  BY <1>18 DEF Closed, Outcome, Aborted, Halved, Types, TaskOK, Tasks, Attempts,
     Frames, Requests, Replies, Results
<1>19. CASE Over
  <2>1. cancel' = cancel
    BY <1>19 DEF Over
  <2>2. CASE task.attempt = 1 /\ task.result = "unsupported" /\ ~cancel
    <3>1. task' = [task EXCEPT !.pc = "start", !.attempt = 2, !.app = FALSE,
                               !.stopped = FALSE, !.reply = "none", !.result = "ok"]
      BY <1>19, <2>2 DEF Over
    <3>2. task' = [pc |-> "start", attempt |-> 2, frame |-> task.frame, reply |-> "none",
                   app |-> FALSE, stopped |-> FALSE, result |-> "ok"]
      BY <3>1 DEF Types, TaskOK, Tasks
    <3>3. task.frame \in Frames
      BY DEF Types, TaskOK, Tasks
    <3>4. QED
      BY <2>1, <3>2, <3>3 DEF Types, TaskOK, Tasks, Attempts, Results
  <2>3. CASE ~(task.attempt = 1 /\ task.result = "unsupported" /\ ~cancel)
    <3>1. PICK result \in Results : task' = [task EXCEPT !.pc = "done", !.result = result]
      <4>1. (IF task.attempt = 1 /\ task.result = "unsupported" THEN "ok" ELSE task.result)
              \in Results
        BY DEF Types, TaskOK, Tasks, Attempts, Frames, Requests, Replies, Results
      <4>2. QED
        BY <1>19, <2>3, <4>1 DEF Over
    <3>2. QED
      BY <2>1, <3>1 DEF Types, TaskOK, Tasks, Attempts, Frames, Requests, Replies, Results
  <2>4. QED
    BY <2>2, <2>3
<1>20. CASE Answered
  BY <1>20 DEF Answered, Negotiates, Types, TaskOK, Tasks, Attempts, Frames, Requests,
     Replies, Results
<1>21. CASE StreamEnds
  <2>1. PICK result \in Results : task' = [task EXCEPT !.pc = "stop", !.result = result]
    <3>1. (IF Negotiates THEN {"unsupported", "error"} ELSE {"ok", "error"}) \subseteq Results
      BY DEF Results
    <3>2. QED
      BY <1>21, <3>1 DEF StreamEnds, Ends
  <2>2. cancel' = cancel
    BY <1>21 DEF StreamEnds
  <2>3. QED
    BY <2>1, <2>2 DEF Types, TaskOK, Tasks, Attempts, Frames, Requests, Replies, Results
<1>22. CASE MessageRead
  BY <1>22 DEF MessageRead, Delivered, Forwarded, Pinged, Answers, Types, TaskOK,
     Tasks, Attempts, Frames, Requests, Replies, Results
<1>23. CASE Cancel
  BY <1>23 DEF Cancel, Types, TaskOK, Tasks, Attempts, Frames, Requests, Replies,
     Results
<1>24. ASSUME NEW w \in Writers, WriteBegins(w)
      PROVE  TaskOK'
  BY <1>24 DEF WriteBegins, Goes, Wants, Types, TaskOK, Tasks, Attempts, Frames,
     Requests, Replies, Results
<1>25. ASSUME NEW w \in Writers, WriteEnds(w)
      PROVE  TaskOK'
  BY <1>25 DEF WriteEnds, Goes, Wants, Types, TaskOK, Tasks, Attempts, Frames,
     Requests, Replies, Results
<1>26. ASSUME NEW w \in Writers, WriteFails(w)
      PROVE  TaskOK'
  BY <1>26 DEF WriteFails, Goes, Halved, Types, TaskOK, Tasks, Attempts, Frames,
     Requests, Replies, Results
<1>27. CASE TimesOut \/ ReadFails \/ ReaderEnds \/ Beats \/ RequestRead \/ AppStops
         \/ StopRefused \/ AppExits \/ Asked \/ Chatters
  BY <1>27 DEF TimesOut, ReadFails, ReaderEnds, Beats, RequestRead, AppStops,
     StopRefused, AppExits, Asked, Chatters, channel, Types, TaskOK, Tasks, Attempts,
     Frames, Requests, Replies, Results
<1>28. QED
  BY <1>1, <1>2, <1>3, <1>4, <1>5, <1>6, <1>7, <1>8, <1>9, <1>10, <1>11, <1>12,
     <1>13, <1>14, <1>15, <1>16, <1>17, <1>18, <1>19, <1>20, <1>21, <1>22, <1>23,
     <1>24, <1>25, <1>26, <1>27
  DEF Next, Session, Writes, Receiver

LEMMA WriterTyped ==
    ASSUME Types, Next
    PROVE  WriterOK'
<1>1. CASE Opened
  BY <1>1 DEF Opened, Quiet, Types, WriterOK, ControlWriters, Writers, Landmarks
<1>2. CASE ConnectFails
  BY <1>2 DEF ConnectFails, Aborted, Halved, Types, WriterOK, ControlWriters, Writers,
     Landmarks
<1>3. CASE OfferDropped
  BY <1>3 DEF OfferDropped, Halved, Types, WriterOK, ControlWriters, Writers, Landmarks
<1>4. CASE Closes
  BY <1>4 DEF Closes, Types, WriterOK, ControlWriters, Writers, Landmarks
<1>5. CASE Closed
  BY <1>5 DEF Closed, Outcome, Aborted, Halved, Types, WriterOK, ControlWriters,
     Writers, Landmarks
<1>6. CASE ReaderEnds
  BY <1>6 DEF ReaderEnds, Types, WriterOK, ControlWriters, Writers, Landmarks
<1>7. ASSUME NEW w \in Writers, WriteBegins(w)
      PROVE  WriterOK'
  BY <1>7 DEF WriteBegins, Goes, Wants, Types, WriterOK, ControlWriters, Writers,
     Landmarks
<1>8. ASSUME NEW w \in Writers, WriteEnds(w)
      PROVE  WriterOK'
  <2>1. PICK f \in Frames :
          writer' = [writer EXCEPT !.lock = "free", !.said = @ \cup ({f} \cap Landmarks),
                                   !.closed = @ \/ f = "CLOSE"]
    BY <1>8 DEF WriteEnds
  <2>2. writer.said \cup ({f} \cap Landmarks) \in SUBSET Landmarks
    BY DEF Types, WriterOK, ControlWriters, Writers
  <2>3. (writer.closed \/ f = "CLOSE") \in BOOLEAN
    OBVIOUS
  <2>4. QED
    BY <2>1, <2>2, <2>3 DEF Types, WriterOK, ControlWriters, Writers
<1>9. ASSUME NEW w \in Writers, WriteFails(w)
      PROVE  WriterOK'
  BY <1>9 DEF WriteFails, Goes, Halved, Types, WriterOK, ControlWriters, Writers,
     Landmarks
<1>10. CASE Opens \/ OpenFails \/ Connected \/ Launched \/ LaunchFails \/ AppConnected
         \/ OfferFails \/ Cancelled \/ EventTaken \/ EventsOver \/ Stops \/ StopHeard
         \/ StatusHeard \/ Over \/ TimesOut \/ Answered \/ StreamEnds \/ Cancel
         \/ MessageRead \/ ReadFails \/ Beats \/ RequestRead \/ AppStops \/ StopRefused
         \/ AppExits \/ Asked \/ Chatters
  BY <1>10 DEF Opens, OpenFails, Connected, Launched, LaunchFails, AppConnected,
     OfferFails, Cancelled, EventTaken, EventsOver, Stops, StopHeard, StatusHeard,
     Over, TimesOut, Answered, StreamEnds, Cancel, MessageRead, ReadFails, Beats,
     RequestRead, AppStops, StopRefused, AppExits, Asked, Chatters, channel, Types,
     WriterOK, ControlWriters, Writers, Landmarks
<1>11. QED
  BY <1>1, <1>2, <1>3, <1>4, <1>5, <1>6, <1>7, <1>8, <1>9, <1>10
  DEF Next, Session, Writes, Receiver

LEMMA LoopsTyped ==
    ASSUME Types, Next
    PROVE  LoopsOK'
<1>1. CASE Opened
  BY <1>1 DEF Opened, Quiet, Types, LoopsOK
<1>2. CASE ConnectFails
  BY <1>2 DEF ConnectFails, Aborted, Halved, Types, LoopsOK
<1>3. CASE Closed
  BY <1>3 DEF Closed, Outcome, Aborted, Halved, Types, LoopsOK
<1>4. CASE MessageRead
  BY <1>4 DEF MessageRead, Delivered, Forwarded, Pinged, Answers, Types, LoopsOK
<1>5. CASE ReadFails
  BY <1>5 DEF ReadFails, Types, LoopsOK
<1>6. CASE ReaderEnds
  BY <1>6 DEF ReaderEnds, Types, LoopsOK
<1>7. CASE Beats
  BY <1>7 DEF Beats, Types, LoopsOK
<1>8. ASSUME NEW w \in Writers, WriteBegins(w)
      PROVE  LoopsOK'
  BY <1>8 DEF WriteBegins, Goes, Wants, Types, LoopsOK
<1>9. ASSUME NEW w \in Writers, WriteEnds(w)
      PROVE  LoopsOK'
  BY <1>9 DEF WriteEnds, Goes, Wants, Types, LoopsOK
<1>10. ASSUME NEW w \in Writers, WriteFails(w)
      PROVE  LoopsOK'
  BY <1>10 DEF WriteFails, Goes, Halved, Types, LoopsOK
<1>11. CASE Opens \/ OpenFails \/ Connected \/ Launched \/ LaunchFails \/ AppConnected
         \/ OfferFails \/ OfferDropped \/ Cancelled \/ EventTaken \/ EventsOver
         \/ Stops \/ StopHeard \/ StatusHeard \/ Closes \/ Over \/ TimesOut \/ Answered
         \/ StreamEnds \/ Cancel \/ RequestRead \/ AppStops \/ StopRefused \/ AppExits
         \/ Asked \/ Chatters
  BY <1>11 DEF Opens, OpenFails, Connected, Launched, LaunchFails, AppConnected,
     OfferFails, OfferDropped, Cancelled, EventTaken, EventsOver, Stops, StopHeard,
     StatusHeard, Closes, Over, TimesOut, Answered, StreamEnds, Cancel, RequestRead,
     AppStops, StopRefused, AppExits, Asked, Chatters, channel, Types, LoopsOK
<1>12. QED
  BY <1>1, <1>2, <1>3, <1>4, <1>5, <1>6, <1>7, <1>8, <1>9, <1>10, <1>11
  DEF Next, Session, Writes, Receiver

LEMMA PendingTyped ==
    ASSUME Types, Next
    PROVE  PendingOK'
<1>1. CASE Opened
  BY <1>1 DEF Opened, Quiet, Types, PendingOK, Requests
<1>2. CASE Connected
  BY <1>2 DEF Connected, Asks, Types, PendingOK, Requests
<1>3. CASE Launched
  BY <1>3 DEF Launched, Heard, Says, Types, PendingOK, Requests
<1>4. CASE Stops
  BY <1>4 DEF Stops, Asks, Types, PendingOK, Requests
<1>5. CASE StopHeard
  BY <1>5 DEF StopHeard, Heard, Says, Asks, Types, PendingOK, Requests
<1>6. CASE StatusHeard
  BY <1>6 DEF StatusHeard, Heard, Says, Types, PendingOK, Requests
<1>7. CASE Closed
  BY <1>7 DEF Closed, Outcome, Aborted, Halved, Types, PendingOK, Requests
<1>8. CASE TimesOut
  BY <1>8 DEF TimesOut, Waits, Types, PendingOK, Requests
<1>9. CASE MessageRead
  BY <1>9 DEF MessageRead, Delivered, Forwarded, Pinged, Answers, Types, PendingOK,
     Requests
<1>10. CASE ReaderEnds
  BY <1>10 DEF ReaderEnds, Types, PendingOK, Requests
<1>11. ASSUME NEW w \in Writers, WriteBegins(w)
      PROVE  PendingOK'
  BY <1>11 DEF WriteBegins, Goes, Wants, Types, PendingOK, Requests
<1>12. ASSUME NEW w \in Writers, WriteEnds(w)
      PROVE  PendingOK'
  BY <1>12 DEF WriteEnds, Goes, Wants, Types, PendingOK, Requests
<1>13. ASSUME NEW w \in Writers, WriteFails(w)
      PROVE  PendingOK'
  BY <1>13 DEF WriteFails, Goes, Halved, Types, PendingOK, Requests
<1>14. CASE Opens \/ OpenFails \/ ConnectFails \/ LaunchFails \/ AppConnected
         \/ OfferFails \/ OfferDropped \/ Cancelled \/ EventTaken \/ EventsOver
         \/ Closes \/ Over \/ Answered \/ StreamEnds \/ Cancel \/ ReadFails \/ Beats
         \/ RequestRead \/ AppStops \/ StopRefused \/ AppExits \/ Asked \/ Chatters
  BY <1>14 DEF Opens, OpenFails, ConnectFails, LaunchFails, AppConnected, OfferFails,
     OfferDropped, Cancelled, EventTaken, EventsOver, Closes, Over, Answered,
     StreamEnds, Cancel, ReadFails, Beats, RequestRead, AppStops, StopRefused,
     AppExits, Asked, Chatters, channel, Types, PendingOK, Requests
<1>15. QED
  BY <1>1, <1>2, <1>3, <1>4, <1>5, <1>6, <1>7, <1>8, <1>9, <1>10, <1>11, <1>12,
     <1>13, <1>14
  DEF Next, Session, Writes, Receiver

LEMMA EventsTyped ==
    ASSUME Types, Next
    PROVE  EventsOK'
<1>1. CASE Opened
  BY <1>1, LimitsAssumption DEF Opened, EventsOK
<1>2. CASE ConnectFails
  BY <1>2, LimitsAssumption DEF ConnectFails, Aborted, EventsOK
<1>3. CASE EventTaken
  <2>1. events # <<>> /\ events' = Tail(events)
    BY <1>3 DEF EventTaken
  <2>2. events' \in Seq({"close", "other"}) /\ Len(events') = Len(events) - 1
    BY <2>1 DEF Types, EventsOK
  <2>3. QED
    BY <2>2, LimitsAssumption DEF Types, EventsOK
<1>4. CASE Closed
  BY <1>4, LimitsAssumption DEF Closed, Aborted, EventsOK
<1>5. CASE MessageRead
  <2>1. \/ events' = events
        \/ /\ Len(events) < EventQueue
           /\ \E e \in {"close", "other"} : events' = Append(events, e)
    BY <1>5 DEF MessageRead, Delivered, Forwarded, Pinged
  <2>2. CASE events' = events
    BY <2>2 DEF Types, EventsOK
  <2>3. ASSUME NEW e \in {"close", "other"},
               Len(events) < EventQueue, events' = Append(events, e)
        PROVE  EventsOK'
    <3>1. events' \in Seq({"close", "other"}) /\ Len(events') = Len(events) + 1
      BY <2>3 DEF Types, EventsOK
    <3>2. QED
      BY <2>3, <3>1, LimitsAssumption DEF Types, EventsOK
  <2>4. QED
    BY <2>1, <2>2, <2>3
<1>6. CASE Opens \/ OpenFails \/ Connected \/ Launched \/ LaunchFails \/ AppConnected
         \/ OfferFails \/ OfferDropped \/ Cancelled \/ EventsOver \/ Stops \/ StopHeard
         \/ StatusHeard \/ Closes \/ Over \/ TimesOut \/ Answered \/ StreamEnds
         \/ Cancel \/ ReadFails \/ ReaderEnds \/ Beats \/ RequestRead \/ AppStops
         \/ StopRefused \/ AppExits \/ Asked \/ Chatters
  BY <1>6 DEF Opens, OpenFails, Connected, Launched, LaunchFails, AppConnected,
     OfferFails, OfferDropped, Cancelled, EventsOver, Stops, StopHeard, StatusHeard,
     Closes, Over, TimesOut, Answered, StreamEnds, Cancel, ReadFails, ReaderEnds,
     Beats, RequestRead, AppStops, StopRefused, AppExits, Asked, Chatters, channel,
     Types, EventsOK
<1>7. ASSUME NEW w \in Writers, WriteBegins(w)
      PROVE  EventsOK'
  BY <1>7 DEF WriteBegins, Types, EventsOK
<1>8. ASSUME NEW w \in Writers, WriteEnds(w)
      PROVE  EventsOK'
  BY <1>8 DEF WriteEnds, Types, EventsOK
<1>9. ASSUME NEW w \in Writers, WriteFails(w)
      PROVE  EventsOK'
  BY <1>9 DEF WriteFails, Types, EventsOK
<1>10. QED
  BY <1>1, <1>2, <1>3, <1>4, <1>5, <1>6, <1>7, <1>8, <1>9
  DEF Next, Session, Writes, Receiver

LEMMA WireTyped ==
    ASSUME Types, Next
    PROVE  WireOK'
<1>1. CASE Opened
  BY <1>1 DEF Opened, Quiet, Types, WireOK
<1>2. CASE RequestRead
  BY <1>2 DEF RequestRead, Sends, Listens, Reply, Listed, Types, WireOK
<1>3. ASSUME NEW w \in Writers, WriteEnds(w)
      PROVE  WireOK'
  BY <1>3 DEF WriteEnds, Goes, Wants, Types, WireOK
<1>4. CASE Opens \/ OpenFails \/ Connected \/ ConnectFails \/ Launched \/ LaunchFails
         \/ AppConnected \/ OfferFails \/ OfferDropped \/ Cancelled \/ EventTaken
         \/ EventsOver \/ Stops \/ StopHeard \/ StatusHeard \/ Closes \/ Closed \/ Over
         \/ TimesOut \/ Answered \/ StreamEnds \/ Cancel \/ MessageRead \/ ReadFails
         \/ ReaderEnds \/ Beats \/ AppStops \/ StopRefused \/ AppExits \/ Asked
         \/ Chatters
  BY <1>4 DEF Opens, OpenFails, Connected, ConnectFails, Launched, LaunchFails,
     AppConnected, OfferFails, OfferDropped, Cancelled, EventTaken, EventsOver, Stops,
     StopHeard, StatusHeard, Closes, Closed, Over, TimesOut, Answered, StreamEnds,
     Cancel, MessageRead, ReadFails, ReaderEnds, Beats, AppStops, StopRefused,
     AppExits, Asked, Chatters, channel, Types, WireOK
<1>5. ASSUME NEW w \in Writers, WriteBegins(w)
      PROVE  WireOK'
  BY <1>5 DEF WriteBegins, Types, WireOK
<1>6. ASSUME NEW w \in Writers, WriteFails(w)
      PROVE  WireOK'
  BY <1>6 DEF WriteFails, Types, WireOK
<1>7. QED
  BY <1>1, <1>2, <1>3, <1>4, <1>5, <1>6
  DEF Next, Session, Writes, Receiver

LEMMA ReplyTyped ==
    ASSUME NEW type \in Replies, NEW f \in Requests
    PROVE  Reply(type, f) \in Messages
BY DEF Reply, Messages

LEMMA Sent ==
    ASSUME InboundOK, NEW m \in Messages, Sends(m)
    PROVE  InboundOK'
BY DEF InboundOK, Sends

LEMMA InboundTyped ==
    ASSUME Types, Next
    PROVE  InboundOK'
<1>1. CASE Opened
  BY <1>1 DEF Opened, Quiet, Types, InboundOK, PendingOK, Messages, Replies, Requests
<1>2. CASE ConnectFails
  BY <1>2 DEF ConnectFails, Aborted, Halved, Types, InboundOK, PendingOK, Messages,
     Replies, Requests
<1>3. CASE Closed
  BY <1>3 DEF Closed, Outcome, Aborted, Halved, Types, InboundOK, PendingOK, Messages,
     Replies, Requests
<1>4. CASE MessageRead
  <2>1. inbound # <<>> /\ inbound' \in {Tail(inbound), <<>>}
    BY <1>4 DEF MessageRead, Delivered, Forwarded, Pinged
  <2>2. <<>> \in Seq(Messages)
    OBVIOUS
  <2>3. Tail(inbound) \in Seq(Messages)
    BY <2>1 DEF Types, InboundOK
  <2>4. QED
    BY <2>1, <2>2, <2>3 DEF InboundOK
<1>5. CASE ReadFails
  BY <1>5 DEF ReadFails, Types, InboundOK, PendingOK, Messages, Replies, Requests
<1>6. CASE RequestRead
  <2>1. \/ inbound' = inbound
        \/ Sends(Reply("launched", "LAUNCH")) \/ Sends(Reply("refused", "LAUNCH"))
        \/ Sends(Reply("present", "GET_STATUS")) \/ Sends(Reply("absent", "GET_STATUS"))
    BY <1>6 DEF RequestRead, Listed
  <2>2. QED
    BY <2>1, Sent, ReplyTyped DEF Types, InboundOK, Replies, Requests
<1>7. CASE AppStops
  <2>1. Sends(Reply("absent", "STOP")) \/ Sends(Reply("refused", "STOP"))
    BY <1>7 DEF AppStops
  <2>2. QED
    BY <2>1, Sent, ReplyTyped DEF Types, Replies, Requests
<1>8. CASE StopRefused
  <2>1. Sends(Reply("refused", "STOP"))
    BY <1>8 DEF StopRefused
  <2>2. QED
    BY <2>1, Sent, ReplyTyped DEF Types, Replies, Requests
<1>9. CASE AppExits
  <2>1. Sends([type |-> "close"]) /\ [type |-> "close"] \in Messages
    BY <1>9 DEF AppExits, Messages
  <2>2. QED
    BY <2>1, Sent DEF Types
<1>10. CASE Asked
  <2>1. Sends([type |-> "ping"]) /\ [type |-> "ping"] \in Messages
    BY <1>10 DEF Asked, Messages
  <2>2. QED
    BY <2>1, Sent DEF Types
<1>11. CASE Chatters
  <2>1. PICK m \in {[type |-> "other"]}
                     \cup {[type |-> "absent", to |-> f, foreign |-> TRUE] : f \in pending} :
          Sends(m)
    BY <1>11 DEF Chatters
  <2>2. m \in Messages
    <3>1. [type |-> "other"] \in Messages
      BY DEF Messages
    <3>2. ASSUME NEW f \in pending
          PROVE  [type |-> "absent", to |-> f, foreign |-> TRUE] \in Messages
      <4>1. f \in Requests /\ "absent" \in Replies
        BY DEF Types, PendingOK, Replies
      <4>2. QED
        BY <4>1 DEF Messages
    <3>3. QED
      BY <3>1, <3>2
  <2>3. QED
    BY <2>1, <2>2, Sent DEF Types
<1>12. ASSUME NEW w \in Writers, WriteBegins(w)
      PROVE  InboundOK'
  <2>1. inbound' = inbound \/ inbound' = <<>>
    BY <1>12 DEF WriteBegins, Goes
  <2>2. <<>> \in Seq(Messages)
    OBVIOUS
  <2>3. QED
    BY <2>1, <2>2 DEF Types, InboundOK
<1>13. ASSUME NEW w \in Writers, WriteEnds(w)
      PROVE  InboundOK'
  <2>1. inbound' = inbound \/ inbound' = <<>>
    BY <1>13 DEF WriteEnds, Goes
  <2>2. <<>> \in Seq(Messages)
    OBVIOUS
  <2>3. QED
    BY <2>1, <2>2 DEF Types, InboundOK
<1>14. ASSUME NEW w \in Writers, WriteFails(w)
      PROVE  InboundOK'
  <2>1. inbound' = inbound \/ inbound' = <<>>
    BY <1>14 DEF WriteFails, Goes
  <2>2. <<>> \in Seq(Messages)
    OBVIOUS
  <2>3. QED
    BY <2>1, <2>2 DEF Types, InboundOK
<1>15. CASE Opens \/ OpenFails \/ Connected \/ Launched \/ LaunchFails \/ AppConnected
         \/ OfferFails \/ OfferDropped \/ Cancelled \/ EventTaken \/ EventsOver
         \/ Stops \/ StopHeard \/ StatusHeard \/ Closes \/ Over \/ TimesOut \/ Answered
         \/ StreamEnds \/ Cancel \/ ReaderEnds \/ Beats
  BY <1>15 DEF Opens, OpenFails, Connected, Launched, LaunchFails, AppConnected,
     OfferFails, OfferDropped, Cancelled, EventTaken, EventsOver, Stops, StopHeard,
     StatusHeard, Closes, Over, TimesOut, Answered, StreamEnds, Cancel, ReaderEnds,
     Beats, channel, Types, InboundOK, PendingOK, Messages, Replies, Requests
<1>16. QED
  BY <1>1, <1>2, <1>3, <1>4, <1>5, <1>6, <1>7, <1>8, <1>9, <1>10, <1>11, <1>12,
     <1>13, <1>14, <1>15
  DEF Next, Session, Writes, Receiver

LEMMA ReceiverTyped ==
    ASSUME Types, Next
    PROVE  ReceiverOK'
<1>1. CASE Opened
  <2>1. receiver' = [receiver EXCEPT !.asked = FALSE, !.owed = 0]
    BY <1>1 DEF Opened
  <2>2. receiver.apps \in SUBSET Attempts /\ receiver.extras \in Nat /\ 0 \in Int
    BY DEF Types, ReceiverOK, Receivers, Attempts
  <2>3. QED
    BY <2>1, <2>2 DEF Types, ReceiverOK, Receivers, Attempts
<1>2. CASE Beats
  BY <1>2 DEF Beats, Types, ReceiverOK, TaskOK, Tasks, Receivers, Attempts
<1>3. CASE RequestRead
  <2>1. \/ receiver' = receiver
        \/ receiver' = [receiver EXCEPT !.apps = @ \cup {task.attempt}]
        \/ receiver' = [receiver EXCEPT !.asked = TRUE]
    BY <1>3 DEF RequestRead
  <2>2. receiver.apps \cup {task.attempt} \in SUBSET Attempts
    BY DEF Types, ReceiverOK, Receivers, Attempts, TaskOK, Tasks
  <2>3. QED
    BY <2>1, <2>2 DEF Types, ReceiverOK, Receivers, Attempts
<1>4. CASE AppStops
  BY <1>4 DEF AppStops, Sends, Listens, Reply, Types, ReceiverOK, TaskOK, Tasks,
     Receivers, Attempts
<1>5. CASE StopRefused
  BY <1>5 DEF StopRefused, Sends, Listens, Reply, Types, ReceiverOK, TaskOK, Tasks,
     Receivers, Attempts
<1>6. CASE AppExits
  BY <1>6 DEF AppExits, Sends, Listens, Types, ReceiverOK, TaskOK, Tasks, Receivers,
     Attempts
<1>7. CASE Asked
  <2>1. receiver' = [receiver EXCEPT !.extras = @ + 1, !.owed = @ + 1]
    BY <1>7 DEF Asked
  <2>2. receiver.extras + 1 \in Nat /\ receiver.owed + 1 \in Int
    BY DEF Types, ReceiverOK, Receivers, Attempts
  <2>3. QED
    BY <2>1, <2>2 DEF Types, ReceiverOK, Receivers, Attempts
<1>8. CASE Chatters
  BY <1>8 DEF Chatters, Sends, Listens, Types, ReceiverOK, TaskOK, Tasks, Receivers,
     Attempts
<1>9. ASSUME NEW w \in Writers, WriteEnds(w)
      PROVE  ReceiverOK'
  BY <1>9 DEF WriteEnds, Goes, Wants, Types, ReceiverOK, TaskOK, Tasks, Receivers,
     Attempts
<1>10. CASE Opens \/ OpenFails \/ Connected \/ ConnectFails \/ Launched \/ LaunchFails
         \/ AppConnected \/ OfferFails \/ OfferDropped \/ Cancelled \/ EventTaken
         \/ EventsOver \/ Stops \/ StopHeard \/ StatusHeard \/ Closes \/ Closed \/ Over
         \/ TimesOut \/ Answered \/ StreamEnds \/ Cancel \/ MessageRead \/ ReadFails
         \/ ReaderEnds
  BY <1>10 DEF Opens, OpenFails, Connected, ConnectFails, Launched, LaunchFails,
     AppConnected, OfferFails, OfferDropped, Cancelled, EventTaken, EventsOver, Stops,
     StopHeard, StatusHeard, Closes, Closed, Over, TimesOut, Answered, StreamEnds,
     Cancel, MessageRead, ReadFails, ReaderEnds, channel, Types, ReceiverOK, TaskOK,
     Tasks, Receivers, Attempts
<1>11. ASSUME NEW w \in Writers, WriteBegins(w)
      PROVE  ReceiverOK'
  BY <1>11 DEF WriteBegins, Types, ReceiverOK, TaskOK, Tasks, Receivers, Attempts
<1>12. ASSUME NEW w \in Writers, WriteFails(w)
      PROVE  ReceiverOK'
  BY <1>12 DEF WriteFails, Types, ReceiverOK, TaskOK, Tasks, Receivers, Attempts
<1>13. QED
  BY <1>1, <1>2, <1>3, <1>4, <1>5, <1>6, <1>7, <1>8, <1>9, <1>10, <1>11, <1>12
  DEF Next, Session, Writes, Receiver

-----------------------------------------------------------------------------
(* The types together. *)

LEMMA TypesStart == Init => Types
<1>1. Init => TaskOK /\ LoopsOK /\ PendingOK
  <2>1. 1 \in Attempts /\ "CONNECT" \in Frames /\ "ok" \in Results
    BY DEF Attempts, Frames, Results
  <2>2. Init => TaskOK
    <3>1. ASSUME Init PROVE task \in Tasks
      BY <2>1, <3>1 DEF Init, Tasks
    <3>2. QED
      BY <3>1 DEF Init, TaskOK
  <2>3. Init => LoopsOK /\ PendingOK
    BY DEF Init, LoopsOK, PendingOK
  <2>4. QED
    BY <2>2, <2>3
<1>2. Init => WriterOK /\ ReceiverOK
  BY DEF Init, Quiet, WriterOK, ControlWriters, ReceiverOK, Receivers
<1>3. Init => EventsOK /\ WireOK /\ InboundOK
  BY LimitsAssumption DEF Init, EventsOK, WireOK, InboundOK
<1>4. QED
  BY <1>1, <1>2, <1>3 DEF Types

LEMMA TypesKept == Types /\ [Next]_vars => Types'
<1> SUFFICES ASSUME Types, [Next]_vars PROVE Types'
  OBVIOUS
<1>1. CASE Next
  <2>1. TaskOK' /\ WriterOK' /\ LoopsOK' /\ PendingOK'
    BY <1>1, TaskTyped, WriterTyped, LoopsTyped, PendingTyped
  <2>2. EventsOK' /\ WireOK' /\ InboundOK' /\ ReceiverOK'
    BY <1>1, EventsTyped, WireTyped, InboundTyped, ReceiverTyped
  <2>3. QED
    BY <2>1, <2>2 DEF Types
<1>2. CASE UNCHANGED vars
  BY <1>2 DEF vars, channel, Types, TaskOK, WriterOK, LoopsOK, PendingOK, EventsOK, WireOK,
     InboundOK, ReceiverOK
<1>3. QED
  BY <1>1, <1>2

LEMMA TypesHold == Spec => []Types
BY TypesStart, TypesKept, PTL DEF Spec

(* Every variable keeps its type, and the events channel its capacity,     *)
(* whatever the receiver sends (cast/mod.rs reader_loop, try_send).        *)
THEOREM TypeCorrect == Spec => []TypeOK
<1>1. Types => TypeOK
  BY DEF Types, TypeOK, TaskOK, WriterOK, LoopsOK, PendingOK, EventsOK, WireOK, InboundOK,
     ReceiverOK
<1>2. QED
  BY <1>1, TypesHold, PTL

-----------------------------------------------------------------------------
(* Nothing follows the platform CLOSE or half a frame: the writer is       *)
(* closed by then, and the lock is taken only while it is not.             *)

EndIsFinal ==
    writer.said \cap Terminal # {} => writer.lock = "free" /\ writer.closed

LEMMA EndStays ==
    ASSUME Types, EndIsFinal, Next
    PROVE  EndIsFinal'
<1>1. CASE Opened
  BY <1>1 DEF Opened, Quiet, Types, WriterOK, ControlWriters, EndIsFinal, Terminal
<1>2. CASE ConnectFails
  BY <1>2 DEF ConnectFails, Aborted, Halved, Types, WriterOK, ControlWriters,
     EndIsFinal, Terminal
<1>3. CASE OfferDropped
  BY <1>3 DEF OfferDropped, Halved, Types, WriterOK, ControlWriters, EndIsFinal,
     Terminal
<1>4. CASE Closes
  BY <1>4 DEF Closes, Types, WriterOK, ControlWriters, EndIsFinal, Terminal
<1>5. CASE Closed
  BY <1>5 DEF Closed, Aborted, Halved, Types, WriterOK, ControlWriters, EndIsFinal,
     Terminal
<1>6. CASE ReaderEnds
  BY <1>6 DEF ReaderEnds, Types, WriterOK, ControlWriters, EndIsFinal, Terminal
<1>7. ASSUME NEW w \in Writers, WriteBegins(w)
      PROVE  EndIsFinal'
  BY <1>7 DEF WriteBegins, Goes, Wants, Types, WriterOK, ControlWriters, EndIsFinal,
     Terminal
<1>8. ASSUME NEW w \in Writers, WriteEnds(w)
      PROVE  EndIsFinal'
  <2>1. writer.said \cap Terminal = {}
    BY <1>8 DEF WriteEnds, Types, EndIsFinal, Writers
  <2>2. PICK f \in Frames :
          writer' = [writer EXCEPT !.lock = "free", !.said = @ \cup ({f} \cap Landmarks),
                                   !.closed = @ \/ f = "CLOSE"]
    BY <1>8 DEF WriteEnds
  <2>3. writer'.lock = "free" /\ writer'.said = writer.said \cup ({f} \cap Landmarks)
    BY <2>2 DEF Types, WriterOK, ControlWriters
  <2>4. CASE f = "CLOSE"
    BY <2>2, <2>3, <2>4 DEF Types, WriterOK, ControlWriters, EndIsFinal
  <2>5. CASE f # "CLOSE"
    <3>1. f # "HALF"
      BY DEF Frames, Requests
    <3>2. writer'.said \cap Terminal = {}
      BY <2>1, <2>3, <2>5, <3>1 DEF Terminal
    <3>3. QED
      BY <3>2 DEF EndIsFinal
  <2>6. QED
    BY <2>4, <2>5
<1>9. ASSUME NEW w \in Writers, WriteFails(w)
      PROVE  EndIsFinal'
  BY <1>9 DEF WriteFails, Goes, Halved, Types, WriterOK, ControlWriters, EndIsFinal,
     Terminal
<1>10. CASE Opens \/ OpenFails \/ Connected \/ Launched \/ LaunchFails \/ AppConnected
         \/ OfferFails \/ Cancelled \/ EventTaken \/ EventsOver \/ Stops \/ StopHeard
         \/ StatusHeard \/ Over \/ TimesOut \/ Answered \/ StreamEnds \/ Cancel
         \/ MessageRead \/ ReadFails \/ Beats \/ RequestRead \/ AppStops \/ StopRefused
         \/ AppExits \/ Asked \/ Chatters
  BY <1>10 DEF Opens, OpenFails, Connected, Launched, LaunchFails, AppConnected,
     OfferFails, Cancelled, EventTaken, EventsOver, Stops, StopHeard, StatusHeard,
     Over, TimesOut, Answered, StreamEnds, Cancel, MessageRead, ReadFails, Beats,
     RequestRead, AppStops, StopRefused, AppExits, Asked, Chatters, channel, Types,
     WriterOK, ControlWriters, EndIsFinal, Terminal
<1>11. QED
  BY <1>1, <1>2, <1>3, <1>4, <1>5, <1>6, <1>7, <1>8, <1>9, <1>10
  DEF Next, Session, Writes, Receiver

(* Nothing is ever written after the end of the stream, for any number of  *)
(* PINGs and messages (ControlWriter::write, FrameWrite::drop, close).     *)
THEOREM NothingFollowsTheEnd == Spec => []NothingAfterTheEnd
<1>1. Init => EndIsFinal
  BY DEF Init, Quiet, EndIsFinal, Terminal
<1>2. Types /\ EndIsFinal /\ [Next]_vars => EndIsFinal'
  <2>1. ASSUME Types, EndIsFinal, UNCHANGED vars PROVE EndIsFinal'
    BY <2>1 DEF vars, channel, EndIsFinal
  <2>2. QED
    BY <2>1, EndStays
<1>3. EndIsFinal => NothingAfterTheEnd
  BY DEF EndIsFinal, NothingAfterTheEnd
<1>4. QED
  BY <1>1, <1>2, <1>3, TypesHold, PTL DEF Spec

-----------------------------------------------------------------------------
(* Nobody is left waiting: what the task waits for is the one request it   *)
(* registered, the writer is closed before the reader releases it, and     *)
(* whoever registers later cannot get the lock.                            *)

OnlyTheTask ==
    /\ pending \subseteq {task.frame}
    /\ pending # {} =>
         /\ task.pc \in {"sending", "sent"} /\ task.reply = "none"
         /\ task.frame \in Requests

LockIsBusy == writer.lock = "task" => task.pc = "sending"

ClosedFirst ==
    reader \in {"clears", "gone"} /\ task.pc \notin {"start", "opening", "over", "done"}
        => writer.closed

TooLate ==
    reader = "gone" /\ pending # {} =>
        task.pc = "sending" /\ writer.lock # "task" /\ writer.closed

LEMMA OneRequest ==
    ASSUME Types, OnlyTheTask, Next
    PROVE  OnlyTheTask'
<1>1. CASE Opens
  BY <1>1 DEF Opens, channel, Types, TaskOK, Tasks, Requests, OnlyTheTask
<1>2. CASE Opened
  BY <1>2 DEF Opened, Quiet, channel, Types, TaskOK, Tasks, Requests, OnlyTheTask
<1>3. CASE OpenFails
  BY <1>3 DEF OpenFails, channel, Types, TaskOK, Tasks, Requests, OnlyTheTask
<1>4. CASE Connected
  BY <1>4 DEF Connected, Asks, channel, Types, TaskOK, Tasks, Requests, OnlyTheTask
<1>5. CASE ConnectFails
  BY <1>5 DEF ConnectFails, Aborted, Halved, channel, Types, TaskOK, Tasks, Requests,
     OnlyTheTask
<1>6. CASE Launched
  BY <1>6 DEF Launched, Heard, Says, channel, Types, TaskOK, Tasks, Requests,
     OnlyTheTask
<1>7. CASE LaunchFails
  BY <1>7 DEF LaunchFails, Heard, channel, Types, TaskOK, Tasks, Requests, OnlyTheTask
<1>8. CASE AppConnected
  BY <1>8 DEF AppConnected, Runs, channel, Types, TaskOK, Tasks, Requests, OnlyTheTask
<1>9. CASE OfferFails
  BY <1>9 DEF OfferFails, channel, Types, TaskOK, Tasks, Requests, OnlyTheTask
<1>10. CASE OfferDropped
  BY <1>10 DEF OfferDropped, Halved, channel, Types, TaskOK, Tasks, Requests,
     OnlyTheTask
<1>11. CASE Cancelled
  BY <1>11 DEF Cancelled, Ends, Negotiates, channel, Types, TaskOK, Tasks, Requests,
     OnlyTheTask
<1>12. CASE EventTaken
  BY <1>12 DEF EventTaken, Ends, Negotiates, channel, Types, TaskOK, Tasks, Requests,
     OnlyTheTask
<1>13. CASE EventsOver
  BY <1>13 DEF EventsOver, Ends, Negotiates, channel, Types, TaskOK, Tasks, Requests,
     OnlyTheTask
<1>14. CASE Stops
  BY <1>14 DEF Stops, Asks, channel, Types, TaskOK, Tasks, Requests, OnlyTheTask
<1>15. CASE StopHeard
  <2>1. pending = {}
    BY <1>15 DEF StopHeard, Heard, OnlyTheTask
  <2>2. \/ pending' = pending
        \/ /\ task' = [task EXCEPT !.pc = "sending", !.frame = "GET_STATUS", !.reply = "none"]
           /\ pending' = pending \cup {"GET_STATUS"}
    BY <1>15 DEF StopHeard, Says, Asks
  <2>3. QED
    BY <2>1, <2>2 DEF Types, TaskOK, Tasks, Requests, OnlyTheTask
<1>16. CASE StatusHeard
  BY <1>16 DEF StatusHeard, Heard, Says, channel, Types, TaskOK, Tasks, Requests,
     OnlyTheTask
<1>17. CASE Closes
  BY <1>17 DEF Closes, channel, Types, TaskOK, Tasks, Requests, OnlyTheTask
<1>18. CASE Closed
  BY <1>18 DEF Closed, Aborted, Halved, channel, Types, TaskOK, Tasks, Requests,
     OnlyTheTask
<1>19. CASE Over
  BY <1>19 DEF Over, channel, Types, TaskOK, Tasks, Requests, OnlyTheTask
<1>20. CASE Answered
  BY <1>20 DEF Answered, Negotiates, channel, Types, TaskOK, Tasks, Requests,
     OnlyTheTask
<1>21. CASE StreamEnds
  BY <1>21 DEF StreamEnds, Ends, Negotiates, channel, Types, TaskOK, Tasks, Requests,
     OnlyTheTask
<1>22. CASE TimesOut
  BY <1>22 DEF TimesOut, Waits, channel, Types, TaskOK, Tasks, Requests, OnlyTheTask
<1>23. CASE MessageRead
  BY <1>23 DEF MessageRead, Delivered, Forwarded, Pinged, Answers, channel, Types,
     TaskOK, Tasks, Requests, OnlyTheTask
<1>24. CASE ReaderEnds
  BY <1>24 DEF ReaderEnds, channel, Types, TaskOK, Tasks, Requests, OnlyTheTask
<1>25. ASSUME NEW w \in Writers, WriteBegins(w)
      PROVE  OnlyTheTask'
  BY <1>25 DEF WriteBegins, Goes, Wants, channel, Types, TaskOK, Tasks, Requests,
     OnlyTheTask
<1>26. ASSUME NEW w \in Writers, WriteEnds(w)
      PROVE  OnlyTheTask'
  BY <1>26 DEF WriteEnds, Goes, Wants, channel, Types, TaskOK, Tasks, Requests,
     OnlyTheTask
<1>27. ASSUME NEW w \in Writers, WriteFails(w)
      PROVE  OnlyTheTask'
  BY <1>27 DEF WriteFails, Goes, Halved, channel, Types, TaskOK, Tasks, Requests,
     OnlyTheTask
<1>28. CASE Cancel \/ ReadFails \/ Beats \/ RequestRead \/ AppStops \/ StopRefused
         \/ AppExits \/ Asked \/ Chatters
  BY <1>28 DEF Cancel, ReadFails, Beats, RequestRead, AppStops, StopRefused, AppExits,
     Asked, Chatters, channel, Types, TaskOK, Tasks, Requests, OnlyTheTask
<1>29. QED
  BY <1>1, <1>2, <1>3, <1>4, <1>5, <1>6, <1>7, <1>8, <1>9, <1>10, <1>11, <1>12,
     <1>13, <1>14, <1>15, <1>16, <1>17, <1>18, <1>19, <1>20, <1>21, <1>22, <1>23,
     <1>24, <1>25, <1>26, <1>27, <1>28
  DEF Next, Session, Writes, Receiver

LEMMA BusyStays ==
    ASSUME Types, LockIsBusy, Next
    PROVE  LockIsBusy'
<1>1. CASE Opens
  BY <1>1 DEF Opens, channel, Types, TaskOK, Tasks, WriterOK, ControlWriters, Writers,
     LockIsBusy
<1>2. CASE Opened
  BY <1>2 DEF Opened, Quiet, channel, Types, TaskOK, Tasks, WriterOK, ControlWriters,
     Writers, LockIsBusy
<1>3. CASE OpenFails
  BY <1>3 DEF OpenFails, channel, Types, TaskOK, Tasks, WriterOK, ControlWriters,
     Writers, LockIsBusy
<1>4. CASE Connected
  BY <1>4 DEF Connected, Asks, channel, Types, TaskOK, Tasks, WriterOK, ControlWriters,
     Writers, LockIsBusy
<1>5. CASE ConnectFails
  BY <1>5 DEF ConnectFails, Aborted, Halved, channel, Types, TaskOK, Tasks, WriterOK,
     ControlWriters, Writers, LockIsBusy
<1>6. CASE Launched
  BY <1>6 DEF Launched, Heard, Says, channel, Types, TaskOK, Tasks, WriterOK,
     ControlWriters, Writers, LockIsBusy
<1>7. CASE LaunchFails
  BY <1>7 DEF LaunchFails, Heard, channel, Types, TaskOK, Tasks, WriterOK,
     ControlWriters, Writers, LockIsBusy
<1>8. CASE AppConnected
  BY <1>8 DEF AppConnected, Runs, channel, Types, TaskOK, Tasks, WriterOK,
     ControlWriters, Writers, LockIsBusy
<1>9. CASE OfferFails
  BY <1>9 DEF OfferFails, channel, Types, TaskOK, Tasks, WriterOK, ControlWriters,
     Writers, LockIsBusy
<1>10. CASE OfferDropped
  BY <1>10 DEF OfferDropped, Halved, channel, Types, TaskOK, Tasks, WriterOK,
     ControlWriters, Writers, LockIsBusy
<1>11. CASE Cancelled
  BY <1>11 DEF Cancelled, Ends, Negotiates, channel, Types, TaskOK, Tasks, WriterOK,
     ControlWriters, Writers, LockIsBusy
<1>12. CASE EventTaken
  BY <1>12 DEF EventTaken, Ends, Negotiates, channel, Types, TaskOK, Tasks, WriterOK,
     ControlWriters, Writers, LockIsBusy
<1>13. CASE EventsOver
  BY <1>13 DEF EventsOver, Ends, Negotiates, channel, Types, TaskOK, Tasks, WriterOK,
     ControlWriters, Writers, LockIsBusy
<1>14. CASE Stops
  BY <1>14 DEF Stops, Asks, channel, Types, TaskOK, Tasks, WriterOK, ControlWriters,
     Writers, LockIsBusy
<1>15. CASE StopHeard
  BY <1>15 DEF StopHeard, Heard, Says, Asks, channel, Types, TaskOK, Tasks, WriterOK,
     ControlWriters, Writers, LockIsBusy
<1>16. CASE StatusHeard
  BY <1>16 DEF StatusHeard, Heard, Says, channel, Types, TaskOK, Tasks, WriterOK,
     ControlWriters, Writers, LockIsBusy
<1>17. CASE Closes
  BY <1>17 DEF Closes, channel, Types, TaskOK, Tasks, WriterOK, ControlWriters,
     Writers, LockIsBusy
<1>18. CASE Closed
  BY <1>18 DEF Closed, Aborted, Halved, channel, Types, TaskOK, Tasks, WriterOK,
     ControlWriters, Writers, LockIsBusy
<1>19. CASE Over
  BY <1>19 DEF Over, channel, Types, TaskOK, Tasks, WriterOK, ControlWriters, Writers,
     LockIsBusy
<1>20. CASE Answered
  BY <1>20 DEF Answered, Negotiates, channel, Types, TaskOK, Tasks, WriterOK,
     ControlWriters, Writers, LockIsBusy
<1>21. CASE StreamEnds
  BY <1>21 DEF StreamEnds, Ends, Negotiates, channel, Types, TaskOK, Tasks, WriterOK,
     ControlWriters, Writers, LockIsBusy
<1>22. CASE ReaderEnds
  BY <1>22 DEF ReaderEnds, channel, Types, TaskOK, Tasks, WriterOK, ControlWriters,
     Writers, LockIsBusy
<1>23. CASE MessageRead
  BY <1>23 DEF MessageRead, Delivered, Forwarded, Pinged, Answers, channel, Types,
     TaskOK, Tasks, WriterOK, ControlWriters, Writers, LockIsBusy
<1>24. ASSUME NEW w \in Writers, WriteBegins(w)
      PROVE  LockIsBusy'
  BY <1>24 DEF WriteBegins, Goes, Wants, channel, Types, TaskOK, Tasks, WriterOK,
     ControlWriters, Writers, LockIsBusy
<1>25. ASSUME NEW w \in Writers, WriteEnds(w)
      PROVE  LockIsBusy'
  BY <1>25 DEF WriteEnds, Goes, Wants, channel, Types, TaskOK, Tasks, WriterOK,
     ControlWriters, Writers, LockIsBusy
<1>26. ASSUME NEW w \in Writers, WriteFails(w)
      PROVE  LockIsBusy'
  BY <1>26 DEF WriteFails, Goes, Halved, channel, Types, TaskOK, Tasks, WriterOK,
     ControlWriters, Writers, LockIsBusy
<1>27. CASE TimesOut \/ Cancel \/ ReadFails \/ Beats \/ RequestRead \/ AppStops
         \/ StopRefused \/ AppExits \/ Asked \/ Chatters
  BY <1>27 DEF TimesOut, Cancel, ReadFails, Beats, RequestRead, AppStops, StopRefused,
     AppExits, Asked, Chatters, channel, Types, TaskOK, Tasks, WriterOK,
     ControlWriters, Writers, LockIsBusy
<1>28. QED
  BY <1>1, <1>2, <1>3, <1>4, <1>5, <1>6, <1>7, <1>8, <1>9, <1>10, <1>11, <1>12,
     <1>13, <1>14, <1>15, <1>16, <1>17, <1>18, <1>19, <1>20, <1>21, <1>22, <1>23,
     <1>24, <1>25, <1>26, <1>27
  DEF Next, Session, Writes, Receiver

LEMMA ClosedStays ==
    ASSUME Types, ClosedFirst, Next
    PROVE  ClosedFirst'
<1>1. CASE Opens
  BY <1>1 DEF Opens, channel, Types, TaskOK, Tasks, WriterOK, ControlWriters, Writers,
     ClosedFirst
<1>2. CASE Opened
  BY <1>2 DEF Opened, Quiet, channel, Types, TaskOK, Tasks, WriterOK, ControlWriters,
     Writers, ClosedFirst
<1>3. CASE OpenFails
  BY <1>3 DEF OpenFails, channel, Types, TaskOK, Tasks, WriterOK, ControlWriters,
     Writers, ClosedFirst
<1>4. CASE Connected
  BY <1>4 DEF Connected, Asks, channel, Types, TaskOK, Tasks, WriterOK, ControlWriters,
     Writers, ClosedFirst
<1>5. CASE ConnectFails
  BY <1>5 DEF ConnectFails, Aborted, Halved, channel, Types, TaskOK, Tasks, WriterOK,
     ControlWriters, Writers, ClosedFirst
<1>6. CASE Launched
  BY <1>6 DEF Launched, Heard, Says, channel, Types, TaskOK, Tasks, WriterOK,
     ControlWriters, Writers, ClosedFirst
<1>7. CASE LaunchFails
  BY <1>7 DEF LaunchFails, Heard, channel, Types, TaskOK, Tasks, WriterOK,
     ControlWriters, Writers, ClosedFirst
<1>8. CASE AppConnected
  BY <1>8 DEF AppConnected, Runs, channel, Types, TaskOK, Tasks, WriterOK,
     ControlWriters, Writers, ClosedFirst
<1>9. CASE OfferFails
  BY <1>9 DEF OfferFails, channel, Types, TaskOK, Tasks, WriterOK, ControlWriters,
     Writers, ClosedFirst
<1>10. CASE OfferDropped
  BY <1>10 DEF OfferDropped, Halved, channel, Types, TaskOK, Tasks, WriterOK,
     ControlWriters, Writers, ClosedFirst
<1>11. CASE Cancelled
  BY <1>11 DEF Cancelled, Ends, Negotiates, channel, Types, TaskOK, Tasks, WriterOK,
     ControlWriters, Writers, ClosedFirst
<1>12. CASE EventTaken
  BY <1>12 DEF EventTaken, Ends, Negotiates, channel, Types, TaskOK, Tasks, WriterOK,
     ControlWriters, Writers, ClosedFirst
<1>13. CASE EventsOver
  BY <1>13 DEF EventsOver, Ends, Negotiates, channel, Types, TaskOK, Tasks, WriterOK,
     ControlWriters, Writers, ClosedFirst
<1>14. CASE Stops
  BY <1>14 DEF Stops, Asks, channel, Types, TaskOK, Tasks, WriterOK, ControlWriters,
     Writers, ClosedFirst
<1>15. CASE StopHeard
  BY <1>15 DEF StopHeard, Heard, Says, Asks, channel, Types, TaskOK, Tasks, WriterOK,
     ControlWriters, Writers, ClosedFirst
<1>16. CASE StatusHeard
  BY <1>16 DEF StatusHeard, Heard, Says, channel, Types, TaskOK, Tasks, WriterOK,
     ControlWriters, Writers, ClosedFirst
<1>17. CASE Closes
  BY <1>17 DEF Closes, channel, Types, TaskOK, Tasks, WriterOK, ControlWriters,
     Writers, ClosedFirst
<1>18. CASE Closed
  BY <1>18 DEF Closed, Aborted, Halved, channel, Types, TaskOK, Tasks, WriterOK,
     ControlWriters, Writers, ClosedFirst
<1>19. CASE Over
  BY <1>19 DEF Over, channel, Types, TaskOK, Tasks, WriterOK, ControlWriters, Writers,
     ClosedFirst
<1>20. CASE Answered
  BY <1>20 DEF Answered, Negotiates, channel, Types, TaskOK, Tasks, WriterOK,
     ControlWriters, Writers, ClosedFirst
<1>21. CASE StreamEnds
  BY <1>21 DEF StreamEnds, Ends, Negotiates, channel, Types, TaskOK, Tasks, WriterOK,
     ControlWriters, Writers, ClosedFirst
<1>22. CASE ReaderEnds
  BY <1>22 DEF ReaderEnds, channel, Types, TaskOK, Tasks, WriterOK, ControlWriters,
     Writers, ClosedFirst
<1>23. CASE ReadFails
  BY <1>23 DEF ReadFails, channel, Types, TaskOK, Tasks, WriterOK, ControlWriters,
     Writers, ClosedFirst
<1>24. CASE MessageRead
  BY <1>24 DEF MessageRead, Delivered, Forwarded, Pinged, Answers, channel, Types,
     TaskOK, Tasks, WriterOK, ControlWriters, Writers, ClosedFirst
<1>25. ASSUME NEW w \in Writers, WriteBegins(w)
      PROVE  ClosedFirst'
  BY <1>25 DEF WriteBegins, Goes, Wants, channel, Types, TaskOK, Tasks, WriterOK,
     ControlWriters, Writers, ClosedFirst
<1>26. ASSUME NEW w \in Writers, WriteEnds(w)
      PROVE  ClosedFirst'
  BY <1>26 DEF WriteEnds, Goes, Wants, channel, Types, TaskOK, Tasks, WriterOK,
     ControlWriters, Writers, ClosedFirst
<1>27. ASSUME NEW w \in Writers, WriteFails(w)
      PROVE  ClosedFirst'
  BY <1>27 DEF WriteFails, Goes, Halved, channel, Types, TaskOK, Tasks, WriterOK,
     ControlWriters, Writers, ClosedFirst
<1>28. CASE TimesOut \/ Cancel \/ Beats \/ RequestRead \/ AppStops \/ StopRefused
         \/ AppExits \/ Asked \/ Chatters
  BY <1>28 DEF TimesOut, Cancel, Beats, RequestRead, AppStops, StopRefused, AppExits,
     Asked, Chatters, channel, Types, TaskOK, Tasks, WriterOK, ControlWriters, Writers,
     ClosedFirst
<1>29. QED
  BY <1>1, <1>2, <1>3, <1>4, <1>5, <1>6, <1>7, <1>8, <1>9, <1>10, <1>11, <1>12,
     <1>13, <1>14, <1>15, <1>16, <1>17, <1>18, <1>19, <1>20, <1>21, <1>22, <1>23,
     <1>24, <1>25, <1>26, <1>27, <1>28
  DEF Next, Session, Writes, Receiver

LEMMA LateStays ==
    ASSUME Types, OnlyTheTask, LockIsBusy, ClosedFirst, TooLate, Next
    PROVE  TooLate'
<1>1. CASE Opens
  BY <1>1 DEF Opens, channel, Types, TaskOK, Tasks, WriterOK, ControlWriters, Writers,
     Requests, OnlyTheTask, LockIsBusy, ClosedFirst, TooLate
<1>2. CASE Opened
  BY <1>2 DEF Opened, Quiet, channel, Types, TaskOK, Tasks, WriterOK, ControlWriters,
     Writers, Requests, OnlyTheTask, LockIsBusy, ClosedFirst, TooLate
<1>3. CASE OpenFails
  BY <1>3 DEF OpenFails, channel, Types, TaskOK, Tasks, WriterOK, ControlWriters,
     Writers, Requests, OnlyTheTask, LockIsBusy, ClosedFirst, TooLate
<1>4. CASE Connected
  BY <1>4 DEF Connected, Asks, channel, Types, TaskOK, Tasks, WriterOK, ControlWriters,
     Writers, Requests, OnlyTheTask, LockIsBusy, ClosedFirst, TooLate
<1>5. CASE ConnectFails
  BY <1>5 DEF ConnectFails, Aborted, Halved, channel, Types, TaskOK, Tasks, WriterOK,
     ControlWriters, Writers, Requests, OnlyTheTask, LockIsBusy, ClosedFirst, TooLate
<1>6. CASE Launched
  BY <1>6 DEF Launched, Heard, Says, channel, Types, TaskOK, Tasks, WriterOK,
     ControlWriters, Writers, Requests, OnlyTheTask, LockIsBusy, ClosedFirst, TooLate
<1>7. CASE LaunchFails
  BY <1>7 DEF LaunchFails, Heard, channel, Types, TaskOK, Tasks, WriterOK,
     ControlWriters, Writers, Requests, OnlyTheTask, LockIsBusy, ClosedFirst, TooLate
<1>8. CASE AppConnected
  BY <1>8 DEF AppConnected, Runs, channel, Types, TaskOK, Tasks, WriterOK,
     ControlWriters, Writers, Requests, OnlyTheTask, LockIsBusy, ClosedFirst, TooLate
<1>9. CASE OfferFails
  BY <1>9 DEF OfferFails, channel, Types, TaskOK, Tasks, WriterOK, ControlWriters,
     Writers, Requests, OnlyTheTask, LockIsBusy, ClosedFirst, TooLate
<1>10. CASE OfferDropped
  BY <1>10 DEF OfferDropped, Halved, channel, Types, TaskOK, Tasks, WriterOK,
     ControlWriters, Writers, Requests, OnlyTheTask, LockIsBusy, ClosedFirst, TooLate
<1>11. CASE Cancelled
  BY <1>11 DEF Cancelled, Ends, Negotiates, channel, Types, TaskOK, Tasks, WriterOK,
     ControlWriters, Writers, Requests, OnlyTheTask, LockIsBusy, ClosedFirst, TooLate
<1>12. CASE EventTaken
  BY <1>12 DEF EventTaken, Ends, Negotiates, channel, Types, TaskOK, Tasks, WriterOK,
     ControlWriters, Writers, Requests, OnlyTheTask, LockIsBusy, ClosedFirst, TooLate
<1>13. CASE EventsOver
  BY <1>13 DEF EventsOver, Ends, Negotiates, channel, Types, TaskOK, Tasks, WriterOK,
     ControlWriters, Writers, Requests, OnlyTheTask, LockIsBusy, ClosedFirst, TooLate
<1>14. CASE Stops
  BY <1>14 DEF Stops, Asks, channel, Types, TaskOK, Tasks, WriterOK, ControlWriters,
     Writers, Requests, OnlyTheTask, LockIsBusy, ClosedFirst, TooLate
<1>15. CASE StopHeard
  BY <1>15 DEF StopHeard, Heard, Says, Asks, channel, Types, TaskOK, Tasks, WriterOK,
     ControlWriters, Writers, Requests, OnlyTheTask, LockIsBusy, ClosedFirst, TooLate
<1>16. CASE StatusHeard
  BY <1>16 DEF StatusHeard, Heard, Says, channel, Types, TaskOK, Tasks, WriterOK,
     ControlWriters, Writers, Requests, OnlyTheTask, LockIsBusy, ClosedFirst, TooLate
<1>17. CASE Closes
  BY <1>17 DEF Closes, channel, Types, TaskOK, Tasks, WriterOK, ControlWriters,
     Writers, Requests, OnlyTheTask, LockIsBusy, ClosedFirst, TooLate
<1>18. CASE Closed
  BY <1>18 DEF Closed, Aborted, Halved, channel, Types, TaskOK, Tasks, WriterOK,
     ControlWriters, Writers, Requests, OnlyTheTask, LockIsBusy, ClosedFirst, TooLate
<1>19. CASE Over
  BY <1>19 DEF Over, channel, Types, TaskOK, Tasks, WriterOK, ControlWriters, Writers,
     Requests, OnlyTheTask, LockIsBusy, ClosedFirst, TooLate
<1>20. CASE Answered
  BY <1>20 DEF Answered, Negotiates, channel, Types, TaskOK, Tasks, WriterOK,
     ControlWriters, Writers, Requests, OnlyTheTask, LockIsBusy, ClosedFirst, TooLate
<1>21. CASE StreamEnds
  BY <1>21 DEF StreamEnds, Ends, Negotiates, channel, Types, TaskOK, Tasks, WriterOK,
     ControlWriters, Writers, Requests, OnlyTheTask, LockIsBusy, ClosedFirst, TooLate
<1>22. CASE TimesOut
  BY <1>22 DEF TimesOut, Waits, channel, Types, TaskOK, Tasks, WriterOK,
     ControlWriters, Writers, Requests, OnlyTheTask, LockIsBusy, ClosedFirst, TooLate
<1>23. CASE ReaderEnds
  BY <1>23 DEF ReaderEnds, channel, Types, TaskOK, Tasks, WriterOK, ControlWriters,
     Writers, Requests, OnlyTheTask, LockIsBusy, ClosedFirst, TooLate
<1>24. CASE ReadFails
  BY <1>24 DEF ReadFails, channel, Types, TaskOK, Tasks, WriterOK, ControlWriters,
     Writers, Requests, OnlyTheTask, LockIsBusy, ClosedFirst, TooLate
<1>25. CASE MessageRead
  BY <1>25 DEF MessageRead, Delivered, Forwarded, Pinged, Answers, channel, Types,
     TaskOK, Tasks, WriterOK, ControlWriters, Writers, Requests, OnlyTheTask,
     LockIsBusy, ClosedFirst, TooLate
<1>26. ASSUME NEW w \in Writers, WriteBegins(w)
      PROVE  TooLate'
  BY <1>26 DEF WriteBegins, Goes, Wants, channel, Types, TaskOK, Tasks, WriterOK,
     ControlWriters, Writers, Requests, OnlyTheTask, LockIsBusy, ClosedFirst, TooLate
<1>27. ASSUME NEW w \in Writers, WriteEnds(w)
      PROVE  TooLate'
  BY <1>27 DEF WriteEnds, Goes, Wants, channel, Types, TaskOK, Tasks, WriterOK,
     ControlWriters, Writers, Requests, OnlyTheTask, LockIsBusy, ClosedFirst, TooLate
<1>28. ASSUME NEW w \in Writers, WriteFails(w)
      PROVE  TooLate'
  BY <1>28 DEF WriteFails, Goes, Halved, channel, Types, TaskOK, Tasks, WriterOK,
     ControlWriters, Writers, Requests, OnlyTheTask, LockIsBusy, ClosedFirst, TooLate
<1>29. CASE Cancel \/ Beats \/ RequestRead \/ AppStops \/ StopRefused \/ AppExits
         \/ Asked \/ Chatters
  BY <1>29 DEF Cancel, Beats, RequestRead, AppStops, StopRefused, AppExits, Asked,
     Chatters, channel, Types, TaskOK, Tasks, WriterOK, ControlWriters, Writers,
     Requests, OnlyTheTask, LockIsBusy, ClosedFirst, TooLate
<1>30. QED
  BY <1>1, <1>2, <1>3, <1>4, <1>5, <1>6, <1>7, <1>8, <1>9, <1>10, <1>11, <1>12,
     <1>13, <1>14, <1>15, <1>16, <1>17, <1>18, <1>19, <1>20, <1>21, <1>22, <1>23,
     <1>24, <1>25, <1>26, <1>27, <1>28, <1>29
  DEF Next, Session, Writes, Receiver

(* Once the reader is gone, nobody waits for a reply ("Terminating is      *)
(* bounded and releases all pending requests", cast/mod.rs).               *)
THEOREM EveryWaiterReleased == Spec => []NobodyLeftWaiting
<1> DEFINE Inv == OnlyTheTask /\ LockIsBusy /\ ClosedFirst /\ TooLate
<1>1. Init => Inv
  BY DEF Init, Quiet, OnlyTheTask, LockIsBusy, ClosedFirst, TooLate
<1>2. Types /\ Inv /\ [Next]_vars => Inv'
  <2>1. ASSUME Types, Inv, UNCHANGED vars PROVE Inv'
    BY <2>1 DEF vars, channel, OnlyTheTask, LockIsBusy, ClosedFirst, TooLate
  <2>2. QED
    BY <2>1, OneRequest, BusyStays, ClosedStays, LateStays
<1>3. Inv => NobodyLeftWaiting
  BY DEF OnlyTheTask, TooLate, NobodyLeftWaiting, Waits
<1>4. QED
  <2> HIDE DEF Inv
  <2>1. QED
    BY <1>1, <1>2, <1>3, TypesHold, PTL DEF Spec

-----------------------------------------------------------------------------
(* The order of the teardown: a frame that is still to be written comes    *)
(* after its predecessor went out, or can no longer be written.            *)

Unwritable == writer.closed /\ writer.lock # "task"

InTurn ==
    /\ task.pc \in {"start", "opening", "close"} \/ task.frame \in {"CONNECT", "LAUNCH"}
         => ~task.app
    /\ task.frame \in {"CONNECT", "LAUNCH"} => "CLOSE" \notin writer.said
    /\ task.pc = "unsent" => writer.closed
    /\ task.frame = "STOP" /\ task.pc = "sent" => "STOP" \in writer.said
    /\ task.frame = "GET_STATUS" => "STOP" \in writer.said
    /\ task.frame = "APP_CLOSE" => "STOP" \in writer.said \/ Unwritable
    /\ task.frame = "APP_CLOSE" /\ task.pc = "sent" => "APP_CLOSE" \in writer.said
    /\ task.frame = "CLOSE" /\ task.app => "APP_CLOSE" \in writer.said \/ Unwritable
    /\ TornDownInOrder

LEMMA TurnKept ==
    ASSUME Types, LockIsBusy, InTurn, Next
    PROVE  InTurn'
<1>1. CASE Opens
  BY <1>1 DEF Opens, channel, Types, TaskOK, Tasks, WriterOK, ControlWriters, Writers,
     LockIsBusy, Unwritable, InTurn, TornDownInOrder
<1>2. CASE Opened
  BY <1>2 DEF Opened, Quiet, channel, Types, TaskOK, Tasks, WriterOK, ControlWriters,
     Writers, LockIsBusy, Unwritable, InTurn, TornDownInOrder
<1>3. CASE OpenFails
  BY <1>3 DEF OpenFails, channel, Types, TaskOK, Tasks, WriterOK, ControlWriters,
     Writers, LockIsBusy, Unwritable, InTurn, TornDownInOrder
<1>4. CASE Connected
  BY ZenonT(60), <1>4 DEF Connected, Asks, channel, Types, TaskOK, Tasks, WriterOK,
     ControlWriters, Writers, LockIsBusy, Unwritable, InTurn, TornDownInOrder
<1>5. CASE ConnectFails
  BY <1>5 DEF ConnectFails, Aborted, Halved, channel, Types, TaskOK, Tasks, WriterOK,
     ControlWriters, Writers, LockIsBusy, Unwritable, InTurn, TornDownInOrder
<1>6. CASE Launched
  BY <1>6 DEF Launched, Heard, Says, channel, Types, TaskOK, Tasks, WriterOK,
     ControlWriters, Writers, LockIsBusy, Unwritable, InTurn, TornDownInOrder
<1>7. CASE LaunchFails
  BY <1>7 DEF LaunchFails, Heard, channel, Types, TaskOK, Tasks, WriterOK,
     ControlWriters, Writers, LockIsBusy, Unwritable, InTurn, TornDownInOrder
<1>8. CASE AppConnected
  BY <1>8 DEF AppConnected, Runs, channel, Types, TaskOK, Tasks, WriterOK,
     ControlWriters, Writers, LockIsBusy, Unwritable, InTurn, TornDownInOrder
<1>9. CASE OfferFails
  BY <1>9 DEF OfferFails, channel, Types, TaskOK, Tasks, WriterOK, ControlWriters,
     Writers, LockIsBusy, Unwritable, InTurn, TornDownInOrder
<1>10. CASE OfferDropped
  BY <1>10 DEF OfferDropped, Halved, channel, Types, TaskOK, Tasks, WriterOK,
     ControlWriters, Writers, LockIsBusy, Unwritable, InTurn, TornDownInOrder
<1>11. CASE Cancelled
  BY <1>11 DEF Cancelled, Ends, Negotiates, channel, Types, TaskOK, Tasks, WriterOK,
     ControlWriters, Writers, LockIsBusy, Unwritable, InTurn, TornDownInOrder
<1>12. CASE EventTaken
  BY ZenonT(60), <1>12 DEF EventTaken, Ends, Negotiates, channel, Types, TaskOK,
     Tasks, WriterOK, ControlWriters, Writers, LockIsBusy, Unwritable, InTurn,
     TornDownInOrder
<1>13. CASE EventsOver
  BY <1>13 DEF EventsOver, Ends, Negotiates, channel, Types, TaskOK, Tasks, WriterOK,
     ControlWriters, Writers, LockIsBusy, Unwritable, InTurn, TornDownInOrder
<1>14. CASE Stops
  BY <1>14 DEF Stops, Asks, channel, Types, TaskOK, Tasks, WriterOK, ControlWriters,
     Writers, LockIsBusy, Unwritable, InTurn, TornDownInOrder
<1>15. CASE StopHeard
  <2>1. writer' = writer /\ ("STOP" \in writer.said \/ Unwritable)
    BY <1>15 DEF StopHeard, Heard, InTurn, LockIsBusy, Unwritable
  <2>2. PICK reply \in Replies \cup {"none"} :
          /\ Heard("STOP", reply)
          /\ IF reply = "absent" \/ writer.closed
             THEN Says([task EXCEPT !.stopped = reply = "absent"], "APP_CLOSE")
             ELSE Asks(task, "GET_STATUS")
    BY <1>15 DEF StopHeard
  <2>3. CASE reply = "absent" \/ writer.closed
    <3>1. /\ task'.pc = "sending" /\ task'.frame = "APP_CLOSE" /\ task'.app = task.app
      BY <2>2, <2>3 DEF Says, Types, TaskOK, Tasks
    <3>2. QED
      BY <2>1, <3>1 DEF InTurn, Unwritable, TornDownInOrder
  <2>4. CASE ~(reply = "absent" \/ writer.closed)
    <3>1. /\ task'.pc = "sending" /\ task'.frame = "GET_STATUS" /\ task'.app = task.app
      BY <2>2, <2>4 DEF Asks, Types, TaskOK, Tasks
    <3>2. "STOP" \in writer.said
      BY <2>1, <2>4 DEF Unwritable
    <3>3. QED
      BY <2>1, <3>1, <3>2 DEF InTurn, Unwritable, TornDownInOrder
  <2>5. QED
    BY <2>3, <2>4
<1>16. CASE StatusHeard
  BY <1>16 DEF StatusHeard, Heard, Says, channel, Types, TaskOK, Tasks, WriterOK,
     ControlWriters, Writers, LockIsBusy, Unwritable, InTurn, TornDownInOrder
<1>17. CASE Closes
  BY <1>17 DEF Closes, channel, Types, TaskOK, Tasks, WriterOK, ControlWriters,
     Writers, LockIsBusy, Unwritable, InTurn, TornDownInOrder
<1>18. CASE Closed
  BY <1>18 DEF Closed, Aborted, Halved, channel, Types, TaskOK, Tasks, WriterOK,
     ControlWriters, Writers, LockIsBusy, Unwritable, InTurn, TornDownInOrder
<1>19. CASE Over
  BY <1>19 DEF Over, channel, Types, TaskOK, Tasks, WriterOK, ControlWriters, Writers,
     LockIsBusy, Unwritable, InTurn, TornDownInOrder
<1>20. CASE Answered
  BY <1>20 DEF Answered, Negotiates, channel, Types, TaskOK, Tasks, WriterOK,
     ControlWriters, Writers, LockIsBusy, Unwritable, InTurn, TornDownInOrder
<1>21. CASE StreamEnds
  BY <1>21 DEF StreamEnds, Ends, Negotiates, channel, Types, TaskOK, Tasks, WriterOK,
     ControlWriters, Writers, LockIsBusy, Unwritable, InTurn, TornDownInOrder
<1>22. CASE ReaderEnds
  BY <1>22 DEF ReaderEnds, channel, Types, TaskOK, Tasks, WriterOK, ControlWriters,
     Writers, LockIsBusy, Unwritable, InTurn, TornDownInOrder
<1>23. CASE MessageRead
  BY <1>23 DEF MessageRead, Delivered, Forwarded, Pinged, Answers, channel, Types,
     TaskOK, Tasks, WriterOK, ControlWriters, Writers, LockIsBusy, Unwritable, InTurn,
     TornDownInOrder
<1>24. ASSUME NEW w \in Writers, WriteBegins(w)
      PROVE  InTurn'
  BY <1>24 DEF WriteBegins, Goes, Wants, channel, Types, TaskOK, Tasks, WriterOK,
     ControlWriters, Writers, LockIsBusy, Unwritable, InTurn, TornDownInOrder
<1>25. ASSUME NEW w \in Writers, WriteEnds(w)
      PROVE  InTurn'
  <2>1. PICK f \in Frames :
          /\ Wants(w, f)
          /\ writer' = [writer EXCEPT !.lock = "free", !.said = @ \cup ({f} \cap Landmarks),
                                      !.closed = @ \/ f = "CLOSE"]
    BY <1>25 DEF WriteEnds
  <2>2. /\ writer'.lock = "free" /\ writer'.closed = (writer.closed \/ f = "CLOSE")
        /\ writer'.said = writer.said \cup ({f} \cap Landmarks)
    BY <2>1 DEF Types, WriterOK, ControlWriters
  <2>3. CASE w = "task"
    <3>1. /\ f = task.frame /\ task.pc = "sending"
          /\ task' = [task EXCEPT !.pc = "sent"] /\ ~Unwritable
      BY <1>25, <2>1, <2>3 DEF WriteEnds, Goes, Wants, Unwritable
    <3>2. /\ task'.pc = "sent" /\ task'.frame = task.frame /\ task'.app = task.app
      BY <3>1 DEF Types, TaskOK, Tasks
    <3>3. QED
      BY <2>2, <3>1, <3>2 DEF InTurn, TornDownInOrder, Landmarks
  <2>4. CASE w # "task"
    <3>1. f \in {"PING", "PONG"} /\ task' = task
      BY <1>25, <2>1, <2>4 DEF WriteEnds, Goes, Wants
    <3>2. writer'.said = writer.said /\ writer'.closed = writer.closed
      BY <2>2, <3>1 DEF Landmarks, Types, WriterOK, ControlWriters
    <3>3. QED
      BY <2>2, <3>1, <3>2 DEF InTurn, Unwritable, TornDownInOrder
  <2>5. QED
    BY <2>3, <2>4
<1>26. ASSUME NEW w \in Writers, WriteFails(w)
      PROVE  InTurn'
  BY <1>26 DEF WriteFails, Goes, Halved, channel, Types, TaskOK, Tasks, WriterOK,
     ControlWriters, Writers, LockIsBusy, Unwritable, InTurn, TornDownInOrder
<1>27. CASE TimesOut \/ Cancel \/ ReadFails \/ Beats \/ RequestRead \/ AppStops
         \/ StopRefused \/ AppExits \/ Asked \/ Chatters
  BY <1>27 DEF TimesOut, Cancel, ReadFails, Beats, RequestRead, AppStops, StopRefused,
     AppExits, Asked, Chatters, channel, Types, TaskOK, Tasks, WriterOK,
     ControlWriters, Writers, LockIsBusy, Unwritable, InTurn, TornDownInOrder
<1>28. QED
  BY <1>1, <1>2, <1>3, <1>4, <1>5, <1>6, <1>7, <1>8, <1>9, <1>10, <1>11, <1>12,
     <1>13, <1>14, <1>15, <1>16, <1>17, <1>18, <1>19, <1>20, <1>21, <1>22, <1>23,
     <1>24, <1>25, <1>26, <1>27
  DEF Next, Session, Writes, Receiver

(* The platform CLOSE comes after the STOP and the app's own CLOSE, however *)
(* the session ends (cast/mod.rs stop_app, finish_app, close).              *)
THEOREM TeardownInOrder == Spec => []TornDownInOrder
<1> DEFINE Inv == LockIsBusy /\ InTurn
<1>1. Init => Inv
  BY DEF Init, Quiet, LockIsBusy, InTurn, TornDownInOrder
<1>2. Types /\ Inv /\ [Next]_vars => Inv'
  <2>1. ASSUME Types, Inv, UNCHANGED vars PROVE Inv'
    BY <2>1 DEF vars, channel, LockIsBusy, InTurn, Unwritable, TornDownInOrder
  <2>2. QED
    BY <2>1, BusyStays, TurnKept
<1>3. Inv => TornDownInOrder
  BY DEF InTurn
<1>4. QED
  <2> HIDE DEF Inv
  <2>1. QED
    BY <1>1, <1>2, <1>3, TypesHold, PTL DEF Spec

-----------------------------------------------------------------------------
(* What success means.  Gone: our apps are gone from the receiver and no   *)
(* LAUNCH is on its way to start one again.  Once gone an app stays gone   *)
(* until the next LAUNCH is written, and before that the receiver has      *)
(* nothing of ours to read or to answer (Unasked).                         *)

Ours(m) == m.type \in Replies /\ ~m.foreign
NoReply == \A i \in DOMAIN inbound : ~Ours(inbound[i])
Unread == \E i \in DOMAIN wire : wire[i] = "LAUNCH"
Gone == receiver.apps = {} /\ ~Unread

Early ==
    \/ task.frame = "CONNECT"
    \/ task.frame = "LAUNCH" /\ task.pc \in {"sending", "unsent"}

OwnApp == receiver.apps \subseteq {task.attempt}

Unasked ==
    Early => /\ wire = <<>> /\ ~receiver.asked /\ receiver.apps = {}
             /\ task.reply = "none" /\ NoReply

(* A LAUNCH that was not read is the first request, and still awaited, or  *)
(* given up, which is an error.                                            *)
OnItsWay ==
    Unread =>
        /\ wire = <<"LAUNCH">> /\ ~receiver.asked /\ receiver.apps = {} /\ NoReply
        /\ ~task.app
        /\ \/ task.frame = "LAUNCH" /\ task.pc = "sent" /\ task.reply = "none"
           \/ task.result = "error" /\ task.frame = "LAUNCH" /\ task.pc = "close"
           \/ /\ task.result = "error" /\ task.frame = "CLOSE"
              /\ task.pc \in {"sending", "sent", "unsent", "over", "done"}

(* A reply of ours that says the app is not there is true, on its way and  *)
(* when it is taken.                                                       *)
Believable(m) ==
    Ours(m) =>
        /\ m.to = "LAUNCH" => m.type \in {"launched", "refused"}
        /\ m.type = "absent" \/ (m.to = "LAUNCH" /\ m.type = "refused") => Gone

RepliesTrue == \A i \in DOMAIN inbound : Believable(inbound[i])

ReplyTrue ==
    /\ task.frame = "LAUNCH" => task.reply \in {"none", "launched", "refused"}
    /\ task.frame = "LAUNCH" /\ task.reply = "refused" => Gone
    /\ task.frame \in {"STOP", "GET_STATUS"} /\ task.reply = "absent" => Gone
    /\ task.stopped => Gone

InSession ==
    /\ task.pc \in {"running", "stop"} => task.app
    /\ task.frame \in {"APP_CONNECT", "OFFER", "STOP", "GET_STATUS", "APP_CLOSE"}
         => task.app
    /\ task.pc \in {"start", "opening", "over", "done"}
         => task.frame \in {"CONNECT", "CLOSE"}
    /\ task.stopped => task.app

EndsClear ==
    /\ task.pc \in {"start", "opening"} => Gone /\ task.reply = "none"
    /\ task.pc \in {"close", "over"} /\ task.result # "error" => Gone
    /\ task.frame = "CLOSE" /\ ~task.app /\ task.result # "error" => Gone
    /\ task.pc = "done" /\ task.result = "ok" => Gone

AppInv ==
    /\ OwnApp /\ Unasked /\ OnItsWay
    /\ RepliesTrue /\ ReplyTrue
    /\ InSession /\ EndsClear

(* Messages are only lost: what is known of the receiver stays known.      *)
Lossy ==
    /\ wire' = wire /\ receiver'.apps = receiver.apps /\ receiver'.asked = receiver.asked
    /\ inbound' = inbound \/ inbound' = <<>> \/ (inbound # <<>> /\ inbound' = Tail(inbound))

Known ==
    /\ wire' = wire /\ receiver'.apps = receiver.apps /\ receiver'.asked = receiver.asked
    /\ Gone' = Gone /\ Unread' = Unread
    /\ NoReply => NoReply'
    /\ RepliesTrue => RepliesTrue'

LEMMA LossIsHarmless ==
    ASSUME InboundOK, Lossy
    PROVE  Known
<1>1. Unread' = Unread /\ Gone' = Gone
  BY DEF Lossy, Unread, Gone
<1>2. \A i \in DOMAIN inbound' : \E j \in DOMAIN inbound : inbound'[i] = inbound[j]
  <2>1. CASE inbound' = inbound
    BY <2>1
  <2>2. CASE inbound' = <<>>
    BY <2>2
  <2>3. CASE inbound # <<>> /\ inbound' = Tail(inbound)
    <3>1. /\ Len(inbound) \in Nat /\ DOMAIN inbound = 1..Len(inbound)
          /\ Len(inbound') = Len(inbound) - 1
          /\ DOMAIN inbound' = 1..(Len(inbound) - 1)
          /\ \A i \in 1..(Len(inbound) - 1) : inbound'[i] = inbound[i + 1]
      BY <2>3 DEF InboundOK
    <3>2. \A i \in 1..(Len(inbound) - 1) : i + 1 \in 1..Len(inbound)
      BY <3>1
    <3>. QED
      BY <3>1, <3>2
  <2>. QED
    BY <2>1, <2>2, <2>3 DEF Lossy
<1>3. NoReply => NoReply'
  BY <1>2 DEF NoReply
<1>4. RepliesTrue => RepliesTrue'
  BY <1>1, <1>2 DEF RepliesTrue, Believable
<1>. QED
  BY <1>1, <1>3, <1>4 DEF Known, Lossy

(* What AppInv says of the task and the receiver, but for the messages on  *)
(* their way.                                                              *)
TaskPart == OwnApp /\ Unasked /\ OnItsWay /\ ReplyTrue /\ InSession /\ EndsClear

(* The task goes on, and the receiver is not touched.                      *)
LEMMA TaskGoesOn ==
    ASSUME Types, InTurn, OnlyTheTask, AppInv, Session \/ Answered \/ StreamEnds, ~Opened
    PROVE  AppInv'
<1>. USE DEF OwnApp, Unasked, OnItsWay, ReplyTrue, InSession, EndsClear, Early
<1>1. SUFFICES ASSUME Lossy, Known PROVE TaskPart'
  <2>1. Lossy
    BY DEF Session, Opens, OpenFails, Connected, ConnectFails, Aborted, Launched,
       LaunchFails, AppConnected, OfferFails, OfferDropped, Cancelled, EventTaken,
       EventsOver, Stops, StopHeard, StatusHeard, Closes, Closed, Over, Answered,
       StreamEnds, channel, Lossy
  <2>2. Known
    BY <2>1, LossIsHarmless DEF Types
  <2>. QED
    BY <2>1, <2>2 DEF AppInv, TaskPart, Known
<1>2. CASE Connected
  <2>1. CASE cancel
    <3>1. task' = [task EXCEPT !.pc = "close"]
      BY <1>2, <2>1 DEF Connected
    <3>2. task.frame = "CONNECT"
      BY <1>2 DEF Connected
    <3>. QED
      BY <1>1, <3>1, <3>2 DEF AppInv, TaskPart, Known, InTurn, Types, TaskOK, Tasks,
         Gone, Unread
  <2>2. CASE ~cancel
    <3>1. task' = [task EXCEPT !.pc = "sending", !.frame = "LAUNCH", !.reply = "none"]
      BY <1>2, <2>2 DEF Connected, Asks
    <3>2. task.frame = "CONNECT"
      BY <1>2 DEF Connected
    <3>. QED
      BY <1>1, <3>1, <3>2 DEF AppInv, TaskPart, Known, InTurn, Types, TaskOK, Tasks,
         Gone, Unread
  <2>. QED
    BY <2>1, <2>2
<1>3. ASSUME NEW result \in Results, Ends(result)
      PROVE  TaskPart'
  BY <1>1, <1>3 DEF Ends, Negotiates, AppInv, TaskPart, Known, InTurn, Types, TaskOK, Tasks
<1>4. CASE EventTaken
  <2>1. CASE task' = task
    BY <1>1, <2>1 DEF AppInv, TaskPart, Known
  <2>2. CASE Head(events) = "close"
    <3>1. (IF Negotiates THEN "error" ELSE "ok") \in Results
      BY DEF Results
    <3>2. Ends(IF Negotiates THEN "error" ELSE "ok")
      BY <1>4, <2>2 DEF EventTaken
    <3>. QED
      BY <1>3, <3>1, <3>2
  <2>. QED
    BY <1>4, <2>1, <2>2 DEF EventTaken
<1>5. CASE StreamEnds
  <2>1. PICK result \in IF Negotiates THEN {"unsupported", "error"} ELSE {"ok", "error"} :
          Ends(result)
    BY <1>5 DEF StreamEnds
  <2>2. result \in Results
    BY DEF Results
  <2>. QED
    BY <1>3, <2>1, <2>2
<1>6. CASE StopHeard
  <2>1. PICK reply \in Replies \cup {"none"} :
          /\ Heard("STOP", reply)
          /\ IF reply = "absent" \/ writer.closed
             THEN Says([task EXCEPT !.stopped = reply = "absent"], "APP_CLOSE")
             ELSE Asks(task, "GET_STATUS")
    BY <1>6 DEF StopHeard
  <2>2. task.frame = "STOP" /\ task.reply = reply
    BY <2>1 DEF Heard
  <2>3. CASE reply = "absent" \/ writer.closed
    <3>1. task' = [task EXCEPT !.stopped = (reply = "absent"), !.pc = "sending",
                               !.frame = "APP_CLOSE", !.reply = "none"]
      BY <2>1, <2>3 DEF Says, Types, TaskOK, Tasks
    <3>. QED
      BY <1>1, <2>2, <3>1 DEF AppInv, TaskPart, Known, Types, TaskOK, Tasks
  <2>4. CASE ~(reply = "absent" \/ writer.closed)
    <3>1. task' = [task EXCEPT !.pc = "sending", !.frame = "GET_STATUS", !.reply = "none"]
      BY <2>1, <2>4 DEF Asks
    <3>. QED
      BY <1>1, <2>2, <3>1 DEF AppInv, TaskPart, Known, Types, TaskOK, Tasks
  <2>. QED
    BY <2>3, <2>4
<1>7. CASE Closed
  <2>1. /\ task.frame = "CLOSE" /\ task.pc \in {"sent", "unsent"}
        /\ task' = [task EXCEPT !.pc = "over", !.result = Outcome]
    BY <1>7 DEF Closed
  <2>2. Outcome # "error" => Gone /\ Outcome = task.result
    BY <2>1 DEF Outcome, AppInv, Types, TaskOK, Tasks, Results
  <2>3. task.result = "error" => Outcome = "error"
    BY DEF Outcome
  <2>4. /\ task'.pc = "over" /\ task'.frame = "CLOSE" /\ task'.result = Outcome
        /\ task'.app = task.app /\ task'.reply = task.reply
        /\ task'.stopped = task.stopped /\ task'.attempt = task.attempt
    BY <2>1 DEF Types, TaskOK, Tasks
  <2>. QED
    BY <1>1, <2>1, <2>2, <2>3, <2>4 DEF AppInv, TaskPart, Known
<1>8. CASE Over
  <2>1. CASE task.attempt = 1 /\ task.result = "unsupported" /\ ~cancel
    <3>1. task.pc = "over" /\ Gone
      BY <1>8, <2>1 DEF Over, AppInv
    <3>2. task' = [pc |-> "start", attempt |-> 2, frame |-> task.frame, reply |-> "none",
                   app |-> FALSE, stopped |-> FALSE, result |-> "ok"]
      BY <1>8, <2>1 DEF Over, Types, TaskOK, Tasks
    <3>. QED
      BY <1>1, <3>1, <3>2 DEF AppInv, TaskPart, Known, Gone
  <2>2. CASE ~(task.attempt = 1 /\ task.result = "unsupported" /\ ~cancel)
    <3>1. /\ task.pc = "over"
          /\ task' = [task EXCEPT !.pc = "done",
                        !.result = IF task.attempt = 1 /\ @ = "unsupported" THEN "ok" ELSE @]
      BY <1>8, <2>2 DEF Over
    <3>2. /\ task'.pc = "done" /\ task'.frame = task.frame /\ task'.reply = task.reply
          /\ task'.result = "error" <=> task.result = "error"
          /\ task'.app = task.app /\ task'.stopped = task.stopped
          /\ task'.attempt = task.attempt
      BY <3>1 DEF Types, TaskOK, Tasks
    <3>. QED
      BY <1>1, <3>1, <3>2 DEF AppInv, TaskPart, Known
  <2>. QED
    BY <2>1, <2>2
<1>9. CASE Opens
  BY <1>1, <1>9 DEF Opens, AppInv, TaskPart, Known, InTurn, OnlyTheTask, Types, TaskOK,
     Tasks
<1>10. CASE OpenFails
  BY <1>1, <1>10 DEF OpenFails, AppInv, TaskPart, Known, InTurn, OnlyTheTask, Types,
     TaskOK, Tasks
<1>11. CASE ConnectFails
  BY <1>1, <1>11 DEF ConnectFails, Aborted, AppInv, TaskPart, Known, InTurn,
     OnlyTheTask, Types, TaskOK, Tasks
<1>12. CASE Launched
  BY <1>1, <1>12 DEF Launched, Heard, Says, AppInv, TaskPart, Known, InTurn,
     OnlyTheTask, Types, TaskOK, Tasks
<1>13. CASE LaunchFails
  BY <1>1, <1>13 DEF LaunchFails, Heard, AppInv, TaskPart, Known, InTurn, OnlyTheTask,
     Types, TaskOK, Tasks
<1>14. CASE AppConnected
  BY <1>1, <1>14 DEF AppConnected, Runs, AppInv, TaskPart, Known, InTurn, OnlyTheTask,
     Types, TaskOK, Tasks
<1>15. CASE OfferFails
  BY <1>1, <1>15 DEF OfferFails, AppInv, TaskPart, Known, InTurn, OnlyTheTask, Types,
     TaskOK, Tasks
<1>16. CASE OfferDropped
  BY <1>1, <1>16 DEF OfferDropped, AppInv, TaskPart, Known, InTurn, OnlyTheTask, Types,
     TaskOK, Tasks
<1>17. CASE Cancelled
  BY <1>1, <1>17 DEF Cancelled, Ends, Negotiates, AppInv, TaskPart, Known, InTurn,
     OnlyTheTask, Types, TaskOK, Tasks
<1>18. CASE EventsOver
  BY <1>1, <1>18 DEF EventsOver, Ends, Negotiates, AppInv, TaskPart, Known, InTurn,
     OnlyTheTask, Types, TaskOK, Tasks
<1>19. CASE Stops
  BY <1>1, <1>19 DEF Stops, Asks, AppInv, TaskPart, Known, InTurn, OnlyTheTask, Types,
     TaskOK, Tasks
<1>20. CASE StatusHeard
  BY <1>1, <1>20 DEF StatusHeard, Heard, Says, AppInv, TaskPart, Known, InTurn,
     OnlyTheTask, Types, TaskOK, Tasks
<1>21. CASE Closes
  BY <1>1, <1>21 DEF Closes, AppInv, TaskPart, Known, InTurn, OnlyTheTask, Types,
     TaskOK, Tasks
<1>22. CASE Answered
  BY <1>1, <1>22 DEF Answered, Negotiates, AppInv, TaskPart, Known, InTurn, OnlyTheTask,
     Types, TaskOK, Tasks
<1>. QED
  BY <1>2, <1>4, <1>5, <1>6, <1>7, <1>8, <1>9, <1>10, <1>11, <1>12, <1>13, <1>14, <1>15,
     <1>16, <1>17, <1>18, <1>19, <1>20, <1>21, <1>22
  DEF Session

(* A new channel: nothing was asked on it.                                 *)
LEMMA OpenedAfresh ==
    ASSUME Types, InTurn, AppInv, Opened
    PROVE  AppInv'
<1>1. /\ Gone /\ task.reply = "none" /\ ~task.app /\ ~task.stopped
      /\ task.pc = "opening"
  BY DEF Opened, AppInv, InTurn, EndsClear, InSession
<1>2. /\ task'.pc = "sending" /\ task'.frame = "CONNECT" /\ task'.reply = "none"
      /\ ~task'.app /\ ~task'.stopped /\ task'.attempt = task.attempt
  BY <1>1 DEF Opened, Types, TaskOK, Tasks
<1>3. /\ wire' = <<>> /\ inbound' = <<>>
      /\ ~receiver'.asked /\ receiver'.apps = {}
  BY <1>1 DEF Opened, Gone, Types, ReceiverOK, Receivers
<1>4. ~Unread' /\ Gone' /\ NoReply' /\ RepliesTrue'
  BY <1>3 DEF Unread, Gone, NoReply, RepliesTrue
<1>. QED
  BY <1>2, <1>3, <1>4 DEF AppInv, OwnApp, Unasked, OnItsWay, ReplyTrue, InSession,
     EndsClear, Early

(* Somebody else goes on, or a frame that starts nothing was written.      *)
LEMMA OthersGoOn ==
    ASSUME InboundOK, TaskOK, AppInv, Lossy,
           \/ task' = task
           \/ task.pc = "sending" /\ task' = [task EXCEPT !.pc = "unsent"]
           \/ /\ task.pc = "sending" /\ task.frame # "LAUNCH"
              /\ task' = [task EXCEPT !.pc = "sent"]
    PROVE  AppInv'
<1>1. Known
  BY LossIsHarmless
<1>2. CASE task' = task
  BY <1>1, <1>2 DEF Known, AppInv, OwnApp, Unasked, OnItsWay, ReplyTrue, InSession,
     EndsClear, Early
<1>3. ASSUME NEW pc \in {"sent", "unsent"}, task.pc = "sending",
             task' = [task EXCEPT !.pc = pc], pc = "sent" => task.frame # "LAUNCH"
      PROVE  AppInv'
  <2>1. /\ task'.pc = pc /\ task'.frame = task.frame /\ task'.reply = task.reply
        /\ task'.app = task.app /\ task'.stopped = task.stopped
        /\ task'.attempt = task.attempt /\ task'.result = task.result
    BY <1>3 DEF TaskOK, Tasks
  <2>. QED
    BY <1>1, <1>3, <2>1 DEF Known, AppInv, OwnApp, Unasked, OnItsWay, ReplyTrue,
       InSession, EndsClear, Early
<1>. QED
  BY <1>2, <1>3

(* A request goes out.                                                     *)
LEMMA RequestWritten ==
    ASSUME Types, InTurn, AppInv, WriteEnds("task"), task.frame \in Requests
    PROVE  AppInv'
<1>1. /\ task.pc = "sending" /\ task' = [task EXCEPT !.pc = "sent"]
      /\ wire' = Append(wire, task.frame) /\ inbound' = inbound
      /\ receiver' = receiver
  BY DEF WriteEnds, Wants, Goes, Requests
<1>2. /\ task'.pc = "sent" /\ task'.frame = task.frame /\ task'.reply = task.reply
      /\ task'.app = task.app /\ task'.stopped = task.stopped
      /\ task'.attempt = task.attempt /\ task'.result = task.result
  BY <1>1 DEF Types, TaskOK, Tasks
<1>3. NoReply' = NoReply
  BY <1>1 DEF NoReply
<1>4. CASE task.frame = "LAUNCH"
  <2>1. /\ wire = <<>> /\ ~receiver.asked /\ receiver.apps = {}
        /\ task.reply = "none" /\ NoReply /\ ~task.app /\ ~task.stopped
    BY <1>1, <1>4 DEF AppInv, Unasked, Early, InTurn, InSession
  <2>2. wire' = <<"LAUNCH">>
    BY <1>1, <1>4, <2>1
  <2>3. RepliesTrue'
    BY <1>3, <2>1 DEF NoReply, RepliesTrue, Believable
  <2>. QED
    BY <1>1, <1>2, <1>3, <1>4, <2>1, <2>2, <2>3 DEF AppInv, OwnApp, Unasked, OnItsWay,
       ReplyTrue, InSession, EndsClear, Early
<1>5. CASE task.frame # "LAUNCH"
  <2>1. ~Unread
    BY <1>1, <1>5 DEF AppInv, OnItsWay, Requests
  <2>2. \A i \in DOMAIN wire' :
          wire'[i] = task.frame \/ \E j \in DOMAIN wire : wire'[i] = wire[j]
    BY <1>1 DEF Types, WireOK
  <2>3. ~Unread'
    BY <1>5, <2>1, <2>2 DEF Unread
  <2>4. Gone' = Gone
    BY <1>1, <2>1, <2>3 DEF Gone
  <2>5. RepliesTrue'
    BY <1>1, <2>4 DEF AppInv, RepliesTrue, Believable
  <2>. QED
    BY <1>1, <1>2, <1>5, <2>3, <2>4, <2>5 DEF AppInv, OwnApp, Unasked, OnItsWay,
       ReplyTrue, InSession, EndsClear, Early, Requests
<1>. QED
  BY <1>4, <1>5

LEMMA WritersGoOn ==
    ASSUME Types, LockIsBusy, InTurn, AppInv, NEW w \in Writers, Writes(w)
    PROVE  AppInv'
<1>1. CASE WriteBegins(w)
  <2>1. /\ \/ task' = task
           \/ task.pc = "sending" /\ task' = [task EXCEPT !.pc = "unsent"]
           \/ /\ task.pc = "sending" /\ task.frame # "LAUNCH"
              /\ task' = [task EXCEPT !.pc = "sent"]
        /\ Lossy
    BY <1>1 DEF WriteBegins, Wants, Goes, Lossy
  <2>. QED
    BY <2>1, OthersGoOn DEF Types
<1>2. CASE WriteEnds(w)
  <2>1. CASE w = "task" /\ task.frame \in Requests
    BY <1>2, <2>1, RequestWritten
  <2>2. CASE ~(w = "task" /\ task.frame \in Requests)
    <3>1. /\ \/ task' = task
             \/ /\ task.pc = "sending" /\ task.frame # "LAUNCH"
                /\ task' = [task EXCEPT !.pc = "sent"]
          /\ wire' = wire /\ inbound' = inbound
          /\ \/ receiver' = receiver
             \/ receiver' = [receiver EXCEPT !.owed = @ - 1]
      BY <1>2, <2>2 DEF WriteEnds, Wants, Goes, Requests
    <3>2. Lossy
      BY <3>1 DEF Lossy, Types, ReceiverOK, Receivers
    <3>. QED
      BY <3>1, <3>2, OthersGoOn DEF Types
  <2>. QED
    BY <2>1, <2>2
<1>3. CASE WriteFails(w)
  <2>1. /\ task' = task \/ (w = "task" /\ task' = [task EXCEPT !.pc = "unsent"])
        /\ Lossy
    BY <1>3 DEF WriteFails, Goes, Lossy
  <2>2. w = "task" => task.pc = "sending"
    BY <1>3 DEF WriteFails, LockIsBusy
  <2>. QED
    BY <2>1, <2>2, OthersGoOn DEF Types
<1>. QED
  BY <1>1, <1>2, <1>3 DEF Writes

(* A message is read: a reply of ours is true, and taken for what was      *)
(* asked.                                                                  *)
LEMMA MessageTaken ==
    ASSUME Types, OnlyTheTask, AppInv, MessageRead
    PROVE  AppInv'
<1> DEFINE m == Head(inbound)
<1>1. Lossy
  BY DEF MessageRead, Delivered, Forwarded, Pinged, Lossy
<1>2. CASE task' = task
  BY <1>1, <1>2, OthersGoOn DEF Types
<1>3. CASE Delivered(m)
  <2>1. /\ inbound # <<>> /\ Ours(m) /\ m.to \in pending
        /\ task' = [task EXCEPT !.reply = m.type]
    BY <1>3 DEF MessageRead, Delivered, Answers, Ours
  <2>2. /\ m.to = task.frame /\ task.pc \in {"sending", "sent"} /\ task.frame \in Requests
    BY <2>1 DEF OnlyTheTask
  <2>3. 1 \in DOMAIN inbound /\ m = inbound[1]
    BY <2>1 DEF Types, InboundOK
  <2>4. Believable(m) /\ ~NoReply
    BY <2>1, <2>3 DEF AppInv, RepliesTrue, NoReply
  <2>5. /\ task'.pc = task.pc /\ task'.frame = task.frame /\ task'.reply = m.type
        /\ task'.app = task.app /\ task'.stopped = task.stopped
        /\ task'.attempt = task.attempt /\ task'.result = task.result
    BY <2>1 DEF Types, TaskOK, Tasks
  <2>6. Known
    BY <1>1, LossIsHarmless DEF Types
  <2>7. ~Early /\ ~Unread
    BY <2>4 DEF AppInv, Unasked, OnItsWay
  <2> HIDE DEF m
  <2>8. /\ task.frame = "LAUNCH" => m.type \in {"launched", "refused"}
        /\ task.frame = "LAUNCH" /\ m.type = "refused" => Gone
        /\ m.type = "absent" => Gone
    BY <2>1, <2>2, <2>4 DEF Believable
  <2>9. ~Early' /\ ~Unread' /\ RepliesTrue'
    BY <2>5, <2>6, <2>7 DEF Early, Known, AppInv
  <2>10. ReplyTrue'
    BY <2>5, <2>6, <2>8 DEF ReplyTrue, Known, AppInv
  <2>11. OwnApp' /\ InSession' /\ EndsClear'
    BY <2>2, <2>5, <2>6 DEF Known, AppInv, OwnApp, InSession, EndsClear, Requests
  <2>. QED
    BY <2>9, <2>10, <2>11 DEF AppInv, Unasked, OnItsWay
<1>. QED
  BY <1>2, <1>3 DEF MessageRead, Forwarded, Pinged

LEMMA OneMore ==
    ASSUME InboundOK, NEW m, Sends(m)
    PROVE  \A i \in DOMAIN inbound' :
             inbound'[i] = m \/ \E j \in DOMAIN inbound : inbound'[i] = inbound[j]
<1>1. CASE inbound' = inbound
  BY <1>1
<1>2. CASE inbound' = Append(inbound, m)
  <2>1. Len(inbound) \in Nat /\ DOMAIN inbound = 1..Len(inbound)
    BY DEF InboundOK
  <2>2. /\ DOMAIN inbound' = 1..(Len(inbound) + 1)
        /\ \A i \in 1..Len(inbound) : inbound'[i] = inbound[i]
        /\ inbound'[Len(inbound) + 1] = m
    BY <1>2, <2>1 DEF InboundOK
  <2>. QED
    BY <2>1, <2>2
<1>. QED
  BY <1>1, <1>2 DEF Sends

(* What was true of the messages stays true when one more is sent.         *)
LEMMA TrueStays ==
    ASSUME InboundOK, RepliesTrue, NEW m, Sends(m), NoReply \/ (Gone => Gone'),
           Ours(m) =>
             /\ m.to = "LAUNCH" => m.type \in {"launched", "refused"}
             /\ m.type = "absent" \/ (m.to = "LAUNCH" /\ m.type = "refused") => Gone'
    PROVE  RepliesTrue'
<1>1. ASSUME NEW i \in DOMAIN inbound', Ours(inbound'[i])
      PROVE  /\ inbound'[i].to = "LAUNCH" => inbound'[i].type \in {"launched", "refused"}
             /\ inbound'[i].type = "absent"
                \/ (inbound'[i].to = "LAUNCH" /\ inbound'[i].type = "refused") => Gone'
  <2>1. CASE inbound'[i] = m
    BY <1>1, <2>1
  <2>2. CASE inbound'[i] # m
    <3>1. PICK j \in DOMAIN inbound : inbound'[i] = inbound[j]
      BY <2>2, OneMore
    <3>2. Believable(inbound[j])
      BY DEF RepliesTrue
    <3>3. Gone => Gone'
      BY <1>1, <3>1 DEF NoReply
    <3>. QED
      BY <1>1, <3>1, <3>2, <3>3 DEF Believable
  <2>. QED
    BY <2>1, <2>2
<1>. QED
  BY <1>1 DEF RepliesTrue, Believable, Ours

(* The receiver takes back what it was asked, or loses an app, and says so *)
(* or something that is none of our replies.                               *)
LEMMA ReceiverLoses ==
    ASSUME Types, AppInv, task' = task, wire' = wire,
           receiver'.apps \subseteq receiver.apps,
           receiver.asked \/ ~receiver'.asked,
           NEW m, Sends(m), Ours(m) => receiver.asked,
           Ours(m) => /\ m.to = "STOP"
                      /\ m.type = "absent" => receiver'.apps = {}
    PROVE  AppInv'
<1>1. /\ Unread' = Unread /\ (Gone => Gone')
  BY DEF Unread, Gone
<1>2. receiver.asked => ~Unread /\ ~Early
  BY DEF AppInv, OnItsWay, Unasked
<1>3. Early' = Early
  BY DEF Early
<1>4. NoReply /\ ~Ours(m) => NoReply'
  BY OneMore DEF Types, NoReply
<1>5. RepliesTrue'
  <2>1. Ours(m) => /\ m.to # "LAUNCH"
                   /\ m.type = "absent" => Gone'
    BY <1>1, <1>2 DEF Gone
  <2>. QED
    BY <1>1, <2>1, TrueStays DEF Types, AppInv
<1>6. Early \/ Unread => receiver'.apps = {} /\ ~receiver'.asked /\ NoReply'
  BY <1>2, <1>4 DEF AppInv, Unasked, OnItsWay
<1>7. Unasked' /\ OnItsWay'
  BY <1>1, <1>3, <1>6 DEF AppInv, Unasked, OnItsWay
<1>8. OwnApp' /\ ReplyTrue' /\ InSession' /\ EndsClear'
  BY <1>1 DEF AppInv, OwnApp, ReplyTrue, InSession, EndsClear
<1>. QED
  BY <1>5, <1>7, <1>8 DEF AppInv

LEMMA RequestTaken ==
    ASSUME Types, InTurn, AppInv, RequestRead
    PROVE  AppInv'
<1>1. /\ task' = task /\ wire # <<>> /\ wire' = Tail(wire) /\ ~Early /\ ~Early'
  BY DEF RequestRead, AppInv, Unasked, Early
<1>2. wire' = <<>> \/ ~Unread
  <2>1. Tail(<<"LAUNCH">>) = <<>>
    OBVIOUS
  <2>2. Unread => wire = <<"LAUNCH">>
    BY DEF AppInv, OnItsWay
  <2>. QED
    BY <1>1, <2>1, <2>2
<1>3. ~Unread'
  <2>1. \A i \in DOMAIN wire' : \E j \in DOMAIN wire : wire'[i] = wire[j]
    <3>1. /\ Len(wire) \in Nat /\ DOMAIN wire = 1..Len(wire)
          /\ DOMAIN wire' = 1..(Len(wire) - 1)
          /\ \A i \in 1..(Len(wire) - 1) : wire'[i] = wire[i + 1]
      BY <1>1 DEF Types, WireOK
    <3>2. \A i \in 1..(Len(wire) - 1) : i + 1 \in 1..Len(wire)
      BY <3>1
    <3>. QED
      BY <3>1, <3>2
  <2>. QED
    BY <1>2, <2>1 DEF Unread
<1>4. Unread <=> Head(wire) = "LAUNCH"
  <2>1. 1 \in DOMAIN wire /\ Head(wire) = wire[1]
    BY <1>1 DEF Types, WireOK
  <2>2. Unread => wire = <<"LAUNCH">>
    BY DEF AppInv, OnItsWay
  <2>. QED
    BY <2>1, <2>2 DEF Unread
<1>5. Unread => NoReply /\ receiver.apps = {} /\ ~task.app /\ ~task.stopped /\ ~Gone
  BY DEF AppInv, OnItsWay, InSession, Gone
<1>6. Unasked' /\ OnItsWay'
  BY <1>1, <1>3 DEF Unasked, OnItsWay
<1>7. CASE /\ Head(wire) = "LAUNCH"
           /\ receiver' = [receiver EXCEPT !.apps = @ \cup {task.attempt}]
           /\ Sends(Reply("launched", "LAUNCH"))
  <2>1. receiver'.apps = {task.attempt}
    BY <1>4, <1>5, <1>7 DEF Types, ReceiverOK, Receivers
  <2>2. RepliesTrue'
    BY <1>4, <1>5, <1>7, TrueStays DEF Types, AppInv, Reply
  <2>3. Unread
    BY <1>4, <1>7
  <2>4. OwnApp' /\ InSession'
    BY <1>1, <2>1 DEF AppInv, OwnApp, InSession
  <2>5. ReplyTrue'
    BY <1>1, <1>5, <2>3 DEF AppInv, OnItsWay, ReplyTrue
  <2>6. EndsClear'
    BY <1>1, <1>5, <2>3 DEF AppInv, OnItsWay, EndsClear
  <2>. QED
    BY <1>6, <2>2, <2>4, <2>5, <2>6 DEF AppInv
<1>8. ASSUME receiver'.apps = receiver.apps, RepliesTrue'
      PROVE  AppInv'
  <2>1. Gone => Gone'
    BY <1>3, <1>8 DEF Gone
  <2>2. OwnApp' /\ InSession' /\ ReplyTrue' /\ EndsClear'
    BY <1>1, <1>8, <2>1 DEF AppInv, OwnApp, InSession, ReplyTrue, EndsClear
  <2>. QED
    BY <1>6, <1>8, <2>2 DEF AppInv
<1>9. CASE /\ Head(wire) = "LAUNCH"
           /\ Sends(Reply("refused", "LAUNCH"))
           /\ UNCHANGED receiver
  <2>1. Gone'
    BY <1>3, <1>4, <1>5, <1>9 DEF Gone
  <2>2. RepliesTrue'
    BY <1>9, <2>1, TrueStays DEF Types, AppInv, Reply
  <2>. QED
    BY <1>8, <1>9, <2>2
<1>10. CASE /\ Head(wire) = "STOP"
            /\ receiver' = [receiver EXCEPT !.asked = TRUE]
            /\ UNCHANGED inbound
  <2>1. receiver'.apps = receiver.apps
    BY <1>10 DEF Types, ReceiverOK, Receivers
  <2>2. Gone => Gone'
    BY <1>3, <2>1 DEF Gone
  <2>3. RepliesTrue'
    BY <1>10, <2>2 DEF AppInv, RepliesTrue, Believable
  <2>. QED
    BY <1>8, <2>1, <2>3
<1>11. CASE /\ Head(wire) = "GET_STATUS"
            /\ Sends(Reply(Listed, "GET_STATUS"))
            /\ UNCHANGED receiver
  <2>1. Listed = "absent" => receiver.apps = {}
    BY DEF Listed, AppInv, OwnApp
  <2>2. (Gone => Gone') /\ (Listed = "absent" => Gone')
    BY <1>3, <1>11, <2>1 DEF Gone
  <2>3. Listed # "refused"
    BY DEF Listed
  <2>4. RepliesTrue'
    BY <1>11, <2>2, <2>3, TrueStays DEF Types, AppInv, Reply
  <2>. QED
    BY <1>8, <1>11, <2>4
<1>. QED
  BY <1>7, <1>9, <1>10, <1>11 DEF RequestRead

LEMMA AppKept ==
    ASSUME Types, OnlyTheTask, LockIsBusy, InTurn, AppInv, Next
    PROVE  AppInv'
<1>1. CASE TimesOut \/ Cancel \/ ReadFails \/ ReaderEnds \/ Beats
  <2>1. task' = task /\ Lossy
    BY <1>1 DEF TimesOut, Cancel, ReadFails, ReaderEnds, Beats, Lossy, channel, Types,
       ReceiverOK, Receivers
  <2>. QED
    BY <2>1, OthersGoOn DEF Types
<1>2. CASE AppStops
  <2>1. /\ receiver.asked /\ task' = task /\ wire' = wire
        /\ receiver'.apps = receiver.apps \ {task.attempt} /\ ~receiver'.asked
    BY <1>2 DEF AppStops, Types, ReceiverOK, Receivers
  <2>2. receiver'.apps = {} /\ receiver'.apps \subseteq receiver.apps
    BY <2>1 DEF AppInv, OwnApp
  <2>3. PICK type \in {"absent", "refused"} : Sends(Reply(type, "STOP"))
    BY <1>2 DEF AppStops
  <2>. QED
    BY <2>1, <2>2, <2>3, ReceiverLoses DEF Reply
<1>3. CASE StopRefused
  <2>1. /\ receiver.asked /\ task' = task /\ wire' = wire
        /\ receiver'.apps = receiver.apps /\ ~receiver'.asked
    BY <1>3 DEF StopRefused, Types, ReceiverOK, Receivers
  <2>2. Sends(Reply("refused", "STOP"))
    BY <1>3 DEF StopRefused
  <2>. QED
    BY <2>1, <2>2, ReceiverLoses DEF Reply
<1>4. CASE AppExits \/ Asked \/ Chatters
  <2>1. /\ task' = task /\ wire' = wire
        /\ receiver'.apps \subseteq receiver.apps /\ receiver'.asked = receiver.asked
    BY <1>4 DEF AppExits, Asked, Chatters, Types, ReceiverOK, Receivers
  <2>2. PICK m : Sends(m) /\ ~Ours(m)
    <3>1. CASE AppExits
      <4>1. ~Ours([type |-> "close"]) /\ Sends([type |-> "close"])
        BY <3>1 DEF AppExits, Ours, Replies
      <4>. QED
        BY <4>1
    <3>2. CASE Asked
      <4>1. ~Ours([type |-> "ping"]) /\ Sends([type |-> "ping"])
        BY <3>2 DEF Asked, Ours, Replies
      <4>. QED
        BY <4>1
    <3>3. CASE Chatters
      <4>1. PICK m \in {[type |-> "other"]}
                        \cup {[type |-> "absent", to |-> f, foreign |-> TRUE] :
                              f \in pending} : Sends(m)
        BY <3>3 DEF Chatters
      <4>2. ~Ours(m)
        BY DEF Ours, Replies
      <4>. QED
        BY <4>1, <4>2
    <3>. QED
      BY <1>4, <3>1, <3>2, <3>3
  <2>. QED
    BY <2>1, <2>2, ReceiverLoses
<1>. QED
  BY <1>1, <1>2, <1>3, <1>4, TaskGoesOn, OpenedAfresh, WritersGoOn, MessageTaken,
     RequestTaken
  DEF Next, Session, Receiver

(* A session's end is orderly and is what it says: nothing follows the     *)
(* last word, the apps are stopped in order, success leaves nothing of     *)
(* ours running and the HTTP fallback never starts over what does          *)
(* (cast/mod.rs finish_app and stop_app, writer.rs, the fallback in        *)
(* start_stream).                                                          *)
THEOREM EndIsAsItSays == Spec => []EndIsOrderly
<1> DEFINE Inv == OnlyTheTask /\ LockIsBusy /\ InTurn /\ AppInv
<1>1. Init => Inv
  <2>1. ASSUME Init PROVE OnlyTheTask /\ LockIsBusy /\ InTurn
    BY <2>1 DEF Init, Quiet, OnlyTheTask, LockIsBusy, InTurn, TornDownInOrder
  <2>2. ASSUME Init PROVE AppInv
    BY <2>2 DEF Init, AppInv, OwnApp, Unasked, OnItsWay, RepliesTrue, ReplyTrue, InSession,
       EndsClear, Early, Unread, Gone, NoReply
  <2>. QED
    BY <2>1, <2>2
<1>2. Types /\ Inv /\ [Next]_vars => Inv'
  <2>1. ASSUME Types, Inv, UNCHANGED vars PROVE Inv'
    <3>1. task' = task /\ Lossy /\ OnlyTheTask' /\ LockIsBusy' /\ InTurn'
      BY <2>1 DEF vars, channel, OnlyTheTask, LockIsBusy, InTurn, Unwritable,
         TornDownInOrder, Lossy
    <3>. QED
      BY <2>1, <3>1, OthersGoOn DEF Types
  <2>. QED
    BY <2>1, OneRequest, BusyStays, TurnKept, AppKept
<1>3. Inv => OkMeansGone /\ FallbackStartsClear /\ TornDownInOrder
  BY DEF InTurn, AppInv, OwnApp, EndsClear, OkMeansGone, FallbackStartsClear, Gone
<1>4. QED
  <2> HIDE DEF Inv
  <2>1. Spec => [](OkMeansGone /\ FallbackStartsClear /\ TornDownInOrder)
    BY <1>1, <1>2, <1>3, TypesHold, PTL DEF Spec
  <2>2. OkMeansGone /\ FallbackStartsClear /\ TornDownInOrder /\ NothingAfterTheEnd
        => EndIsOrderly
    BY DEF EndIsOrderly
  <2>. QED
    BY <2>1, <2>2, NothingFollowsTheEnd, PTL

-----------------------------------------------------------------------------
(* PINGs are left unanswered only once the platform CLOSE is on its way,   *)
(* and then no reply is awaited.                                           *)

ClosingIsLast ==
    /\ writer.closing => task.frame = "CLOSE"
    /\ task.frame = "CLOSE" => task.pc \notin {"running", "stop", "close"}

LEMMA ClosingStays ==
    ASSUME Types, ClosingIsLast, Next
    PROVE  ClosingIsLast'
<1>1. CASE Opened
  BY <1>1 DEF Opened, Quiet, Types, TaskOK, Tasks, ClosingIsLast
<1>2. CASE Opens \/ OpenFails \/ Closes \/ LaunchFails
  BY <1>2 DEF Opens, OpenFails, Closes, LaunchFails, Heard, channel, Types, TaskOK, Tasks,
     WriterOK, ControlWriters, ClosingIsLast
<1>3. CASE Connected
  BY ZenonT(60), <1>3 DEF Connected, Asks, Types, TaskOK, Tasks, ClosingIsLast
<1>4. CASE ConnectFails \/ Closed
  <2>1. writer'.closing = writer.closing
    BY <1>4 DEF ConnectFails, Closed, Aborted, Halved, Types, WriterOK, ControlWriters
  <2>2. task'.frame = task.frame /\ task'.pc = "over"
    BY <1>4 DEF ConnectFails, Closed, Types, TaskOK, Tasks
  <2>. QED
    BY <2>1, <2>2 DEF ClosingIsLast
<1>5. CASE Launched \/ Stops \/ StatusHeard
  BY <1>5 DEF Launched, Stops, StatusHeard, Heard, Says, Asks, Types, TaskOK, Tasks,
     ClosingIsLast
<1>6. CASE AppConnected \/ OfferFails \/ OfferDropped
  BY <1>6 DEF AppConnected, Runs, OfferFails, OfferDropped, Halved, channel, Types,
     TaskOK, Tasks, WriterOK, ControlWriters, ClosingIsLast
<1>7. CASE StopHeard
  <2>1. writer' = writer /\ task.frame = "STOP"
    BY <1>7 DEF StopHeard, Heard
  <2>2. task'.pc = "sending"
    BY <1>7 DEF StopHeard, Says, Asks, Types, TaskOK, Tasks
  <2>. QED
    BY <2>1, <2>2 DEF ClosingIsLast
<1>8. ASSUME NEW result, Ends(result), writer' = writer
      PROVE  ClosingIsLast'
  BY <1>8 DEF Ends, Negotiates, Types, TaskOK, Tasks, ClosingIsLast
<1>9. CASE Cancelled \/ EventsOver \/ StreamEnds
  BY <1>8, <1>9 DEF Cancelled, EventsOver, StreamEnds, channel
<1>10. CASE EventTaken
  <2>1. CASE task' = task
    BY <1>10, <2>1 DEF EventTaken, ClosingIsLast
  <2>2. CASE Head(events) = "close"
    BY <1>8, <1>10, <2>2 DEF EventTaken
  <2>. QED
    BY <1>10, <2>1, <2>2 DEF EventTaken
<1>11. CASE Over
  <2>1. /\ writer' = writer /\ task'.frame = task.frame
        /\ task'.pc \in {"start", "done"}
    BY <1>11 DEF Over, channel, Types, TaskOK, Tasks
  <2>. QED
    BY <2>1 DEF ClosingIsLast
<1>12. CASE Answered
  BY <1>12 DEF Answered, Negotiates, channel, Types, TaskOK, Tasks, ClosingIsLast
<1>13. ASSUME NEW w \in Writers, Writes(w)
      PROVE  ClosingIsLast'
  <2>1. writer'.closing = writer.closing
    BY <1>13 DEF Writes, WriteBegins, WriteEnds, WriteFails, Halved, Types, WriterOK,
       ControlWriters
  <2>2. task' = task \/ \E sent \in BOOLEAN :
          task' = [task EXCEPT !.pc = IF sent THEN "sent" ELSE "unsent"]
    BY <1>13 DEF Writes, WriteBegins, WriteEnds, WriteFails, Goes
  <2>3. task'.frame = task.frame /\ task'.pc \in {task.pc, "sent", "unsent"}
    BY <2>2 DEF Types, TaskOK, Tasks
  <2>. QED
    BY <2>1, <2>3 DEF ClosingIsLast
<1>14. CASE MessageRead
  BY <1>14 DEF MessageRead, Delivered, Forwarded, Pinged, Types, TaskOK, Tasks,
     ClosingIsLast
<1>15. CASE TimesOut \/ Cancel \/ ReadFails \/ ReaderEnds \/ Beats \/ RequestRead
         \/ AppStops \/ StopRefused \/ AppExits \/ Asked \/ Chatters
  BY <1>15 DEF TimesOut, Cancel, ReadFails, ReaderEnds, Beats, RequestRead, AppStops,
     StopRefused, AppExits, Asked, Chatters, channel, Types, WriterOK, ControlWriters,
     ClosingIsLast
<1>. QED
  BY <1>1, <1>2, <1>3, <1>4, <1>5, <1>6, <1>7, <1>9, <1>10, <1>11, <1>12, <1>13, <1>14,
     <1>15
  DEF Next, Session, Receiver

(* The receiver's PINGs are answered as long as the session waits for a    *)
(* reply (reader_loop, ControlWriter::write).                              *)
THEOREM PingsGetAnswers == Spec => PingsAnswered
<1> DEFINE Inv == OnlyTheTask /\ ClosingIsLast
<1>1. Init => Inv
  BY DEF Init, Quiet, OnlyTheTask, ClosingIsLast
<1>2. Types /\ Inv /\ [Next]_vars => Inv'
  <2>1. ASSUME Types, Inv, UNCHANGED vars PROVE Inv'
    BY <2>1 DEF vars, channel, OnlyTheTask, ClosingIsLast
  <2>2. QED
    BY <2>1, OneRequest, ClosingStays
<1>3. ASSUME Types, Inv, [Next]_vars, reader = "pong", reader' = "up", pending # {}
      PROVE  receiver'.owed < receiver.owed
  <2>1. WriteBegins("reader") \/ WriteEnds("reader")
    <3>1. ~Session /\ ~Answered /\ ~StreamEnds
      BY <1>3 DEF Session, Opens, Opened, OpenFails, Connected, ConnectFails, Aborted,
         Launched, LaunchFails, AppConnected, OfferFails, OfferDropped, Cancelled,
         EventTaken, EventsOver, Stops, StopHeard, StatusHeard, Closes, Closed, Over,
         Answered, StreamEnds, channel, OnlyTheTask
    <3>2. PICK w \in Writers : Writes(w)
      BY <1>3, <3>1 DEF vars, channel, Next, TimesOut, Cancel, MessageRead, ReadFails,
         ReaderEnds, Beats, Receiver, RequestRead, AppStops, StopRefused, AppExits, Asked,
         Chatters
    <3>. QED
      BY <1>3, <3>2 DEF Writes, WriteBegins, WriteEnds, WriteFails, Goes, Writers
  <2>2. ~writer.closing
    BY <1>3 DEF OnlyTheTask, ClosingIsLast, Requests
  <2>3. ~WriteBegins("reader")
    BY <1>3, <2>2 DEF WriteBegins, Goes, Wants
  <2>4. receiver' = [receiver EXCEPT !.owed = @ - 1]
    BY <2>1, <2>3 DEF WriteEnds, Wants
  <2>. QED
    BY <1>3, <2>4 DEF Types, ReceiverOK, Receivers
<1>4. Types /\ Inv /\ [Next]_vars =>
        [reader = "pong" /\ reader' = "up" /\ pending # {}
           => receiver'.owed < receiver.owed]_reader
  BY <1>3
<1>5. QED
  <2> HIDE DEF Inv
  <2>1. QED
    BY <1>1, <1>2, <1>4, TypesHold, PTL DEF Spec, PingsAnswered

=============================================================================
