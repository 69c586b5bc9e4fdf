----------------------------- MODULE MediaFiles -----------------------------
(* How each item of a request to play files is read, and who ends up decoding *)
(* it: the service inspects the files one after another                       *)
(* (nd-service/src/dbus.rs), what a file says of itself decides whether a     *)
(* Chromecast may fetch it (nd-chromecast/src/file_server.rs,                 *)
(* nd-core/src/media.rs), the engine picks the way the whole queue goes       *)
(* (nd-service/src/engine/session.rs) and a DLNA television is asked first    *)
(* (nd-chromecast/src/media/mod.rs, nd-dlna/src/renderer.rs). The files stay  *)
(* where they are and may be written over at any time.                        *)
EXTENDS Integers, Sequences, FiniteSets

CONSTANTS
    File,           \* paths
    Contents,       \* what a path may hold: [ext, regular, streams, size]
    Stream,         \* web streams
    StreamIs,       \* and what each is sent as: [kind, type]
    Television,     \* [kind, renderer, says]: what a television lists, if it answers
    Heights,        \* frame heights a player may ask for; 0 is the file's own
    MaxFiles,       \* MAX_FILES
    MaxWrites,      \* bound: times a file is written over
    MaxRequests,    \* bound: requests made
    NoStart         \* the request came without a player's start

Item == File \cup Stream

ASSUME MediaFilesAssumption ==
    /\ File \cap Stream = {} /\ Television # {}
    /\ \A contents \in Contents : contents.size \in Nat \X Nat
    /\ Heights \subseteq Nat /\ NoStart \notin Heights

VARIABLES
    disk,           \* what each path holds
    touched,        \* paths written over since they were last read here
    order,          \* the request: its items, receiver and start
    listed,         \* what inspection made of the items so far
    way,            \* how the queue goes, and "idle", "reading", "asking" before
    shown,        \* the place in the queue being played, and its frame
    writes, requests

mediaVars == <<disk, touched, order, listed, way, shown, writes, requests>>

NoOrder == [items |-> <<>>, receiver |-> CHOOSE r \in Television : TRUE, height |-> NoStart]
Still == [place |-> 0, frame |-> <<0, 0>>]

MediaInit ==
    /\ disk \in [File -> Contents] /\ touched = {}
    /\ order = NoOrder /\ listed = <<>> /\ way = "idle" /\ shown = Still
    /\ writes = 0 /\ requests = 0

(* ---------------------------- what a file says --------------------------- *)

\* By extension alone: the Default Media Receiver's formats, then the
\* containers only decoding here plays.
NativeFormat == [
    jpg |-> [kind |-> "photo", type |-> "image/jpeg"],
    mp4 |-> [kind |-> "video", type |-> "video/mp4"],
    webm |-> [kind |-> "video", type |-> "video/webm"],
    mp3 |-> [kind |-> "music", type |-> "audio/mpeg"],
    wav |-> [kind |-> "music", type |-> "audio/wav"]]
DecodableFormat == [
    mkv |-> [kind |-> "video", type |-> "video/x-matroska"],
    wma |-> [kind |-> "music", type |-> "audio/x-matroska"]]

Playable(contents) ==
    contents.regular /\ contents.ext \in DOMAIN NativeFormat \cup DOMAIN DecodableFormat

CastPlaysStream(stream) == stream \in {"h264", "vp9", "opus", "pcm", "mp3", "aac"}

\* Files whose headers cannot be read in time are left as their name says.
CastPlaysStreams(contents) == contents.streams = {"unread"} \/ \A s \in contents.streams : CastPlaysStream(s)

Format(contents) ==
    IF contents.ext \in DOMAIN NativeFormat THEN NativeFormat[contents.ext]
                                            ELSE DecodableFormat[contents.ext]

\* A slip: music is taken at its extension's word.
CheckStreams_Video(contents) == Format(contents).kind = "video" => CastPlaysStreams(contents)

\* Any stream a Chromecast does not play has the file decoded here.
CheckStreams(contents) == Format(contents).kind # "photo" => CastPlaysStreams(contents)

Listing(f) ==
    LET contents == disk[f]
        format == Format(contents)
    IN  [item |-> f, kind |-> format.kind, type |-> format.type,
         native |-> contents.ext \in DOMAIN NativeFormat /\ CheckStreams(contents)]

FromTheWeb(stream) ==
    [item |-> stream, kind |-> StreamIs[stream].kind, type |-> StreamIs[stream].type, native |-> TRUE]

(* ------------------------------ the frame sent --------------------------- *)

TvFrameMax == <<3840, 2160>>

Even(n) == 2 * (n \div 2)
Bound(n, low, high) == IF n < low THEN low ELSE IF n > high THEN high ELSE n
Larger(a, b) == IF a > b THEN a ELSE b

FrameOfHeight(h) ==
    LET height == Even(Bound(h, 2, TvFrameMax[2]))
    IN  <<Even((height * 16) \div 9 + 1), height>>

FrameHolding(size) == FrameOfHeight(Larger(size[2], (size[1] * 9 + 15) \div 16))

\* Without a picture, or one that could not be read, 1080p.
TvFrame(item, height) ==
    IF height \notin {NoStart, 0} THEN FrameOfHeight(height)
    ELSE IF item \in File /\ disk[item].size # <<0, 0>> THEN FrameHolding(disk[item].size)
    ELSE <<1920, 1080>>

(* --------------------------------- a request ------------------------------ *)

Refuses ==
    /\ way' = "idle" /\ listed' = <<>> /\ order' = NoOrder
    /\ UNCHANGED <<disk, touched, shown, writes, requests>>

\* Files come by themselves or from a player, a web stream from a player only.
Orders(items, receiver, height) ==
    /\ way = "idle" /\ requests < MaxRequests
    /\ Len(items) \in 1..MaxFiles
    /\ (\E i \in 1..Len(items) : items[i] \in Stream) => (Len(items) = 1 /\ height # NoStart)
    /\ requests' = requests + 1
    /\ order' = [items |-> items, receiver |-> receiver, height |-> height]
    /\ way' = "reading"
    /\ UNCHANGED <<disk, touched, listed, shown, writes>>

\* One file after another, each read once.
InspectsNext ==
    /\ way = "reading" /\ Len(listed) < Len(order.items)
    /\ LET item == order.items[Len(listed) + 1]
       IN  \/ /\ item \in Stream
              /\ listed' = Append(listed, FromTheWeb(item))
              /\ UNCHANGED <<disk, touched, order, way, shown, writes, requests>>
           \/ /\ item \in File /\ Playable(disk[item])
              /\ listed' = Append(listed, Listing(item))
              /\ touched' = touched \ {item}
              /\ UNCHANGED <<disk, order, way, shown, writes, requests>>
           \/ item \in File /\ ~ Playable(disk[item]) /\ Refuses

Fetchable == \A i \in DOMAIN listed : listed[i].native

\* The engine sends what was listed: player controls only where they work.
ChoosesWay ==
    /\ way = "reading" /\ Len(listed) = Len(order.items)
    /\ LET receiver == order.receiver
       IN  \/ /\ order.height # NoStart /\ receiver.kind \notin {"Chromecast", "Dlna"}
              /\ Refuses
           \/ /\ order.height # NoStart => receiver.kind \in {"Chromecast", "Dlna"}
              /\ way' = IF receiver.kind = "Chromecast" /\ Fetchable THEN "fetch"
                        ELSE IF receiver.renderer THEN "asking" ELSE "decode"
              /\ UNCHANGED <<disk, touched, order, listed, shown, writes, requests>>

Wav == {"audio/wav", "audio/x-wav", "audio/wave"}
ListsType(types, type) == type \in types \/ (type \in Wav /\ types \cap Wav # {})

\* The types a television lists; none when it has no such service or fails.
AcceptedTypes(receiver) == {receiver.says, {}}

\* A television that does not say what it plays plays nothing by itself.
TelevisionAnswers ==
    /\ way = "asking"
    /\ \E types \in AcceptedTypes(order.receiver) :
          way' = IF \A i \in DOMAIN listed :
                       /\ listed[i].item \in File /\ listed[i].kind = "music"
                       /\ listed[i].native /\ ListsType(types, listed[i].type)
                 THEN "fetch" ELSE "decode"
    /\ UNCHANGED <<disk, touched, order, listed, shown, writes, requests>>

\* The next item is handed over, or decoded in a frame of its own.
PlaysNext ==
    /\ way \in {"fetch", "decode"} /\ shown.place < Len(listed)
    /\ LET next == shown.place + 1
       IN  shown' = [place |-> next,
                       frame |-> IF way = "decode" THEN TvFrame(listed[next].item, order.height)
                                                   ELSE <<0, 0>>]
    /\ UNCHANGED <<disk, touched, order, listed, way, writes, requests>>

\* After the last, or stopped before.
QueueEnds ==
    /\ way \in {"asking", "fetch", "decode"}
    /\ way' = "idle" /\ listed' = <<>> /\ order' = NoOrder /\ shown' = Still
    /\ UNCHANGED <<disk, touched, writes, requests>>

\* Another program writes over a file, while that can matter.
Written(f, contents) ==
    /\ writes < MaxWrites /\ way # "idle" /\ contents # disk[f]
    /\ writes' = writes + 1
    /\ disk' = [disk EXCEPT ![f] = contents]
    /\ touched' = touched \cup {f}
    /\ UNCHANGED <<order, listed, way, shown, requests>>

MediaNext ==
    \/ \E n \in 1..MaxFiles, receiver \in Television, height \in Heights \cup {NoStart} :
          \E items \in [1..n -> Item] : Orders(items, receiver, height)
    \/ InspectsNext \/ ChoosesWay \/ TelevisionAnswers \/ PlaysNext \/ QueueEnds
    \/ \E f \in File, contents \in Contents : Written(f, contents)

MediaSpec == MediaInit /\ [][MediaNext]_mediaVars

(* ------------------------------- properties ------------------------------ *)

\* A file a receiver is left to fetch is one it plays: every stream of it for a
\* Chromecast, music in a type it listed for a television; unless the file was
\* written over since it was read, or its headers could not be read at all.
ReceiverPlaysWhatItFetches ==
    (way = "fetch" /\ shown.place > 0 /\ listed[shown.place].item \in File \ touched) =>
        LET contents == disk[listed[shown.place].item]
        IN  /\ contents.ext \in DOMAIN NativeFormat
            /\ Format(contents).kind # "photo" => CastPlaysStreams(contents)
            /\ order.receiver.kind # "Chromecast" =>
                  /\ Format(contents).kind = "music"
                  /\ ListsType(order.receiver.says, Format(contents).type)

\* The frame of a decoded file is even both ways, sixteen by nine to within two
\* columns, within 4K, and, at the file's own size, loses at most an odd line and
\* two columns of a picture that fits.
FrameHolds ==
    (way = "decode" /\ shown.place > 0) =>
        LET frame == shown.frame
            item == listed[shown.place].item
        IN  /\ frame[1] % 2 = 0 /\ frame[2] % 2 = 0
            /\ frame[1] <= TvFrameMax[1] /\ frame[2] <= TvFrameMax[2]
            /\ 9 * frame[1] - 16 * frame[2] \in (-18)..18
            /\ (item \in File \ touched /\ order.height \in {NoStart, 0}) =>
                  /\ frame[1] + 2 >= Bound(disk[item].size[1], 0, TvFrameMax[1])
                  /\ frame[2] + 1 >= Bound(disk[item].size[2], 0, TvFrameMax[2])

\* A queue goes the way its files can be played, in a frame that holds them
\* (file_server.rs, engine/session.rs, media.rs).
QueueIsPlayable == ReceiverPlaysWhatItFetches /\ FrameHolds

=============================================================================
