------------------------------ MODULE WfdModes ------------------------------
(* Choosing the one video mode of a Miracast session: what the sink's answer *)
(* to M3 says it can show, the mode picked for the captured screen, and the  *)
(* M4 that names it back (nd-wfd/src/rtsp/capabilities.rs and choose_format  *)
(* of rtsp/mod.rs).  A bitmap is the set of its bits, and a mode is known by *)
(* its bit: <<table, index>>.                                                *)
EXTENDS Integers, Sequences, FiniteSets

CONSTANTS
    Bits,       \* the bits a sink's bitmaps are drawn from
    Natives,    \* the native fields it may declare (a byte)
    Sources,    \* the sizes of the captured screen, <<0, 0>> when unknown
    Limits,     \* the largest sizes a session may send
    Rates       \* the frame rates a session may ask for

ASSUME SizesAreNumbers ==
    Sources \subseteq Nat \X Nat /\ Limits \subseteq Nat \X Nat /\ Rates \subseteq Nat

NoMode == <<>>
Progressive == FALSE
Interlaced == TRUE

Cea == <<
    <<640, 480, 60, Progressive>>, <<720, 480, 60, Progressive>>, <<720, 480, 60, Interlaced>>,
    <<720, 576, 50, Progressive>>, <<720, 576, 50, Interlaced>>, <<1280, 720, 30, Progressive>>,
    <<1280, 720, 60, Progressive>>, <<1920, 1080, 30, Progressive>>,
    <<1920, 1080, 60, Progressive>>, <<1920, 1080, 60, Interlaced>>,
    <<1280, 720, 25, Progressive>>, <<1280, 720, 50, Progressive>>,
    <<1920, 1080, 25, Progressive>>, <<1920, 1080, 50, Progressive>>,
    <<1920, 1080, 50, Interlaced>>, <<1280, 720, 24, Progressive>>,
    <<1920, 1080, 24, Progressive>> >>

\* Every size of the other two tables comes at 30 and at 60 frames, in that order.
AtBothRates(sizes) ==
    [i \in 1..2 * Len(sizes) |->
        <<sizes[(i + 1) \div 2][1], sizes[(i + 1) \div 2][2],
          IF i % 2 = 1 THEN 30 ELSE 60, Progressive>>]

Vesa == AtBothRates(<<
    <<800, 600>>, <<1024, 768>>, <<1152, 864>>, <<1280, 768>>, <<1280, 800>>, <<1360, 768>>,
    <<1366, 768>>, <<1280, 1024>>, <<1400, 1050>>, <<1440, 900>>, <<1600, 900>>,
    <<1600, 1200>>, <<1680, 1024>>, <<1680, 1050>>, <<1920, 1200>> >>)

Handheld == AtBothRates(<<
    <<800, 480>>, <<854, 480>>, <<864, 480>>, <<640, 360>>, <<960, 540>>, <<848, 480>> >>)

Tables == <<Cea, Vesa, Handheld>>

(* ------------------------------- modes -------------------------------- *)

AllBits == {m \in (0..2) \X (0..31) : m[2] < Len(Tables[m[1] + 1])}
Entry(m) == Tables[m[1] + 1][m[2] + 1]
Width(m) == Entry(m)[1]
Height(m) == Entry(m)[2]
Fps(m) == Entry(m)[3]
IsInterlaced(m) == Entry(m)[4]
Pixels(m) == Width(m) * Height(m)

\* A bit beyond its table's end names nothing.
DecodeTable(bitmap) == bitmap \cap AllBits

ModeFromNative(native) ==
    LET bit == <<native % 8, native \div 8>>
    IN  IF bit \in AllBits THEN bit ELSE NoMode

\* A field that is missing or is not a hexadecimal number leaves its default;
\* with fewer than seven fields nothing of the line is used.
ParseVideoFormats(line) ==
    IF line.short
    THEN [modes |-> {}, native |-> NoMode, profile |-> 0]
    ELSE [modes |-> DecodeTable(line.bits), native |-> ModeFromNative(line.native),
          profile |-> line.profile]

(* ------------------------------- picking ------------------------------- *)

LargestFirst(a, b) ==
    \/ Pixels(a) > Pixels(b)
    \/ Pixels(a) = Pixels(b) /\ Fps(a) > Fps(b)

\* Of equals, min_by_key keeps the first in table order and max_by_key the last.
InTableOrder(a, b) == a[1] < b[1] \/ (a[1] = b[1] /\ a[2] <= b[2])
FirstOf(modes) ==
    IF modes = {} THEN NoMode ELSE CHOOSE m \in modes : \A o \in modes : InTableOrder(m, o)
LastOf(modes) ==
    IF modes = {} THEN NoMode ELSE CHOOSE m \in modes : \A o \in modes : InTableOrder(o, m)

Sendable(modes) == {m \in modes : ~ IsInterlaced(m)}
Within(modes, limit) == {m \in modes : Width(m) <= limit[1] /\ Height(m) <= limit[2]}

\* What nothing comes before.
Largest(modes) == {m \in modes : \A o \in modes : ~ LargestFirst(o, m)}

BestMode(modes) == LastOf(Largest(Sendable(modes)))

BestModeWithin(modes, limit) ==
    IF Within(Sendable(modes), limit) = {} THEN BestMode(modes)
    ELSE BestMode(Within(modes, limit))

\* The aspect difference in thousandths, as the code computes it.
AspectDiff(m, source) ==
    LET cross == Width(m) * source[2] - source[1] * Height(m)
        size == IF cross < 0 THEN -cross ELSE cross
    IN  (size * 1000) \div (source[1] * source[2])

Closer(a, b, source) ==
    \/ AspectDiff(a, source) < AspectDiff(b, source)
    \/ AspectDiff(a, source) = AspectDiff(b, source) /\ LargestFirst(a, b)
Closest(modes, source) == {m \in modes : \A o \in modes : ~ Closer(o, m, source)}

BestModeFor(caps, source, limit) ==
    LET native == caps.native
        candidates == Within(Sendable(caps.modes), limit)
    IN  IF native # NoMode /\ native \in candidates THEN native
        ELSE IF 0 \in {source[1], source[2]} THEN BestModeWithin(caps.modes, limit)
        ELSE FirstOf(Closest(IF candidates = {} THEN Sendable(caps.modes) ELSE candidates,
                             source))

\* What the session's limits leave of the offer; an empty rest is no mode.
Compatible(modes, limit, fps) == {m \in Within(modes, limit) : Fps(m) <= fps}

PreferredMode(caps, source, limit, fps) ==
    BestModeFor([caps EXCEPT !.modes = Compatible(@, limit, fps)], source, limit)

(* --------------------------------- M4 ---------------------------------- *)

\* A slip in packing the native field: the table and the index change places.
NativeField_Swapped(m) == m[1] * 8 + m[2]

NativeField(m) == m[2] * 8 + m[1]

\* Exactly the picked bit is named, and constrained baseline when the sink takes it.
M4VideoFormats(m, profile) ==
    [short |-> FALSE, native |-> NativeField(m), bits |-> {m},
     profile |-> IF profile % 2 = 1 THEN 1 ELSE profile]

(* ----------------------------- one exchange ---------------------------- *)

VARIABLES
    answer,     \* the M3 answer: its formats line, whether it takes AAC, its RTP port
    request,    \* the screen's size, the session's limit and its frame rate
    port,       \* the RTP port the session knows
    picked,     \* the mode kept for the pipeline
    m4        \* the M4 sent: none yet, an error, or the formats line

modeVars == <<answer, request, port, picked, m4>>

NotSent == [kind |-> "none"]
Failed(why) == [kind |-> "error", why |-> why]

Lines == [short : BOOLEAN, native : Natives, bits : SUBSET Bits, profile : {0, 1, 3}]

ModeInit ==
    /\ answer \in [formats : {l \in Lines : l.short => l.bits = {}}, aac : BOOLEAN,
                   port : {0, 19000}]
    /\ request \in [source : Sources, limit : Limits, fps : Rates]
    /\ port = 0 /\ picked = NoMode /\ m4 = NotSent

ChooseFormat ==
    /\ m4 = NotSent
    /\ port' = IF answer.port # 0 THEN answer.port ELSE port
    /\ LET caps == ParseVideoFormats(answer.formats)
           mode == PreferredMode(caps, request.source, request.limit, request.fps)
       IN  IF ~ answer.aac
           THEN m4' = Failed("no AAC") /\ UNCHANGED picked
           ELSE IF mode = NoMode
           THEN m4' = Failed("no mode") /\ UNCHANGED picked
           ELSE /\ picked' = mode
                /\ m4' = [kind |-> "m4", line |-> M4VideoFormats(mode, caps.profile)]
    /\ UNCHANGED <<answer, request>>

ModeNext == ChooseFormat

ModeSpec == ModeInit /\ [][ModeNext]_modeVars

(* ------------------------------ properties ----------------------------- *)

Offered == DecodeTable(answer.formats.bits)
Suits(m) ==
    /\ ~ IsInterlaced(m) /\ Fps(m) <= request.fps
    /\ Width(m) <= request.limit[1] /\ Height(m) <= request.limit[2]

\* The mode the pipeline will produce is one the sink offered, progressive and
\* inside the session's limit and frame rate, and a sink that reads M4 with the
\* tables reads that mode and no other, in the bitmaps and in the native field
\* alike; a session is refused only when no offered mode would do.
SinkReadsThePick ==
    /\ m4.kind = "m4" =>
        /\ picked \in Offered /\ Suits(picked)
        /\ ParseVideoFormats(m4.line).modes = {picked}
        /\ ParseVideoFormats(m4.line).native = picked
    /\ (m4 = Failed("no mode")) => ~ \E m \in Offered : Suits(m)

=============================================================================
