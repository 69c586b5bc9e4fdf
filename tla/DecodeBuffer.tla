---------------------------- MODULE DecodeBuffer ----------------------------
(* Telling a receiver how many pictures it must hold: the SPS of each key    *)
(* frame is rewritten, at the encoder's output, to declare its decode buffer *)
(* (nd-core/src/pipeline/decode_buffer.rs).  Bytes are numbers below 256 and *)
(* bits the sequence they spell; a reader is a position in the bits, and a   *)
(* read past the end makes every later one fail, as `?` does.                *)
EXTENDS Integers, Sequences, SequencesExt, FiniteSets

CONSTANTS
    Frames,     \* the access units the encoder may send: sequences of unit names
    UnitOf,     \* the bytes of each unit, header included, emulation prevention in place
    WantedOf,   \* the bytes the standard's syntax asks of it: see MCPipelines
    MaxFrames   \* bound: access units in a row

Nothing == <<>>

(* --------------------------- bytes and bits ----------------------------- *)

Bit(bytes, at) == (bytes[at \div 8 + 1] \div (2 ^ (7 - (at % 8)))) % 2
BitsOf(bytes) == [i \in 1..8 * Len(bytes) |-> Bit(bytes, i - 1)]
BytesOf(bits) ==
    [i \in 1..Len(bits) \div 8 |->
        LET b(j) == bits[8 * (i - 1) + j]
        IN  128 * b(1) + 64 * b(2) + 32 * b(3) + 16 * b(4) + 8 * b(5) + 4 * b(6) + 2 * b(7) + b(8)]

\* RBSP from NAL payload: the 3 of every 0 0 3 is dropped.
Unescape(bytes) ==
    LET Next(acc, byte) ==
            IF acc.zeros >= 2 /\ byte = 3 THEN [acc EXCEPT !.zeros = 0]
            ELSE [out |-> Append(acc.out, byte), zeros |-> IF byte = 0 THEN acc.zeros + 1 ELSE 0]
    IN  FoldLeft(Next, [out |-> <<>>, zeros |-> 0], bytes).out

Escape_ExactlyThree(bytes) ==
    LET Next(acc, byte) ==
            LET stuffed == acc.zeros >= 2 /\ byte = 3
            IN  [out |-> (IF stuffed THEN Append(acc.out, 3) ELSE acc.out) \o <<byte>>,
                 zeros |-> IF byte = 0 THEN (IF stuffed THEN 1 ELSE acc.zeros + 1) ELSE 0]
    IN  FoldLeft(Next, [out |-> <<>>, zeros |-> 0], bytes).out

\* NAL payload from RBSP: a 3 after two zeros when the next byte is 0..3.
Escape(bytes) ==
    LET Next(acc, byte) ==
            LET stuffed == acc.zeros >= 2 /\ byte <= 3
            IN  [out |-> (IF stuffed THEN Append(acc.out, 3) ELSE acc.out) \o <<byte>>,
                 zeros |-> IF byte = 0 THEN (IF stuffed THEN 1 ELSE acc.zeros + 1) ELSE 0]
    IN  FoldLeft(Next, [out |-> <<>>, zeros |-> 0], bytes).out

(* ------------------------------ the reader ------------------------------ *)

\* A cursor: the bits, how many are read, the value read last; -1 read too far.
Start(bits) == [bits |-> bits, at |-> 0, val |-> 0]
Lost(c) == c.at < 0
Lose(c) == [c EXCEPT !.at = -1, !.val = 0]

ValueOf(bits) == FoldLeft(LAMBDA v, b : 2 * v + b, 0, bits)
Read(c, n) ==
    IF Lost(c) \/ c.at + n > Len(c.bits) THEN Lose(c)
    ELSE [c EXCEPT !.at = @ + n, !.val = ValueOf(SubSeq(c.bits, c.at + 1, c.at + n))]
Skip(c, n) == IF Lost(c) \/ c.at + n > Len(c.bits) THEN Lose(c) ELSE [c EXCEPT !.at = @ + n]
Flag(c) == Read(c, 1)

\* Exp-Golomb: as many more bits as there were zeros before the first one, and
\* more than 31 zeros is no value.
PlusPrefix(rest, zeros) ==
    IF Lost(rest) THEN rest ELSE [rest EXCEPT !.val = 2 ^ zeros - 1 + @]
UeAfter(c, one) ==
    IF one = 0 \/ one - c.at > 32 THEN Lose(c)
    ELSE PlusPrefix(Read([c EXCEPT !.at = one], one - c.at - 1), one - c.at - 1)
Ue(c) ==
    IF Lost(c) THEN c
    ELSE UeAfter(c, SelectInSubSeq(c.bits, c.at + 1, Len(c.bits), LAMBDA b : b = 1))

Ues(c, n) == FoldLeft(LAMBDA d, i : Ue(d), c, [i \in 1..n |-> i])

\* `body` read when the flag before it is set.
When(flag, body(_)) == IF flag.val = 1 THEN body(flag) ELSE flag
Optional(c, body(_)) == When(Flag(c), body)

HrdOf(count) ==
    Skip(FoldLeft(LAMBDA d, i : Skip(Ues(d, 2), 1), Skip(count, 8),
                  [i \in 1..(IF Lost(count) THEN 0 ELSE count.val + 1) |-> i]), 20)
SkipHrd(c) == HrdOf(Ue(c))

(* ------------------------------ the writer ------------------------------ *)

NumberBits(n, length) == [i \in 1..length |-> (n \div 2 ^ (length - i)) % 2]
LengthOf(n) == CHOOSE k \in 1..30 : 2 ^ (k - 1) <= n /\ n < 2 ^ k
UeBits(value) ==
    LET code == value + 1
    IN  [i \in 1..LengthOf(code) - 1 |-> 0]
            \o NumberBits(code, LengthOf(code))

TrailingBits(bits) ==
    LET stop == Append(bits, 1)
    IN  stop \o [i \in 1..((8 - (Len(stop) % 8)) % 8) |-> 0]

(* -------------------------------- the SPS ------------------------------- *)

HighProfiles == {100, 110, 122, 244, 44, 83, 86, 118, 128, 138, 139, 134, 135}

\* Past the chroma and bit depth fields of a high profile; scaling matrices are
\* not followed.
Unscaled(flag) == IF flag.val = 1 THEN Lose(flag) ELSE flag
PastPlanes(chroma) == IF chroma.val = 3 THEN Skip(chroma, 1) ELSE chroma
PastChroma(c) == Unscaled(Flag(Skip(Ues(PastPlanes(Ue(c)), 2), 1)))

PastId(profile) ==
    IF profile.val \in HighProfiles THEN PastChroma(Ue(Skip(profile, 16)))
    ELSE Ue(Skip(profile, 16))

PastCycle(count) == Ues(count, count.val)
PastPicOrder(type) ==
    CASE type.val = 0 -> Ue(type)
      [] type.val = 1 -> PastCycle(Ue(Ues(Skip(type, 1), 2)))
      [] OTHER -> type

\* The reference count, and the cursor at the flag that says a VUI follows.
PastFields(mbsOnly) == IF mbsOnly.val = 1 THEN mbsOnly ELSE Skip(mbsOnly, 1)
PastSize(refs) ==
    Optional(Skip(PastFields(Flag(Ues(Skip(refs, 1), 2))), 1), LAMBDA c : Ues(c, 4))
Sized(refs) == [refs |-> refs.val, cursor |-> PastSize(refs)]
UpToVui(bits) == Sized(Ue(PastPicOrder(Ue(Ue(PastId(Read(Start(bits), 8)))))))

\* Inside the VUI, up to the flag that says the restriction follows.
PastRatio(idc) == IF idc.val = 255 THEN Skip(idc, 32) ELSE idc
PastAspect(flag) == PastRatio(Read(flag, 8))
PastSignal(flag) == Optional(Skip(flag, 4), LAMBDA c : Skip(c, 24))
PastDelay(hrd, nal, vcl) == Skip(hrd, IF 1 \in {nal.val, vcl.val} THEN 2 ELSE 1)
PastVcl(nal, vcl) == PastDelay(When(vcl, SkipHrd), nal, vcl)
PastNal(nal) == PastVcl(nal, Flag(When(nal, SkipHrd)))
UpToRestriction(c) ==
    LET overscan == Optional(Optional(c, PastAspect), LAMBDA f : Skip(f, 1))
        location == Optional(Optional(overscan, PastSignal), LAMBDA f : Ues(f, 2))
    IN  PastNal(Flag(Optional(location, LAMBDA f : Skip(f, 65))))

\* The restriction: pictures leave in decoding order, and the buffer is the
\* reference count.  A slip: the count as it stands, which may be none.
Restriction_NoFloor(refs) ==
    <<1, 1>> \o UeBits(2) \o UeBits(1) \o UeBits(15) \o UeBits(15) \o UeBits(0) \o UeBits(refs)

Restriction(refs) ==
    <<1, 1>> \o UeBits(2) \o UeBits(1) \o UeBits(15) \o UeBits(15)
        \o UeBits(0) \o UeBits(IF refs < 1 THEN 1 ELSE refs)

\* The unit with its restriction, or nothing when it has one or is not followed.
Declared(unit, bits, sps, vui, flag) ==
    IF Lost(vui) \/ (vui.val = 1 /\ (Lost(flag) \/ flag.val = 1)) THEN Nothing
    ELSE LET kept == IF vui.val = 1 THEN SubSeq(bits, 1, flag.at - 1)
                     ELSE SubSeq(bits, 1, sps.cursor.at) \o <<1, 0, 0, 0, 0, 0, 0, 0, 0>>
         IN  <<Head(unit)>> \o Escape(BytesOf(TrailingBits(kept \o Restriction(sps.refs))))
AtVui(unit, bits, sps, vui) == Declared(unit, bits, sps, vui, Flag(UpToRestriction(vui)))
AtSps(unit, bits, sps) == AtVui(unit, bits, sps, Flag(sps.cursor))
OfBits(unit, bits) == AtSps(unit, bits, UpToVui(bits))
WithDecodeBuffer(unit) == OfBits(unit, BitsOf(Unescape(Tail(unit))))

(* --------------------------- the access unit ---------------------------- *)

Type(unit) == IF unit = <<>> THEN 0 ELSE Head(unit) % 32
IsSlice(unit) == Type(unit) \in {1, 5}

\* Each start code up to the first coded slice: where it begins, a zero before
\* it included, and where its unit begins.
StartCodes(data) ==
    LET marks == {i \in 1..Len(data) - 2 : SubSeq(data, i, i + 2) = <<0, 0, 1>>}
        slices == {i \in marks : i + 3 <= Len(data) /\ IsSlice(<<data[i + 3]>>)}
        heard == {i \in marks : \A j \in slices : i <= j}
    IN  SetToSortSeq({[code |-> IF i > 1 /\ data[i - 1] = 0 THEN i - 1 ELSE i, unit |-> i + 3] :
                        i \in heard},
                     LAMBDA a, b : a.unit < b.unit)

\* The answer for an SPS: the one kept from the last SPS when it is the same.
\* A slip: whatever was kept.
Answered_Kept(last, unit) ==
    IF last # Nothing THEN last
    ELSE [sps |-> unit, answer |-> WithDecodeBuffer(unit)]

Answered(last, unit) ==
    IF last # Nothing /\ last.sps = unit THEN last
    ELSE [sps |-> unit, answer |-> WithDecodeBuffer(unit)]

\* The access unit with each SPS replaced, and what is kept; nothing when no
\* SPS changed.
Replaced(acc, code, unit, new, kept) ==
    [last |-> kept, changed |-> acc.changed \/ new # Nothing,
     out |-> acc.out \o code \o (IF new = Nothing THEN unit ELSE new)]
WithAnswer(acc, code, unit, kept) == Replaced(acc, code, unit, kept.answer, kept)
OneUnit(acc, code, unit) ==
    IF Type(unit) = 7 THEN WithAnswer(acc, code, unit, Answered(acc.last, unit))
    ELSE Replaced(acc, code, unit, Nothing, acc.last)

Rewritten(all) == [last |-> all.last, out |-> IF all.changed THEN all.out ELSE Nothing]
RewriteUnits(data, starts, kept) ==
    LET End(i) == IF i = Len(starts) THEN Len(data) ELSE starts[i + 1].code - 1
        One(acc, i) == OneUnit(acc, SubSeq(data, starts[i].code, starts[i].unit - 1),
                               SubSeq(data, starts[i].unit, End(i)))
        before == IF starts = <<>> THEN data ELSE SubSeq(data, 1, starts[1].code - 1)
    IN  Rewritten(FoldLeft(One, [last |-> kept, changed |-> FALSE, out |-> before],
                           [i \in 1..Len(starts) |-> i]))
RewriteAccessUnit(data, last) == RewriteUnits(data, StartCodes(data), last)

(* ------------------------------- the probe ------------------------------ *)

VARIABLES
    last,       \* the last SPS seen and what it became
    sent,       \* the access unit the encoder sent last
    delivered,  \* the bytes that left the encoder's pad for it
    frames      \* access units so far

bufferVars == <<last, sent, delivered, frames>>

\* An access unit on the wire: a four byte start code first, then three byte ones.
Stream(names, bytes) ==
    FoldLeft(LAMBDA data, n : data \o (IF data = <<>> THEN <<0, 0, 0, 1>> ELSE <<0, 0, 1>>) \o bytes[n],
             <<>>, names)

BufferInit == last = Nothing /\ sent = [units |-> <<>>, delta |-> FALSE, stream |-> TRUE]
              /\ delivered = <<>> /\ frames = 0

\* An SPS travels with a key frame, and only byte-stream output is rewritten.
Probe ==
    /\ frames < MaxFrames
    /\ \E units \in Frames, delta, stream \in BOOLEAN :
        /\ sent' = [units |-> units, delta |-> delta, stream |-> stream]
        /\ LET data == Stream(units, UnitOf)
               rewritten == RewriteAccessUnit(data, last)
           IN  IF delta \/ ~ stream
               THEN delivered' = data /\ UNCHANGED last
               ELSE /\ last' = rewritten.last
                    /\ delivered' = IF rewritten.out = Nothing THEN data ELSE rewritten.out
    /\ frames' = frames + 1

BufferNext == Probe

BufferSpec == BufferInit /\ [][BufferNext]_bufferVars

(* ------------------------------ properties ------------------------------ *)

\* What leaves the encoder is what it sent with every followed SPS declaring its
\* decode buffer, as the standard's syntax would write that SPS, and with every
\* other byte in place; whichever SPS came before.
StatesItsBuffer ==
    delivered = Stream(sent.units, IF sent.delta \/ ~ sent.stream THEN UnitOf ELSE WantedOf)
=============================================================================
