------------------------------ MODULE MCPipelines ------------------------------
(***************************************************************************)
(* Instances of the modules of one pipeline's life: what is captured       *)
(* (Capture), which encoder and which mode it is given (EncoderChoice,     *)
(* WfdModes), how its stream is rewritten (DecodeBuffer), how its end is   *)
(* heard (PipelineBus) and how a television fetches it (HttpStream).  They *)
(* hand each other values that are open here, so a behaviour follows one   *)
(* of them.  HttpStream is followed three times: a file and a Cast         *)
(* session, a screen handed over again, and a screen whose session begins  *)
(* while an earlier one is still ending.                                   *)
(***************************************************************************)
EXTENDS Capture, WfdModes, EncoderChoice, DecodeBuffer, PipelineBus, HttpStream

VARIABLE part

Again == INSTANCE HttpStream WITH Attempts <- 2
Overlap == INSTANCE HttpStream WITH MaxSessions <- 2

(* A part that is not followed starts from one state. *)
OneMode ==
    /\ answer = [formats |-> [short |-> TRUE, native |-> 64, bits |-> {}, profile |-> 0],
                 aac |-> FALSE, port |-> 0]
    /\ request = [source |-> <<0, 0>>, limit |-> <<1920, 1080>>, fps |-> 30]
OneMachine ==
    /\ machine = [cards |-> <<"nvidia">>, installed |-> {}, forced |-> NoEncoder,
                  does |-> [e \in Encoders |-> "unbuildable"]]
    /\ acceleration = TRUE
OneScreen == kind = "screen" /\ drain.enabled

MCInit ==
    /\ part \in {"capture", "mode", "encoder", "buffer", "bus", "http", "again",
                "overlap"}
    /\ part = "mode" \/ (part # "mode" /\ OneMode)
    /\ part = "encoder" \/ (part # "encoder" /\ OneMachine)
    /\ CaptureInit /\ (part = "capture" \/ desktop = "other")
    /\ BusInit /\ (part = "bus" \/ media = CHOOSE m \in Playable : TRUE)
    /\ BufferInit /\ ModeInit /\ EncoderInit
    /\ HttpInit /\ (IF part = "http" THEN kind # "screen" ELSE OneScreen)

MCNext ==
    \/ /\ part = "capture" /\ CaptureNext
       /\ UNCHANGED <<modeVars, encoderVars, bufferVars, busVars, all, part>>
    \/ /\ part = "mode" /\ ModeNext
       /\ UNCHANGED <<captureVars, encoderVars, bufferVars, busVars, all, part>>
    \/ /\ part = "encoder" /\ EncoderNext
       /\ UNCHANGED <<captureVars, modeVars, bufferVars, busVars, all, part>>
    \/ /\ part = "buffer" /\ BufferNext
       /\ UNCHANGED <<captureVars, modeVars, encoderVars, busVars, all, part>>
    \/ /\ part = "bus" /\ BusNext
       /\ UNCHANGED <<captureVars, modeVars, encoderVars, bufferVars, all, part>>
    \/ /\ part = "http" /\ Next
       /\ UNCHANGED <<captureVars, modeVars, encoderVars, bufferVars, busVars, part>>
    \/ /\ part = "again" /\ Again!Next
       /\ UNCHANGED <<captureVars, modeVars, encoderVars, bufferVars, busVars, part>>
    \/ /\ part = "overlap" /\ Overlap!Next
       /\ UNCHANGED <<captureVars, modeVars, encoderVars, bufferVars, busVars, part>>

MCSpec ==
    MCInit /\ [][MCNext]_<<captureVars, modeVars, encoderVars, bufferVars, busVars, all,
                          part>>

MCBits == {<<0, 0>>, <<0, 5>>, <<0, 8>>, <<0, 9>>, <<1, 28>>, <<1, 30>>, <<2, 9>>}
MCSources == {<<0, 0>>, <<1920, 1080>>, <<1920, 1200>>}
MCLimits == {<<1920, 1080>>, <<1920, 1200>>}
MCCards == {<<"i915", "nvidia">>, <<"nvidia">>, <<"nouveau">>, <<"ast", "radeon">>}

-----------------------------------------------------------------------------
(* The SPS syntax of the standard, written from the fields: the reference  *)
(* the rewriting is compared with.                                         *)

RECURSIVE Escaped(_, _)
Escaped(zeros, s) ==
    IF s = <<>> THEN <<>>
    ELSE IF zeros = 2 /\ Head(s) < 4 THEN <<3>> \o Escaped(0, s)
    ELSE <<Head(s)>> \o Escaped(IF Head(s) = 0 THEN zeros + 1 ELSE 0, Tail(s))

RECURSIVE Fixed(_, _), Pack(_)
Fixed(n, value) == IF n = 0 THEN <<>> ELSE Append(Fixed(n - 1, value \div 2), value % 2)
Golomb(value) ==
    LET bits == CHOOSE k \in 1..20 : 2 ^ (k - 1) <= value + 1 /\ value + 1 < 2 ^ k
    IN  Fixed(bits - 1, 0) \o Fixed(bits, value + 1)
Pack(bits) ==
    IF bits = <<>> THEN <<>>
    ELSE LET byte == [i \in 1..8 |-> IF i <= Len(bits) THEN bits[i] ELSE 0]
         IN  <<byte[1] * 128 + byte[2] * 64 + byte[3] * 32 + byte[4] * 16
                 + byte[5] * 8 + byte[6] * 4 + byte[7] * 2 + byte[8]>>
             \o Pack(SubSeq(bits, 9, Len(bits)))

RestrictionOf(refs) ==
    <<1, 1>> \o Golomb(2) \o Golomb(1) \o Golomb(15) \o Golomb(15) \o Golomb(0) \o Golomb(refs)

Hrd == Golomb(1) \o Fixed(8, 0) \o Golomb(9) \o Golomb(9) \o <<1>> \o Golomb(7) \o Golomb(7)
       \o <<0>> \o Fixed(20, 5)

\* The VUI an encoder may write: its restriction is the last part.
Vui(sps, restriction) ==
    CASE sps.vui = "none" /\ restriction = <<0>> -> <<0>>
      [] sps.vui = "none" -> <<1>> \o Fixed(8, 0) \o restriction
      [] sps.vui = "timing" ->
            <<1>> \o Fixed(4, 0) \o <<1>> \o Fixed(32, 1) \o Fixed(32, 60) \o <<1>>
                \o <<0, 0, 1>> \o restriction
      [] sps.vui = "full" ->
            <<1, 1>> \o Fixed(8, 255) \o Fixed(32, 65537) \o <<1, 0, 1>> \o Fixed(4, 11)
                \o <<1>> \o Fixed(24, 65793) \o <<1>> \o Golomb(0) \o Golomb(1) \o <<0, 1>>
                \o Hrd \o <<1>> \o Hrd \o <<0, 1>> \o restriction

Sps(sps, restriction) ==
    LET high == IF sps.profile = 66 THEN <<>>
                ELSE Golomb(sps.chroma) \o (IF sps.chroma = 3 THEN <<0>> ELSE <<>>)
                        \o Golomb(0) \o Golomb(0) \o <<0, sps.scaling>>
        order == CASE sps.order = 0 -> Golomb(0) \o Golomb(4)
                   [] sps.order = 1 -> Golomb(1) \o <<0>> \o Golomb(1) \o Golomb(2)
                                        \o Golomb(2) \o Golomb(3) \o Golomb(4)
                   [] OTHER -> Golomb(2)
        crop == IF sps.cropped THEN <<1>> \o Golomb(0) \o Golomb(0) \o Golomb(0) \o Golomb(4)
                ELSE <<0>>
        bits == Fixed(8, sps.profile) \o Fixed(16, 51) \o Golomb(0) \o high \o Golomb(0) \o order
                    \o Golomb(sps.refs) \o <<0>> \o Golomb(119) \o Golomb(67)
                    \o (IF sps.frames THEN <<1>> ELSE <<0, 0>>) \o <<1>> \o crop
                    \o Vui(sps, restriction) \o <<1>>
    IN  <<103>> \o Escaped(0, Pack(bits))

Plain == [profile |-> 66, chroma |-> 1, scaling |-> 0, order |-> 2, refs |-> 1, frames |-> TRUE,
          cropped |-> FALSE, vui |-> "none"]
Nvenc == [Plain EXCEPT !.profile = 100, !.order = 0, !.refs = 3, !.cropped = TRUE, !.vui = "timing"]
FieldCoded == [Nvenc EXCEPT !.chroma = 3, !.order = 1, !.frames = FALSE, !.vui = "full"]

SpsOf ==
    [plain |-> Plain, still |-> [Plain EXCEPT !.refs = 0], nvenc |-> Nvenc, full |-> FieldCoded,
     declared |-> Nvenc, matrices |-> [Nvenc EXCEPT !.scaling = 1]]

SpsNames == DOMAIN SpsOf
Most(refs) == IF refs = 0 THEN 1 ELSE refs

MCUnitOf ==
    [n \in SpsNames \cup {"aud", "pps", "idr", "cut"} |->
        CASE n = "aud" -> <<9, 240>>
          [] n = "pps" -> <<104, 206, 60, 128>>
          [] n = "idr" -> <<101, 136, 0, 0, 1, 103, 66, 0>>
          [] n = "cut" -> <<103, 66, 0>>
          [] n = "declared" -> Sps(Nvenc, RestrictionOf(3))
          [] OTHER -> Sps(SpsOf[n], <<0>>)]

MCWantedOf ==
    [n \in DOMAIN MCUnitOf |->
        IF n \in SpsNames \ {"declared", "matrices"}
        THEN Sps(SpsOf[n], RestrictionOf(Most(SpsOf[n].refs))) ELSE MCUnitOf[n]]

MCFrames ==
    {<<"aud", n, "pps", "idr">> : n \in SpsNames \cup {"cut"}}
        \cup {<<n, m, "pps", "idr">> : n, m \in {"plain", "nvenc", "declared"}}
        \cup {<<"aud", "idr">>}
=============================================================================
