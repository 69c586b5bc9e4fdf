---------------------------- MODULE EncoderChoice ----------------------------
(* Which H.264 encoder a session runs (nd-core/src/pipeline: encoder_selection *)
(* and encoder), and the three ways a session gets to it: a DLNA or Cast       *)
(* session probes the candidates with a test picture (working_encoder), a      *)
(* Miracast session keeps the first real pipeline that produces frames         *)
(* (start_pipeline of nd-wfd/src/rtsp/mod.rs), and the browser publisher       *)
(* writes the order into the registry once per process (apply_encoder_policy   *)
(* of nd-webrtc/src/lib.rs) and lets webrtcsink choose.                        *)
EXTENDS Integers, Sequences, FiniteSets

CONSTANTS
    Encoders,       \* the encoders this run knows, of AllEncoders
    Cards,          \* what /sys/class/drm may list: sequences of kernel modules
    MaxEncodings    \* bound: sessions in a row

AllEncoders == {"va", "vaapi", "nv", "v4l2", "x264", "openh264"}
Hardware == {"va", "vaapi", "nv", "v4l2"}
Va == {"va", "vaapi"}

ASSUME KnownEncoders == Encoders \subseteq AllEncoders

Priority(e) ==
    CASE e = "va" -> 100 [] e = "nv" -> 95 [] e = "vaapi" -> 90 [] e = "v4l2" -> 80
      [] e = "x264" -> 50 [] e = "openh264" -> 40

NoEncoder == "none"

(* -------------------------------- drivers ------------------------------- *)

FromKernelModule(name) ==
    CASE name \in {"i915", "xe", "nouveau"} -> name
      [] name \in {"amdgpu", "radeon"} -> "amdgpu"
      [] name \in {"nvidia", "nvidia-drm"} -> "nvidia"
      [] OTHER -> "unknown"

\* The first card, in order of name, whose driver is known.
Detect(cards) ==
    LET known == SelectSeq([i \in 1..Len(cards) |-> FromKernelModule(cards[i])],
                           LAMBDA d : d # "unknown")
    IN  IF known = <<>> THEN "unknown" ELSE known[1]

HardwareIsReliable(driver) == driver # "nouveau"

\* NVENC only on NVIDIA, and no VA-API under NVIDIA's own driver.
FitsDriver(e, driver) ==
    \/ e \notin Hardware
    \/ /\ HardwareIsReliable(driver)
       /\ e = "nv" => driver = "nvidia"
       /\ ~ (e \in Va /\ driver = "nvidia")

Permits(acceleration, e) == acceleration \/ e \notin Hardware

ForcedEncoder(machine) ==
    IF machine.forced \in machine.installed THEN machine.forced ELSE NoEncoder

AllowedOn(machine, acceleration) ==
    {e \in machine.installed :
        Permits(acceleration, e) /\ FitsDriver(e, Detect(machine.cards))}

\* Each once, the highest priority first; no two have the same.
Ranked(encoders) ==
    CHOOSE order \in [1..Cardinality(encoders) -> encoders] :
        /\ \A e \in encoders : \E i \in 1..Cardinality(encoders) : order[i] = e
        /\ \A i, j \in 1..Cardinality(encoders) :
              i < j => Priority(order[i]) > Priority(order[j])

\* The order encoders are tried in; a forced one is the only candidate.
Candidates(machine, acceleration) ==
    IF ForcedEncoder(machine) # NoEncoder THEN <<ForcedEncoder(machine)>>
    ELSE Ranked(AllowedOn(machine, acceleration))

\* What the service and the window write in their logs, without running it.
BestEncoder(machine, acceleration) ==
    LET permitted == {e \in machine.installed : Permits(acceleration, e)}
        fit == {e \in permitted : FitsDriver(e, Detect(machine.cards))}
    IN  IF ForcedEncoder(machine) # NoEncoder THEN ForcedEncoder(machine)
        ELSE IF fit = {} THEN NoEncoder
        ELSE CHOOSE e \in fit : \A o \in fit : Priority(o) <= Priority(e)

(* ------------------------------- sessions ------------------------------- *)

\* What a pipeline built around an encoder does: its description is refused, it
\* does not go to Playing, it plays and encodes nothing, or it encodes.
Behaviours == {"unbuildable", "refuses", "silent", "encodes"}

VARIABLES
    machine,        \* the cards, what is installed, the forced encoder, what each does
    acceleration,   \* whether the preferences allow the graphics card
    ranks,          \* the registry's order for webrtcsink; not written before the first share
    session,        \* the session: who asks, how far it is, what it still has to try
    open,           \* the encoders whose pipeline is out of Null
    runs,           \* the encoder the running session was given
    count           \* sessions so far

encoderVars == <<machine, acceleration, ranks, session, open, runs, count>>

Unranked == <<"unranked">>
NotEncoding == [by |-> "none", at |-> "idle", left |-> <<>>, allowed |-> FALSE]

EncoderInit ==
    /\ machine \in [cards : Cards, installed : SUBSET Encoders,
                    forced : {NoEncoder, "x264"}, does : [Encoders -> Behaviours]]
    /\ \A e \in Encoders \ machine.installed : machine.does[e] = "unbuildable"
    /\ acceleration \in BOOLEAN
    /\ ranks = Unranked /\ session = NotEncoding /\ open = {} /\ runs = NoEncoder /\ count = 0

\* A DLNA or Cast session, and a Miracast session once its mode is agreed, list
\* the candidates once, with the preference of that moment.
Begins(by) ==
    /\ session = NotEncoding /\ runs = NoEncoder /\ count < MaxEncodings
    /\ session' = [by |-> by, at |-> "next", left |-> Candidates(machine, acceleration),
                   allowed |-> acceleration]
    /\ count' = count + 1
    /\ UNCHANGED <<machine, acceleration, ranks, open, runs>>

\* The next candidate is built and played; one that cannot be is passed over.
Tries ==
    /\ session.at = "next" /\ session.left # <<>>
    /\ LET e == Head(session.left)
       IN  IF machine.does[e] \in {"unbuildable", "refuses"}
           THEN session' = [session EXCEPT !.left = Tail(@)] /\ UNCHANGED open
           ELSE session' = [session EXCEPT !.at = "watched"] /\ open' = open \cup {e}
    /\ UNCHANGED <<machine, acceleration, ranks, runs, count>>

\* A frame left the encoder before the deadline.  The probe's own pipeline ends
\* with its guard and the session builds one of its own; Miracast keeps this one.
FrameSeen ==
    /\ session.at = "watched" /\ machine.does[Head(session.left)] = "encodes"
    /\ runs' = Head(session.left)
    /\ session' = [session EXCEPT !.at = "running", !.left = <<>>]
    /\ open' = IF session.by = "miracast" THEN open ELSE {runs'}
    /\ UNCHANGED <<machine, acceleration, ranks, count>>

\* The deadline passes without one.
NoFrame_KeepsOpen ==
    /\ session.at = "watched" /\ machine.does[Head(session.left)] = "silent"
    /\ session' = [session EXCEPT !.at = "next", !.left = Tail(@)]
    /\ UNCHANGED <<machine, acceleration, ranks, open, runs, count>>

NoFrame ==
    /\ session.at = "watched" /\ machine.does[Head(session.left)] = "silent"
    /\ session' = [session EXCEPT !.at = "next", !.left = Tail(@)]
    /\ open' = open \ {Head(session.left)}
    /\ UNCHANGED <<machine, acceleration, ranks, runs, count>>

NoneWorks ==
    /\ session.at = "next" /\ session.left = <<>>
    /\ session' = [session EXCEPT !.at = "failed"]
    /\ UNCHANGED <<machine, acceleration, ranks, open, runs, count>>

\* The first share writes the order into the registry, and only the first:
\* what is not a candidate gets no rank.
AppliesPolicy == IF ranks = Unranked THEN Candidates(machine, acceleration) ELSE ranks

\* webrtcsink, which takes the highest ranked encoder, or codes VP8 with none.
Shares ==
    /\ session = NotEncoding /\ runs = NoEncoder /\ count < MaxEncodings
    /\ ranks' = AppliesPolicy
    /\ runs' = IF ranks' = <<>> THEN "vp8" ELSE Head(ranks')
    /\ session' = [by |-> "browser", at |-> "running", left |-> <<>>, allowed |-> acceleration]
    /\ open' = {runs'}
    /\ count' = count + 1
    /\ UNCHANGED <<machine, acceleration>>

\* The session ends, or is cancelled while it tries: its pipeline's guard is
\* dropped wherever it stands.
EncodingEnds ==
    /\ session # NotEncoding
    /\ session' = NotEncoding /\ runs' = NoEncoder /\ open' = {}
    /\ UNCHANGED <<machine, acceleration, ranks, count>>

Toggles ==
    /\ count < MaxEncodings
    /\ acceleration' = ~ acceleration
    /\ UNCHANGED <<machine, ranks, session, open, runs, count>>

EncoderNext ==
    \/ \E by \in {"cast", "miracast"} : Begins(by)
    \/ Tries \/ FrameSeen \/ NoFrame \/ NoneWorks \/ Shares \/ EncodingEnds \/ Toggles

EncoderSpec == EncoderInit /\ [][EncoderNext]_encoderVars

(* ------------------------------ properties ------------------------------ *)

Tried(e) == machine.does[e] \in {"unbuildable", "refuses", "silent"}
Candidate(e, allowed) ==
    IF ForcedEncoder(machine) # NoEncoder THEN e = ForcedEncoder(machine)
    ELSE e \in AllowedOn(machine, allowed)

\* A session that is handed an encoder is handed one that encodes on this
\* machine, that its driver and the preference of the moment it began permit (or
\* that is forced), and before which nothing better would have worked; a session
\* is refused only when no encoder would.  One that was given up leaves no
\* pipeline behind it: at most one is open, the one being tried or run.
FirstWorkingOne ==
    /\ session.at = "running" /\ session.by # "browser" =>
        /\ machine.does[runs] = "encodes" /\ Candidate(runs, session.allowed)
        /\ \A e \in Encoders :
              Candidate(e, session.allowed) /\ Priority(e) > Priority(runs) => Tried(e)
    /\ session.at = "failed" => \A e \in Encoders : Candidate(e, session.allowed) => Tried(e)
    /\ open \subseteq (IF session.at = "watched" THEN {Head(session.left)} ELSE {runs})

\* The encoder the logs name is the one tried first.
LogNamesTheFirst ==
    \A allowed \in BOOLEAN :
        LET order == Candidates(machine, allowed)
        IN  BestEncoder(machine, allowed) = IF order = <<>> THEN NoEncoder ELSE Head(order)

\* The encoder that runs is the best that works, and the one the logs name is
\* the first tried (encoder_selection.rs).
EncoderIsRight == FirstWorkingOne /\ LogNamesTheFirst

=============================================================================
