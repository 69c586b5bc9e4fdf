------------------------------ MODULE StreamTask ------------------------------
(***************************************************************************)
(* What a Sink promises whoever casts to it (nd-core's sink): start_stream *)
(* runs until the stream is over, the state it shows follows SinkStatus,   *)
(* and a stream told to stop ends.  Each protocol implements it in its own *)
(* way.                                                                    *)
(***************************************************************************)
VARIABLES
    running,    \* start_stream has not returned
    told,       \* stop_stream was called on this stream
    shown       \* SinkStatus's state

vars == <<running, told, shown>>

Busy == {"Connecting", "EnsuringFirewall", "WaitSocket", "WaitStreaming"}
States == Busy \cup {"Disconnected", "Streaming", "Error"}

Init == ~running /\ ~told /\ shown = "Disconnected"

(* SinkStatus::set: an error stays over Disconnected.                      *)
After(state, next) == IF state = "Error" /\ next = "Disconnected" THEN state ELSE next

Start ==
    /\ ~running
    /\ running' = TRUE /\ told' = FALSE
    /\ shown' \in Busy \cup {After(shown, "Disconnected")}

(* The session moves on: it shows how far it has got.                      *)
Works ==
    /\ running
    /\ shown' \in Busy \cup {"Streaming"}
    /\ UNCHANGED <<running, told>>

(* stop_stream resets what is shown, an error too.                         *)
Stop ==
    /\ told' = running
    /\ shown' = "Disconnected"
    /\ UNCHANGED running

Returns ==
    /\ running
    /\ running' = FALSE /\ told' = FALSE
    /\ shown' \in {After(shown, "Disconnected"), "Error"}

(* The process goes away with everything it held.                          *)
Dies == ~running' /\ ~told' /\ shown' = "Disconnected"

Next == Start \/ Works \/ Stop \/ Returns \/ Dies

Spec == Init /\ [][Next]_vars /\ WF_vars(told /\ Returns)
=============================================================================
