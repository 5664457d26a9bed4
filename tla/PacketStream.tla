---------------------------- MODULE PacketStream ----------------------------
(***************************************************************************)
(* What a consumer of a live broadcast is promised: successive calls of    *)
(* next_packet return the signup fragment, the full frame of the fragment  *)
(* that was current at the beginning, and then every delta frame from that *)
(* same fragment on, each once and in order, until the stream ends.  It    *)
(* ends for good, with an error or without.                                *)
(***************************************************************************)
EXTENDS Integers, Sequences

CONSTANTS
    Signup,     \* SyncResponse::signup_fragment
    First       \* SyncResponse::fragment

VARIABLES
    received,   \* the packets that next_packet returned, in order
    ended       \* how the stream ended: "none", "error", or "no"

Packet == [kind : {"start", "full", "delta"}, fragment : Nat]

\* The n-th packet of the broadcast.
Expected(n) ==
    IF n = 1 THEN [kind |-> "start", fragment |-> Signup]
    ELSE IF n = 2 THEN [kind |-> "full", fragment |-> First]
    ELSE [kind |-> "delta", fragment |-> First + (n - 3)]

Init == received = <<>> /\ ended = "no"

Deliver ==
    /\ ended = "no"
    /\ received' = Append(received, Expected(Len(received) + 1))
    /\ UNCHANGED ended

End ==
    /\ ended = "no"
    /\ ended' \in {"none", "error"}
    /\ UNCHANGED received

Next == Deliver \/ End

Spec == Init /\ [][Next]_<<received, ended>>
=============================================================================
