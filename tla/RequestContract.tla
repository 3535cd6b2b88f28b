---------------------------- MODULE RequestContract ----------------------------
(***************************************************************************)
(* What the native runtime promises a caller about the events of a request *)
(* (the contract in llw_runtime.h): every accepted request is told about   *)
(* with increasing sequence numbers and ended by exactly one of DONE,      *)
(* CANCELLED and ERROR, after which nothing is said about it any more.     *)
(***************************************************************************)
EXTENDS Naturals

CONSTANT Requests

VARIABLES
    phase,   \* "unknown", "open" (accepted, not ended) or "closed"
    last     \* the sequence number of the last event the callback was given

contractVars == <<phase, last>>

Init == /\ phase = [r \in Requests |-> "unknown"]
        /\ last = [r \in Requests |-> 0]

Accept(r) ==
    /\ phase[r] = "unknown"
    /\ phase' = [phase EXCEPT ![r] = "open"]
    /\ UNCHANGED last

\* Only the event's own request hears of it, under a larger number than before.
Said(r) == /\ last'[r] > last[r]
           /\ last' = [last EXCEPT ![r] = last'[r]]

Tell(r) == phase[r] = "open" /\ Said(r) /\ UNCHANGED phase

Close(r) ==
    /\ phase[r] = "open"
    /\ Said(r)
    /\ phase' = [phase EXCEPT ![r] = "closed"]

Next == \E r \in Requests : Accept(r) \/ Tell(r) \/ Close(r)

Spec == Init /\ [][Next]_contractVars
=============================================================================
