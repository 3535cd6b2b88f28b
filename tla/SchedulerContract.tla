--------------------------- MODULE SchedulerContract ---------------------------
(***************************************************************************)
(* The scheduler and its dispatcher implement the contract of              *)
(* llw_runtime.h.  A request is known from the moment its permit is        *)
(* reserved, and closed when its terminal event is handed to the callback. *)
(***************************************************************************)
EXTENDS Scheduler

PhaseOf(r) ==
    IF received[r].ended # "no" THEN "closed"
    ELSE IF permits[r] = "none" THEN "unknown" ELSE "open"

Contract == INSTANCE RequestContract
    WITH phase <- [r \in Requests |-> PhaseOf(r)],
         last  <- [r \in Requests |-> received[r].last]

(* Every behaviour of the native scheduler, seen through the callback, is   *)
(* one the header allows: numbers increase, one terminal event, nothing     *)
(* after it, nothing about a request that was refused.                      *)
ContractImplemented == Contract!Spec
=============================================================================
