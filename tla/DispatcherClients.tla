--------------------------- MODULE DispatcherClients ---------------------------
(***************************************************************************)
(* The event dispatcher under every client it is written for: threads that *)
(* reserve, release and publish in any order, threads that flush and stop, *)
(* and a callback that may itself ask for the stop.  The scheduler is one  *)
(* such client, with a discipline of its own (module Scheduler).           *)
(***************************************************************************)
EXTENDS EventDispatcher

CONSTANT MaxEvents   \* bound: events admitted in one behaviour

ASSUME MaxEventsAssumption == MaxEvents \in Nat

\* Events are numbered in the order they are offered.
Offered(type, r) == [type |-> type, request |-> r, seq |-> enqueued + 1]

\* What a client may publish: telemetry of no request, or an event of a request.
Offer(type, r) == enqueued < MaxEvents /\ Publish(Offered(type, r))

Client ==
    \/ \E r \in Requests : ReserveTerminal(r) \/ ReleaseTerminal(r)
    \/ \E r \in Requests, type \in {"token", "done"} : Offer(type, r)
    \/ Offer("metrics", NoRequest)

Next == \/ Client
        \/ \E c \in Callers : CallerStep(c)
        \/ DispatcherThread
        \/ StopFromCallback

\* The thread runs, callbacks return ("must not block indefinitely"), and a
\* caller whose wait is over is scheduled.
Fairness ==
    /\ WF_dispatcherVars(DispatcherThread)
    /\ \A c \in Callers :
          /\ WF_dispatcherVars(FlushReturn(c) \/ FlushThrow(c))
          /\ WF_dispatcherVars(StopJoined(c) \/ StopAwaited(c))

Spec == DispatcherInit /\ [][Next]_dispatcherVars /\ Fairness
=============================================================================
