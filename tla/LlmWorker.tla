------------------------------ MODULE LlmWorker ------------------------------
(***************************************************************************)
(* The inference worker of llm_worker.rs: one thread that takes commands   *)
(* from a bounded channel, lets one request through at a time and waits    *)
(* for the event relay, a second thread, to acknowledge its terminal       *)
(* event.  Callers block until their command is answered.                  *)
(*                                                                         *)
(* What the relay does with an event is the sink it was given; the module  *)
(* that composes this one says it.  The native request is reduced to its   *)
(* QUEUED event and its outcome, tokens are left out.                      *)
(***************************************************************************)
EXTENDS Naturals, Sequences

CONSTANTS
    CommandCapacity,   \* WORKER_COMMAND_CAPACITY
    MaxModelCalls      \* bound on the loads and unloads of the model

VARIABLES
    phase,        \* WorkerGuard.phase
    request,      \* the one request: guard, stream and terminal receiver
    commands,     \* the channel of commands
    worker,       \* where the worker thread is
    after,        \* what it does once the active request is finished
    failures,     \* the channel of failed deliveries, of capacity 1
    modelCalls    \* loads and unloads so far

guard == <<phase, request>>
worker_vars == <<phase, request, commands, worker, after, failures, modelCalls>>

NoHandle == <<>>
NoRequest == [handle |-> NoHandle, asked |-> FALSE, cancelled |-> FALSE,
              event |-> "none", outcome |-> "none"]
\* The native side sends QUEUED before it returns the handle.
Accepted(h) == [NoRequest EXCEPT !.handle = h, !.event = "sent"]
Command(op, h) == [op |-> op, handle |-> h]
Unloads == {"unload", "load", "load that fails"}

WorkerInit ==
    /\ phase = "no-model" /\ request = NoRequest /\ commands = <<>>
    /\ worker = "recv" /\ after = "none" /\ failures = NoHandle /\ modelCalls = 0

(***************************************************************************)
(* Commands                                                                *)
(***************************************************************************)
Send(op, h) ==
    /\ Len(commands) < CommandCapacity
    /\ commands' = Append(commands, Command(op, h))
    /\ UNCHANGED <<phase, request, worker, after, failures, modelCalls>>

\* Another thread loads or unloads the model.
CallModel(op) ==
    /\ modelCalls < MaxModelCalls /\ Len(commands) < CommandCapacity
    /\ commands' = Append(commands, Command(op, NoHandle))
    /\ modelCalls' = modelCalls + 1
    /\ UNCHANGED <<phase, request, worker, after, failures>>

Receives(op) == worker = "recv" /\ commands # <<>> /\ Head(commands).op = op

\* The native side has put the terminal event into its one-shot channel.
Terminal == request.outcome # "none"

\* A poll follows every command; one that finds nothing may as well be left out,
\* for the loop polls again whenever no command comes.
Polls == worker' = IF Terminal \/ failures # NoHandle THEN "poll" ELSE "recv"

\* begin_submit, and the checks and the native submission after it.
Accepts(valid) == phase = "ready" /\ valid

HandleSubmit(valid) ==
    /\ Receives("submit")
    /\ IF Accepts(valid)
       THEN request' = Accepted(Head(commands).handle) /\ phase' = "streaming"
       ELSE UNCHANGED guard
    /\ commands' = Tail(commands) /\ Polls
    /\ UNCHANGED <<after, failures, modelCalls>>

\* WorkerGuard::cancel lets only the first one through to the native request.
Cancelled(h) ==
    IF request.handle = h /\ ~request.asked
    THEN [request EXCEPT !.asked = TRUE, !.cancelled = TRUE] ELSE request

HandleCancel(op) ==
    /\ Receives(op)
    /\ request' = Cancelled(Head(commands).handle)
    /\ commands' = Tail(commands) /\ Polls
    /\ UNCHANGED <<phase, after, failures, modelCalls>>

PhaseAfter(op) ==
    CASE op = "unload" -> "no-model" [] op = "load" -> "ready" [] op = "load that fails" -> "error"

\* load_model and unload: cancel_and_finish_active, then unload_native.
HandleModel(op) ==
    /\ Receives(op)
    /\ commands' = Tail(commands)
    /\ IF request = NoRequest
       THEN phase' = PhaseAfter(op) /\ failures' = NoHandle
            /\ UNCHANGED <<request, worker, after>>
       ELSE request' = Cancelled(request.handle) /\ worker' = "drain" /\ after' = op
            /\ UNCHANGED <<phase, failures>>
    /\ UNCHANGED modelCalls

(***************************************************************************)
(* poll and finish_terminal                                                *)
(***************************************************************************)
Poll ==
    /\ worker \in {"recv", "poll"} /\ (Terminal \/ failures # NoHandle)
    /\ request' = IF failures = NoHandle THEN request ELSE Cancelled(failures)
    /\ failures' = NoHandle
    /\ worker' = IF Terminal THEN "ack" ELSE "recv"
    /\ UNCHANGED <<phase, commands, after, modelCalls>>

Drain ==
    /\ worker = "drain" /\ Terminal
    /\ worker' = "ack"
    /\ UNCHANGED <<phase, request, commands, after, failures, modelCalls>>

\* finish_request without the phase of a cancelled request.
FinishHalf ==
    /\ worker = "acked"
    /\ phase' = IF request.outcome = "cancelled" THEN phase ELSE "ready"
    /\ request' = NoRequest /\ after' = "none" /\ worker' = "recv"
    /\ UNCHANGED <<commands, failures, modelCalls>>
\* finish_request, and what a load or an unload waited for.
Finish ==
    /\ worker = "acked"
    /\ phase' = IF after # "none" THEN PhaseAfter(after)
                ELSE IF request.outcome = "error" THEN "error" ELSE "ready"
    /\ failures' = IF after # "none" THEN NoHandle ELSE failures
    /\ request' = NoRequest /\ after' = "none"
    /\ worker' = "recv"
    /\ UNCHANGED <<commands, modelCalls>>

(***************************************************************************)
(* The native request and the channels the relay reads                     *)
(***************************************************************************)
NativeEnds(outcome) ==
    /\ request # NoRequest /\ ~Terminal
    /\ outcome = "cancelled" => request.cancelled
    /\ request' = [request EXCEPT !.outcome = outcome]
    /\ UNCHANGED <<phase, commands, worker, after, failures, modelCalls>>

\* emit_runtime_event: a sink that fails is reported, unless one is already.
Relayed(ok) == failures' = IF ok \/ failures # NoHandle THEN failures ELSE request.handle

RelayRegular(ok) ==
    /\ request.event = "sent"
    /\ request' = [request EXCEPT !.event = "relayed"]
    /\ Relayed(ok)
    /\ UNCHANGED <<phase, commands, worker, after, modelCalls>>

\* Regular events are drained before the terminal one.
TerminalDue == worker = "ack" /\ request.event = "relayed"

Acknowledge(ok) ==
    /\ worker' = "acked"
    /\ Relayed(ok)
    /\ UNCHANGED <<phase, request, commands, after, modelCalls>>

(***************************************************************************)
(* Properties                                                              *)
(***************************************************************************)
WorkerTypeOK(Handles) ==
    /\ phase \in {"no-model", "ready", "streaming", "error"}
    /\ request \in [handle : Handles \union {NoHandle}, asked : BOOLEAN, cancelled : BOOLEAN,
                    event : {"none", "sent", "relayed"},
                    outcome : {"none", "done", "cancelled", "error"}]
    /\ commands \in Seq([op : {"submit", "cancel", "late cancel", "withdraw"} \union Unloads,
                         handle : Handles \union {NoHandle}])
    /\ Len(commands) <= CommandCapacity
    /\ worker \in {"recv", "poll", "drain", "ack", "acked"}
    /\ after \in Unloads \union {"none"}
    /\ failures \in Handles \union {NoHandle} /\ modelCalls \in 0..MaxModelCalls
===============================================================================
