--------------------------- MODULE ConversationApp ---------------------------
(***************************************************************************)
(* The window of useConversationWorkspace.ts on top of the agent loop, and *)
(* restarts of the application.  The window holds one active turn; it acts *)
(* on a terminal event, on an llm_submit that fails and on what the user   *)
(* presses, each some time after it happened.                              *)
(***************************************************************************)
EXTENDS AgentLoop

CONSTANTS
    MaxStops, MaxRestarts,   \* bounds on the user's stops and on restarts
    MaxUpsets                \* and on these, failures, loads and unloads together

VARIABLES
    turn,       \* ConversationState.activeTurn, the run of it
    waiting,    \* cancelWhenAccepted, and the cancellation it led to
    missed,     \* the running runs llm_cancel did not find when it was asked to
    stops, restarts

window == <<turn, waiting, missed, stops, restarts>>
vars == <<store, agent, worker_vars, window>>

NoTurn == "none"

ASSUME AppAssumption ==
    /\ NoTurn \notin Runs
    /\ MaxModelCalls \in Nat /\ CommandCapacity \in Nat
    /\ MaxStops \in Nat /\ MaxRestarts \in Nat

AppInit ==
    /\ Init /\ WorkerInit /\ AgentInit
    /\ turn = NoTurn /\ waiting = "no" /\ missed = {} /\ stops = 0 /\ restarts = 0

\* The ids of runs are fresh.
StartsTurn(c, m, r) ==
    /\ turn = NoTurn /\ status[r] = "none"
    /\ r = CHOOSE n \in Runs : status[n] = "none"
    /\ StartNewTurn(c, m, r) \/ StartTurn(c, r)
    /\ turn' = r
    /\ Goes(r, 1, "begin")
    /\ UNCHANGED <<active, relay, told, returned, faults, waiting, missed, stops, restarts>>
    /\ UNCHANGED worker_vars

\* finish_turn, which leaves a message alone that has ended.
EndTurn(r, s) ==
    /\ turn' = NoTurn /\ waiting' = "no"
    /\ FinishTurn(r, s) \/ (message[r] # "streaming" /\ UNCHANGED store)

HearsEnd(r) ==
    /\ turn = r /\ told[r] # <<>>
    /\ EndTurn(r, StatusOf(Head(told[r])))
    /\ UNCHANGED <<agent, missed, stops, restarts>> /\ UNCHANGED worker_vars

\* The submission failed, or the cancellation that waited for it did.
HearsFailure(r) ==
    /\ turn = r /\ (returned[r] = "error" \/ waiting = "refused")
    /\ EndTurn(r, "error")
    /\ UNCHANGED <<agent, missed, stops, restarts>> /\ UNCHANGED worker_vars

(***************************************************************************)
(* Stopping a turn                                                         *)
(***************************************************************************)
Presses(r) == turn = r /\ stops < MaxStops /\ stops' = stops + 1

NotFound(r) ==
    /\ ~Findable(r)
    /\ missed' = IF status[r] = "running" THEN missed \union {r} ELSE missed
    /\ UNCHANGED agent /\ Untouched

\* The window has heard of the request.
Stop(r) ==
    /\ Presses(r) /\ (returned[r] = "ok" \/ active[r].public)
    /\ (Cancel(r, "cancel") /\ UNCHANGED missed) \/ NotFound(r)
    /\ UNCHANGED <<turn, waiting, restarts>>

\* The window has not: it asks for the cancellation once llm_submit returns.
StopPending(r) ==
    /\ Presses(r) /\ returned[r] = "none"
    /\ waiting' = "pressed"
    /\ UNCHANGED <<agent, turn, missed, restarts>> /\ Untouched

StopAccepted(r) ==
    /\ turn = r /\ waiting = "pressed" /\ returned[r] = "ok"
    /\ \/ Cancel(r, "late cancel") /\ waiting' = "asked" /\ UNCHANGED missed
       \/ NotFound(r) /\ waiting' = "refused"
    /\ UNCHANGED <<turn, stops, restarts>>

\* The worker refuses to cancel a request it no longer has.
AnswerCancel(op) ==
    /\ HandleCancel(op)
    /\ LET h == Head(commands).handle IN
        waiting' = IF op = "late cancel" /\ waiting = "asked" /\ turn = h[1]
                   THEN IF request.handle = h THEN "no" ELSE "refused" ELSE waiting
    /\ UNCHANGED <<agent, turn, missed, stops, restarts>> /\ UNCHANGED store

(***************************************************************************)
(* The rest of the window, and a restart                                   *)
(***************************************************************************)
\* Clearing or deleting a conversation stops its turn first and waits for it.
InTurn(c) == turn # NoTurn /\ home[turn] = c

Manages(c) ==
    /\ \/ turn = NoTurn /\ \E m \in Modes : SetMode(c, m)
       \/ ~InTurn(c) /\ (Clear(c) \/ Delete(c))
    /\ UNCHANGED <<agent, window>> /\ UNCHANGED worker_vars

Loads(op) == CallModel(op) /\ UNCHANGED <<agent, window>> /\ UNCHANGED store

Restart ==
    /\ restarts < MaxRestarts /\ restarts' = restarts + 1
    /\ Bootstrap
    /\ phase' = "no-model" /\ request' = NoRequest /\ commands' = <<>>
    /\ worker' = "recv" /\ after' = "none" /\ failures' = NoHandle
    /\ active' = [r \in Runs |-> NoEntry]
    /\ thread' = [r \in Runs |-> [i \in Indices |-> "none"]]
    /\ Idle
    /\ told' = [r \in Runs |-> <<>>] /\ returned' = [r \in Runs |-> "none"]
    /\ turn' = NoTurn /\ waiting' = "no" /\ missed' = {}
    /\ UNCHANGED <<modelCalls, faults, stops>>

(***************************************************************************)
(* The specification                                                       *)
(***************************************************************************)
Threads == \E r \in Runs : Begin(r) \/ \E i \in Indices : ThreadStep(r, i)
Hears == \E r \in Runs : HearsEnd(r) \/ HearsFailure(r) \/ StopAccepted(r)
Answers == \E op \in {"cancel", "late cancel"} : AnswerCancel(op)
User ==
    \/ \E r \in Runs : Stop(r) \/ StopPending(r)
                       \/ \E c \in Conversations, m \in Modes : StartsTurn(c, m, r)
    \/ \E c \in Conversations : Manages(c)
    \/ \E op \in Unloads : Loads(op)

AppNext ==
    /\ \/ (Threads \/ WorkerStep \/ NativeStep \/ RelayStep) /\ UNCHANGED window
       \/ Answers
       \/ Hears \/ User \/ Restart
    /\ stops' + restarts' + faults' + modelCalls' <= MaxUpsets

AppSpec == AppInit /\ [][AppNext]_vars

\* Every thread and the native request go on; the user need not do anything.
Inside(A) == A /\ UNCHANGED window
Fairness ==
    /\ \A r \in Runs : WF_vars(Inside(Begin(r)))
    /\ \A r \in Runs, i \in Indices : WF_vars(Inside(ThreadStep(r, i)))
    /\ WF_vars(Inside(WorkerStep) \/ Answers) /\ WF_vars(Inside(NativeStep)) /\ WF_vars(Inside(RelayStep))
    /\ WF_vars(Hears)

FairAppSpec == AppSpec /\ Fairness

(***************************************************************************)
(* Properties                                                              *)
(***************************************************************************)
Entries == [step : 0..MaxSteps, total : 0..MaxTotal, progress : 0..MaxProgress,
            calls : 0..MaxTools, repeats : [Actions -> 0..MaxRepeats],
            seen : SUBSET (Actions \X Results), repaired : BOOLEAN, public : BOOLEAN,
            current : BOOLEAN, cancel : BOOLEAN]

AppTypeOK ==
    /\ WorkerTypeOK(Handles)
    /\ active \in [Runs -> Entries]
    /\ thread \in [Runs -> [Indices ->
           {"none", "begin", "ask", "asked", "accepted", "refused", "bound", "unbound",
            "unbinding", "withdrawn", "stopping", "stopped", "abandon", "done"}]]
    /\ relay \in [pc : {"idle", "end", "final", "call", "repair", "tool", "follow", "start",
                         "fail", "tell"},
                   run : Handles \union {NoHandle}, entry : Entries,
                   kind : {"none", "done", "cancelled", "error"}]
    /\ told \in [Runs -> Seq({"done", "cancelled", "error"})]
    /\ returned \in [Runs -> {"none", "ok", "error"}] /\ faults \in 0..MaxFaults
    /\ turn \in Runs \union {NoTurn} /\ waiting \in {"no", "pressed", "asked", "refused"} /\ missed \subseteq Runs
    /\ stops \in 0..MaxStops /\ restarts \in 0..MaxRestarts

\* Whatever the threads, the relay, the window and restarts do to the tables is
\* one of the store's own steps, taken where its callers are allowed to take it:
\* no step is appended to a run whose last step is still open.
StoreKept == Init /\ [][Next]_store

\* A run has one outcome: the window is sent one terminal event, or llm_submit
\* fails, and never two of them, whichever thread gives the run up; and what the
\* window is sent is what the tables held before.  Only a thread that finds the
\* rows deleted may report that as well.
OneOutcome ==
    \A r \in Runs : status[r] # "gone" =>
        /\ Len(told[r]) + (IF returned[r] = "error" THEN 1 ELSE 0) <= 1
        /\ told[r] # <<>> => status[r] = StatusOf(Head(told[r]))

\* The event that ends a turn carries the handle the window knows it by.
EndIsRecognised == relay.pc \in {"tell", "fail"} => relay.entry.public

\* A stop that llm_cancel has taken reaches the run's later requests as well: the
\* worker has been asked to cancel, or is about to be, once the thread that
\* submitted the request is through.
StopReachesRequest ==
    \A r \in Runs : \A i \in Indices :
        active[r].cancel /\ IsActive(r, i) /\ thread[r][i] = "done" /\ request.handle = <<r, i>> =>
            \/ request.asked
            \/ \E k \in DOMAIN commands :
                commands[k].handle = <<r, i>> /\ commands[k].op \in {"cancel", "late cancel", "withdraw"}

\* The limits of the run loop, counted in memory from run to run, hold for the
\* rows that are written: the model steps bound, the tool steps, and the model
\* steps since a tool returned something new.
LimitsKept ==
    \A r \in Runs :
        /\ total[r] <= Limits(r).total /\ tools[r] <= MaxTools
        /\ progress[r] <= Limits(r).progress
        /\ Cardinality({i \in DOMAIN steps[r] : steps[r][i].kind = "model"}) <= Limits(r).total

\* The worker does not refuse a submission of the active turn for being busy: it
\* is done with a run before the window hears of its end, and with a step before
\* the follow-up is submitted.  Only a run the window has given up is in the way:
\* one it has not heard the end of, or one that was deleted with its conversation.
BusyOnlyWhenGivenUp ==
    Receives("submit") /\ Head(commands).handle[1] = turn /\ phase = "streaming" =>
        /\ request # NoRequest /\ request.handle[1] # turn
        /\ status[request.handle[1]] # "gone" => told[request.handle[1]] = <<>>

\* Every run comes to an end, whatever fails between its steps; the relay does
\* not wait for the worker, which waits for the relay.
RunsEnd == \A r \in Runs : (status[r] \in Open) ~> (status[r] \notin Open)

\* So does every turn of the window, for it hears of every end.
TurnsEnd == \A r \in Runs : (turn = r) ~> (turn # r)

(***************************************************************************)
(* What the design says and the code does not do                           *)
(***************************************************************************)
\* The design: "Only the final user-visible answer finalizes the run's assistant
\* message", so no message ends before its run does.
OnlyRunEndsMessage == \A r \in Runs : status[r] \in Open => message[r] = "streaming"

\* The design: neither a model step nor a tool operation blocks a cancellation.
\* A run is not given another model step after a stop that came while it ran.
StopIsTaken == [][\A r \in missed : ~PrepareModelStep(r)]_vars
================================================================================
