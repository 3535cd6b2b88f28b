------------------------------ MODULE AgentLoop ------------------------------
(***************************************************************************)
(* The agent controller of agent_loop.rs between the conversation store    *)
(* and the inference worker.  A run alternates between model steps, each   *)
(* a request of its own, and tools.  Three kinds of threads act on it: the *)
(* thread of the llm_submit command, a thread for each follow-up request,  *)
(* and the relay, which handles terminal events while the worker waits.    *)
(*                                                                         *)
(* A handle is written <<run, step index>>: it stands for the native       *)
(* handle, the step's id and its correlation id.  Tokens, messages and     *)
(* activities are left out, but for the activities whose failure counts.   *)
(***************************************************************************)
EXTENDS ConversationStore, LlmWorker

CONSTANTS
    MaxTotal, MaxProgress, MaxTools, MaxRepeats,   \* AgentRunLoop::for_mode(React)
    Actions, Results,   \* digests of tool calls and of what they return
    Faults,             \* sinks that may fail: "queued", "tool", "thinking"
    MaxFaults           \* bound on the failures

\* The limits leave room for a first step, and the bound on the steps of a run is
\* not one of them.
ASSUME AgentAssumption ==
    /\ MaxTotal \in Nat \ {0} /\ MaxProgress \in Nat \ {0} /\ MaxTools \in Nat /\ MaxRepeats \in Nat
    /\ MaxTotal + MaxTools <= MaxSteps
    /\ {"complete", "cancelled", "error"} \subseteq Outcomes
    /\ MaxFaults \in Nat

VARIABLES
    active,     \* AgentControllerInner.active, by run
    thread,     \* where the thread that submits a step is
    relay,      \* where the relay thread is, with the run it took out of active
    told,       \* the terminal events the window was sent, by run
    returned,   \* what llm_submit returned
    faults      \* failures so far

agent == <<active, thread, relay, told, returned, faults>>

Indices == 1..MaxSteps
Handles == Runs \X Indices
Untouched == UNCHANGED store /\ UNCHANGED worker_vars

(***************************************************************************)
(* Entries of active                                                       *)
(***************************************************************************)
NoEntry == [step |-> 0, total |-> 0, progress |-> 0, calls |-> 0,
            repeats |-> [a \in Actions |-> 0], seen |-> {}, repaired |-> FALSE,
            public |-> FALSE, current |-> FALSE, cancel |-> FALSE]
\* The entry of a run whose first model step passed before_model.
NewEntry == [NoEntry EXCEPT !.step = 1, !.total = 1, !.progress = 1]
IsActive(r, i) == active[r].step = i
Removed(r, i) == IF IsActive(r, i) THEN [active EXCEPT ![r] = NoEntry] ELSE active
Limits(r) == IF mode[r] = "chat" THEN [total |-> 1, progress |-> 1]
             ELSE [total |-> MaxTotal, progress |-> MaxProgress]

Unoccupied == [pc |-> "idle", run |-> NoHandle, entry |-> NoEntry, kind |-> "none"]

AgentInit ==
    /\ active = [r \in Runs |-> NoEntry]
    /\ thread = [r \in Runs |-> [i \in Indices |-> "none"]]
    /\ relay = Unoccupied
    /\ told = [r \in Runs |-> <<>>] /\ returned = [r \in Runs |-> "none"] /\ faults = 0

Goes(r, i, pc) == thread' = [thread EXCEPT ![r][i] = pc]
Returns(r, result) == returned' = [returned EXCEPT ![r] = result]
Tell(r, kind) == told' = [told EXCEPT ![r] = Append(@, kind)]
Fault(f) == f \in Faults /\ faults < MaxFaults /\ faults' = faults + 1

(***************************************************************************)
(* Ending a step or a run, whatever it has come to meanwhile               *)
(***************************************************************************)
EndStep(r, i, s) == FinishStep(r, i, s) \/ (~StepOpen(r, i) /\ UNCHANGED store)
EndRun(r, s) == FinishRun(r, s) \/ (status[r] \notin Open /\ UNCHANGED store)

(***************************************************************************)
(* submit, and the thread of a follow-up                                   *)
(***************************************************************************)
\* The entry comes before the request, for events may come before its answer.
Begin(r) ==
    /\ thread[r][1] = "begin"
    /\ IF Submittable(r) /\ ~IsActive(r, 1)
       THEN /\ active' = [active EXCEPT ![r] = NewEntry]
            /\ \/ Goes(r, 1, "ask") /\ UNCHANGED <<returned, faults>>
               \/ mode[r] = "react" /\ Fault("thinking")
                  /\ Goes(r, 1, "done") /\ Returns(r, "error")
       ELSE Goes(r, 1, "done") /\ Returns(r, "error") /\ UNCHANGED <<active, faults>>
    /\ UNCHANGED <<relay, told>> /\ Untouched

Ask(r, i) ==
    /\ thread[r][i] = "ask"
    /\ Send("submit", <<r, i>>)
    /\ Goes(r, i, "asked")
    /\ UNCHANGED <<active, relay, told, returned, faults>> /\ UNCHANGED store

\* fail_follow_up looks for the entry it has just removed.
ReportLate(r, i) ==
    /\ IF i = 1 THEN Returns(r, "error") ELSE UNCHANGED returned
    /\ UNCHANGED told
\* submit returns the error; fail_follow_up sends it, if the entry was there.
Report(r, i) ==
    IF i = 1 THEN Returns(r, "error") /\ UNCHANGED told
    ELSE /\ IF IsActive(r, i) THEN Tell(r, "error") ELSE UNCHANGED told
         /\ UNCHANGED returned

Refused(r, i) ==
    /\ thread[r][i] = "refused"
    /\ active' = Removed(r, i)
    /\ EndStep(r, i, "error")
    /\ Report(r, i)
    /\ Goes(r, i, "done")
    /\ UNCHANGED <<relay, faults>> /\ UNCHANGED worker_vars

BindAnswer(r, i) ==
    /\ thread[r][i] = "accepted"
    /\ \/ BindRequest(r, i) /\ Goes(r, i, "bound")
       \/ BindIgnored(r, i) /\ UNCHANGED store /\ Goes(r, i, "bound")
       \/ /\ ~Bindable(r, i) /\ ~BindIgnored(r, i) /\ UNCHANGED store
          /\ Goes(r, i, IF i = 1 THEN "unbinding" ELSE "unbound")
    /\ UNCHANGED <<active, relay, told, returned, faults>> /\ UNCHANGED worker_vars

\* A follow-up that does not ask.
NoteOnly(r, i) ==
    /\ thread[r][i] \in {"bound", "unbound"}
    /\ active' = IF IsActive(r, i)
                 THEN [active EXCEPT ![r].current = TRUE, ![r].public = @ \/ i = 1] ELSE active
    /\ Goes(r, i, IF thread[r][i] = "unbound" THEN "unbinding" ELSE "done")
    /\ IF i = 1 THEN Returns(r, "ok") ELSE UNCHANGED returned
    /\ UNCHANGED <<relay, told, faults>> /\ Untouched
\* The handle is noted in the entry; a follow-up asks if the run was cancelled.
Note(r, i) ==
    /\ thread[r][i] \in {"bound", "unbound"}
    /\ active' = IF IsActive(r, i)
                 THEN [active EXCEPT ![r].current = TRUE, ![r].public = @ \/ i = 1] ELSE active
    /\ Goes(r, i, IF thread[r][i] = "unbound" THEN "unbinding"
                  ELSE IF i # 1 /\ IsActive(r, i) /\ active[r].cancel THEN "stopping" ELSE "done")
    /\ IF i = 1 THEN Returns(r, "ok") ELSE UNCHANGED returned
    /\ UNCHANGED <<relay, told, faults>> /\ Untouched

Withdraw(r, i) ==
    /\ thread[r][i] \in {"stopping", "unbinding"}
    /\ Send("withdraw", <<r, i>>)
    /\ Goes(r, i, IF thread[r][i] = "stopping" THEN "stopped" ELSE "withdrawn")
    /\ UNCHANGED <<active, relay, told, returned, faults>> /\ UNCHANGED store

Abandon(r, i) ==
    /\ thread[r][i] = "abandon"
    /\ active' = Removed(r, i)
    /\ IF i = 1 THEN EndRun(r, "error") ELSE EndStep(r, i, "error")
    /\ Report(r, i)
    /\ Goes(r, i, "done")
    /\ UNCHANGED <<relay, faults>> /\ UNCHANGED worker_vars

ThreadStep(r, i) ==
    Ask(r, i) \/ Refused(r, i) \/ BindAnswer(r, i) \/ Note(r, i) \/ Withdraw(r, i) \/ Abandon(r, i)

(***************************************************************************)
(* The worker answers                                                      *)
(***************************************************************************)
AnswerSubmit(valid) ==
    /\ HandleSubmit(valid)
    /\ LET h == Head(commands).handle IN
        Goes(h[1], h[2], IF Accepts(valid) THEN "accepted" ELSE "refused")
    /\ UNCHANGED <<active, relay, told, returned, faults>> /\ UNCHANGED store

AnswerWithdraw ==
    /\ HandleCancel("withdraw")
    /\ LET h == Head(commands).handle IN
        Goes(h[1], h[2], IF thread[h[1]][h[2]] = "stopped" THEN "done" ELSE "abandon")
    /\ UNCHANGED <<active, relay, told, returned, faults>> /\ UNCHANGED store

WorkerStep ==
    \/ \E valid \in BOOLEAN : AnswerSubmit(valid)
    \/ AnswerWithdraw
    \/ /\ (\E op \in Unloads : HandleModel(op)) \/ Poll \/ Drain \/ Finish
       /\ UNCHANGED agent /\ UNCHANGED store

NativeStep ==
    /\ \E outcome \in {"done", "cancelled", "error"} : NativeEnds(outcome)
    /\ UNCHANGED agent /\ UNCHANGED store

(***************************************************************************)
(* route_event on the relay thread                                         *)
(***************************************************************************)
Current == request.handle

\* The public handle is left to the answer of the submission.
RouteQueuedQuietly ==
    /\ relay.pc = "idle" /\ request.event = "sent"
    /\ LET r == Current[1] IN
        active' = IF IsActive(r, Current[2]) THEN [active EXCEPT ![r].current = TRUE] ELSE active
    /\ RelayRegular(TRUE)
    /\ UNCHANGED <<thread, relay, told, returned, faults>> /\ UNCHANGED store
RouteQueued ==
    /\ relay.pc = "idle" /\ request.event = "sent"
    /\ LET r == Current[1]
           known == IsActive(r, Current[2])
       IN  /\ active' = IF known THEN [active EXCEPT ![r].public = TRUE, ![r].current = TRUE]
                        ELSE active
           /\ \/ RelayRegular(TRUE) /\ UNCHANGED faults
              \/ known /\ (mode[r] = "react" => ~active[r].public)
                 /\ RelayRegular(FALSE) /\ Fault("queued")
    /\ UNCHANGED <<thread, relay, told, returned>> /\ UNCHANGED store

At(pc, entry, kind) ==
    relay' = [pc |-> pc, run |-> relay.run, entry |-> entry, kind |-> kind]
Stay == UNCHANGED <<active, thread, told, returned>>

\* A terminal event takes the run out of active; a model's answer is final, a
\* call of a tool or neither, which it may repair once.
RouteTerminal ==
    /\ relay.pc = "idle" /\ TerminalDue
    /\ LET r == Current[1]
           run == active[r]
           At1(pc, entry, kind) ==
               relay' = [pc |-> pc, run |-> Current, entry |-> entry, kind |-> kind]
       IN  IF ~IsActive(r, Current[2]) THEN Acknowledge(TRUE) /\ UNCHANGED <<active, relay>>
           ELSE /\ active' = [active EXCEPT ![r] = NoEntry]
                /\ \/ /\ mode[r] = "chat" \/ request.outcome # "done"
                      /\ At1("end", run, request.outcome)
                   \/ /\ mode[r] = "react" /\ request.outcome = "done"
                      /\ \/ At1("final", run, "done")
                         \/ At1("call", run, "none")
                         \/ IF run.repaired THEN At1("end", run, "error")
                            ELSE At1("repair", [run EXCEPT !.repaired = TRUE], "none")
                /\ UNCHANGED worker_vars
    /\ UNCHANGED <<thread, told, returned, faults>> /\ UNCHANGED store

StatusOf(kind) == IF kind = "done" THEN "complete" ELSE kind

\* A terminal event goes out after the store; if the rows are gone, as an error.
TellIf(stored) == At("tell", relay.entry, IF stored THEN relay.kind ELSE "error")

RelayEnd(r, i) ==
    /\ relay.pc = "end"
    /\ EndStep(r, i, StatusOf(relay.kind)) /\ TellIf(HasStep(r, i))
    /\ Stay /\ UNCHANGED faults

RelayFinal(r, i) ==
    /\ relay.pc = "final"
    /\ FinishFinalDecision(r, i)
        \/ (~(status[r] \in Open /\ StepOpen(r, i)) /\ UNCHANGED store)
    /\ TellIf(HasStep(r, i))
    /\ Stay /\ UNCHANGED faults

FailBetween == At("fail", relay.entry, "error")

\* The follow-up is scheduled without the step being completed.
RelayCompleteLater(r, i) ==
    /\ relay.pc \in {"call", "repair"}
    /\ IF status[r] = "running" /\ StepOpen(r, i)
       THEN At(IF relay.pc = "call" THEN "tool" ELSE "follow", relay.entry, "none")
       ELSE FailBetween
    /\ Stay /\ UNCHANGED <<store, faults>>
RelayComplete(r, i) ==
    /\ relay.pc \in {"call", "repair"}
    /\ IF status[r] = "running" /\ StepOpen(r, i)
       THEN CompleteModelStep(r, i)
            /\ At(IF relay.pc = "call" THEN "tool" ELSE "follow", relay.entry, "none")
       ELSE FailBetween /\ UNCHANGED store
    /\ Stay /\ UNCHANGED faults

\* before_tool, the tool, record_tool_result and record_agent_tool_step; an
\* activity that cannot be sent ends the run.
RelayTool(r, a) ==
    /\ relay.pc = "tool"
    /\ LET called == [relay.entry EXCEPT !.calls = @ + 1, !.repeats[a] = @ + 1]
       IN  \/ /\ relay.entry.calls >= MaxTools \/ called.repeats[a] > MaxRepeats
                    \/ status[r] # "running"
              /\ FailBetween /\ UNCHANGED <<store, faults>>
           \/ FailBetween /\ Fault("tool") /\ UNCHANGED store
           \/ \E ok \in BOOLEAN, x \in Results :
                LET novel == ok /\ <<a, x>> \notin relay.entry.seen IN
                /\ relay.entry.calls < MaxTools /\ called.repeats[a] <= MaxRepeats
                /\ RecordToolStep(r, ok, novel)
                /\ \/ /\ At("follow", IF novel THEN [called EXCEPT !.progress = 0, !.seen = @ \union {<<a, x>>}]
                                      ELSE called, "none")
                      /\ UNCHANGED faults
                   \/ FailBetween /\ Fault("tool")
    /\ Stay

\* before_model off by one.
RelayFollowOnce(r) ==
    /\ relay.pc = "follow"
    /\ LET run == relay.entry IN
       IF run.total < Limits(r).total /\ run.progress <= Limits(r).progress /\ status[r] = "running"
       THEN /\ PrepareModelStep(r)
            /\ At("start", [run EXCEPT !.total = @ + 1, !.progress = @ + 1, !.current = FALSE,
                                       !.step = Len(steps[r]) + 1], "none")
       ELSE FailBetween /\ UNCHANGED store
    /\ Stay /\ UNCHANGED faults
RelayFollow(r) ==
    /\ relay.pc = "follow"
    /\ LET run == relay.entry IN
       IF run.total < Limits(r).total /\ run.progress < Limits(r).progress /\ status[r] = "running"
       THEN /\ PrepareModelStep(r)
            /\ At("start", [run EXCEPT !.total = @ + 1, !.progress = @ + 1, !.current = FALSE,
                                       !.step = Len(steps[r]) + 1], "none")
       ELSE FailBetween /\ UNCHANGED store
    /\ Stay /\ UNCHANGED faults

Idle == relay' = Unoccupied

\* The relay waits for the follow-up's answer.
RelayStartInline(r) ==
    /\ relay.pc = "start"
    /\ LET i == relay.entry.step IN
        \/ /\ thread[r][i] = "none"
           /\ active' = [active EXCEPT ![r] = relay.entry] /\ Goes(r, i, "ask")
           /\ UNCHANGED relay /\ UNCHANGED worker_vars
        \/ /\ thread[r][i] = "done"
           /\ Idle /\ Acknowledge(TRUE) /\ UNCHANGED <<active, thread>>
    /\ UNCHANGED <<told, returned, faults>> /\ UNCHANGED store
\* The follow-up gets a thread of its own: the worker waits for this one.
RelayStart(r) ==
    /\ relay.pc = "start"
    /\ Idle
    /\ \/ /\ active' = [active EXCEPT ![r] = relay.entry]
          /\ Goes(r, relay.entry.step, "ask")
          /\ Acknowledge(TRUE) /\ UNCHANGED faults
       \/ Fault("thinking") /\ Acknowledge(FALSE) /\ UNCHANGED <<active, thread>>
    /\ UNCHANGED <<told, returned>> /\ UNCHANGED store

RelayFail(r) ==
    /\ relay.pc = "fail"
    /\ EndRun(r, "error") /\ At("tell", relay.entry, "error")
    /\ Stay /\ UNCHANGED faults

RelayTell(r) ==
    /\ relay.pc = "tell"
    /\ Tell(r, relay.kind) /\ Idle /\ Acknowledge(TRUE)
    /\ UNCHANGED <<active, thread, returned, faults>> /\ UNCHANGED store

RelayStep ==
    \/ RouteQueued \/ RouteTerminal
    \/ /\ relay.pc # "idle"
       /\ LET r == relay.run[1]
              i == relay.run[2]
          IN  \/ RelayStart(r) \/ RelayTell(r)
              \/ /\ \/ RelayEnd(r, i) \/ RelayFinal(r, i) \/ RelayComplete(r, i)
                    \/ \E a \in Actions : RelayTool(r, a)
                    \/ RelayFollow(r) \/ RelayFail(r)
                 /\ UNCHANGED worker_vars

(***************************************************************************)
(* cancel                                                                  *)
(***************************************************************************)
\* The window knows a run by the handle of its first request.
Findable(r) == active[r].public

Cancel(r, op) ==
    /\ Findable(r)
    /\ active' = [active EXCEPT ![r].cancel = TRUE]
    /\ IF active[r].current THEN Send(op, <<r, active[r].step>>) ELSE UNCHANGED worker_vars
    /\ UNCHANGED <<thread, relay, told, returned, faults>> /\ UNCHANGED store
===============================================================================
