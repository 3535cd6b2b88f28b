-------------------------- MODULE ConversationStore --------------------------
(***************************************************************************)
(* The tables of conversation_store.rs that the agent loop, the commands   *)
(* of the window and a restart write to.  Every method holds the lock of   *)
(* the connection over one SQLite transaction, so every method is one      *)
(* action; a method that returns an error has changed nothing.             *)
(*                                                                         *)
(* A run stands for its row in agent_runs with the user message and the    *)
(* assistant message inserted with it; a step is found by its run and its  *)
(* step_index (from 1 here), which is what a correlation id leads to.      *)
(* Prompts, contents, titles, reasons and time stamps are left out.        *)
(***************************************************************************)
EXTENDS Naturals, Sequences, FiniteSets

CONSTANTS
    Conversations,   \* ids of conversations
    Runs,            \* ids of runs
    NoConversation,
    Outcomes,        \* the final statuses callers pass
    MaxSteps         \* bound on the steps of a run

VARIABLES
    conversation,   \* the mode of a conversation, "none" before and "gone" after its row
    home,           \* agent_runs.conversation_id
    mode,           \* agent_runs.mode
    status,         \* agent_runs.status, "none" before and "gone" after the row
    total,          \* agent_runs.total_step_count
    progress,       \* agent_runs.progress_step_count
    tools,          \* agent_runs.total_tool_calls
    message,        \* messages.status of the assistant message
    steps           \* agent_steps of a run, by step_index

counters == <<total, progress, tools>>
store == <<conversation, home, mode, status, counters, message, steps>>

(***************************************************************************)
(* Rows and queries                                                        *)
(***************************************************************************)
Modes == {"chat", "react"}
Open == {"prepared", "running"}
Ended == {"complete", "cancelled", "interrupted", "error"}
Gone == {"none", "gone"}

ASSUME StoreAssumption ==
    NoConversation \notin Conversations /\ Outcomes \subseteq Ended /\ MaxSteps \in Nat

Step == [kind : {"model", "tool"}, status : Open \union Ended, bound : BOOLEAN]
ModelStep == [kind |-> "model", status |-> "prepared", bound |-> FALSE]
ToolStep(ok) == [kind |-> "tool", status |-> IF ok THEN "complete" ELSE "error", bound |-> FALSE]

RunsOf(c) == {r \in Runs : home[r] = c /\ status[r] \notin Gone}
ActiveRuns(c) == {r \in RunsOf(c) : status[r] \in Open}
HasStep(r, i) == i \in DOMAIN steps[r]
StepOpen(r, i) == HasStep(r, i) /\ steps[r][i].status \in Open

\* agent_submission: the first submission of a run.
Submittable(r) == status[r] = "prepared" /\ HasStep(r, 1) /\ steps[r][1].status = "prepared"

\* bind_agent_request returns Ok for a step that ended before it came.
BindIgnoredUnlessDone(r, i) == HasStep(r, i) /\ steps[r][i].status \in {"cancelled", "error"}
BindIgnored(r, i) == HasStep(r, i) /\ steps[r][i].status \in {"complete", "cancelled", "error"}
Bindable(r, i) == HasStep(r, i) /\ steps[r][i].status = "prepared"

Init ==
    /\ conversation = [c \in Conversations |-> "none"]
    /\ home = [r \in Runs |-> NoConversation] /\ mode = [r \in Runs |-> "chat"]
    /\ status = [r \in Runs |-> "none"] /\ message = [r \in Runs |-> "none"]
    /\ total = [r \in Runs |-> 0] /\ progress = [r \in Runs |-> 0] /\ tools = [r \in Runs |-> 0]
    /\ steps = [r \in Runs |-> <<>>]

(***************************************************************************)
(* A turn begins                                                           *)
(***************************************************************************)
AttachRun(c, m, r) ==
    /\ status[r] = "none"
    /\ home' = [home EXCEPT ![r] = c] /\ mode' = [mode EXCEPT ![r] = m]
    /\ status' = [status EXCEPT ![r] = "prepared"]
    /\ message' = [message EXCEPT ![r] = "streaming"]
    /\ steps' = [steps EXCEPT ![r] = <<ModelStep>>]
    /\ UNCHANGED counters

StartNewTurn(c, m, r) ==
    /\ conversation[c] = "none"
    /\ conversation' = [conversation EXCEPT ![c] = m]
    /\ AttachRun(c, m, r)

StartTurn(c, r) ==
    /\ conversation[c] \in Modes
    /\ AttachRun(c, conversation[c], r)
    /\ UNCHANGED conversation

(***************************************************************************)
(* Steps of a run                                                          *)
(***************************************************************************)
SetStatus(q, i, s) == [q EXCEPT ![i] = [@ EXCEPT !.status = s]]
Bound(q, i) == [q EXCEPT ![i] = [kind |-> @.kind, status |-> "running", bound |-> TRUE]]
CloseSteps(q, s) ==
    [i \in DOMAIN q |-> [q[i] EXCEPT !.status = IF @ \in Open THEN s ELSE @]]

Bind(r, i) ==
    /\ steps' = [steps EXCEPT ![r] = Bound(@, i)]
    /\ status' = [status EXCEPT ![r] = IF @ \in Open THEN "running" ELSE @]
    /\ total' = [total EXCEPT ![r] = IF status[r] \in Open THEN @ + 1 ELSE @]
    /\ progress' = [progress EXCEPT ![r] = IF status[r] \in Open THEN @ + 1 ELSE @]
    /\ UNCHANGED <<conversation, home, mode, tools, message>>

\* A late answer opens a step that has ended.
BindAnyStep(r, i) == HasStep(r, i) /\ Bind(r, i)
BindRequest(r, i) == Bindable(r, i) /\ Bind(r, i)

EndMessage(r, s) == message' = [message EXCEPT ![r] = IF @ = "streaming" THEN s ELSE @]

FinishStep(r, i, s) ==
    /\ StepOpen(r, i)
    /\ EndMessage(r, s)
    /\ steps' = [steps EXCEPT ![r] = SetStatus(@, i, s)]
    /\ status' = [status EXCEPT ![r] = s]
    /\ UNCHANGED <<conversation, home, mode, counters>>

FinishFinalDecision(r, i) ==
    /\ status[r] \in Open /\ StepOpen(r, i)
    /\ EndMessage(r, "complete")
    /\ steps' = [steps EXCEPT ![r] = SetStatus(@, i, "complete")]
    /\ status' = [status EXCEPT ![r] = "complete"]
    /\ UNCHANGED <<conversation, home, mode, counters>>

CompleteModelStep(r, i) ==
    /\ status[r] = "running" /\ StepOpen(r, i)
    /\ steps' = [steps EXCEPT ![r] = SetStatus(@, i, "complete")]
    /\ UNCHANGED <<conversation, home, mode, status, counters, message>>

PrepareModelStep(r) ==
    /\ status[r] = "running"
    /\ steps' = [steps EXCEPT ![r] = Append(@, ModelStep)]
    /\ UNCHANGED <<conversation, home, mode, status, counters, message>>

RecordToolStep(r, ok, novel) ==
    /\ status[r] = "running"
    /\ steps' = [steps EXCEPT ![r] = Append(@, ToolStep(ok))]
    /\ tools' = [tools EXCEPT ![r] = @ + 1]
    /\ progress' = [progress EXCEPT ![r] = IF novel THEN 0 ELSE @]
    /\ UNCHANGED <<conversation, home, mode, status, total, message>>

(***************************************************************************)
(* The end of a run, a message, a conversation or the process              *)
(***************************************************************************)
\* Only the run's own row is closed.
FinishRunOnly(r, s) ==
    /\ status[r] \in Open
    /\ EndMessage(r, s)
    /\ status' = [status EXCEPT ![r] = s]
    /\ UNCHANGED <<conversation, home, mode, counters, steps>>
FinishRun(r, s) ==
    /\ status[r] \in Open
    /\ EndMessage(r, s)
    /\ steps' = [steps EXCEPT ![r] = CloseSteps(@, s)]
    /\ status' = [status EXCEPT ![r] = s]
    /\ UNCHANGED <<conversation, home, mode, counters>>

FinishTurn(r, s) ==
    /\ message[r] = "streaming"
    /\ message' = [message EXCEPT ![r] = s]
    /\ UNCHANGED <<conversation, home, mode, status, counters, steps>>

SetMode(c, m) ==
    /\ conversation[c] \in Modes \ {m}
    /\ ActiveRuns(c) = {}
    /\ conversation' = [conversation EXCEPT ![c] = m]
    /\ UNCHANGED <<home, mode, status, counters, message, steps>>

\* Deleting the messages of a conversation deletes its runs and their steps.
Cascade(c) ==
    /\ status' = [r \in Runs |-> IF r \in RunsOf(c) THEN "gone" ELSE status[r]]
    /\ message' = [r \in Runs |-> IF r \in RunsOf(c) THEN "gone" ELSE message[r]]
    /\ steps' = [r \in Runs |-> IF r \in RunsOf(c) THEN <<>> ELSE steps[r]]
    /\ total' = [r \in Runs |-> IF r \in RunsOf(c) THEN 0 ELSE total[r]]
    /\ progress' = [r \in Runs |-> IF r \in RunsOf(c) THEN 0 ELSE progress[r]]
    /\ tools' = [r \in Runs |-> IF r \in RunsOf(c) THEN 0 ELSE tools[r]]
    /\ UNCHANGED <<home, mode>>

Clear(c) ==
    /\ conversation[c] \in Modes
    /\ Cascade(c)
    /\ UNCHANGED conversation

Delete(c) ==
    /\ conversation[c] \in Modes
    /\ Cascade(c)
    /\ conversation' = [conversation EXCEPT ![c] = "gone"]

Interrupt(s) == IF s \in Open THEN "interrupted" ELSE s

Bootstrap ==
    /\ message' = [r \in Runs |-> IF message[r] = "streaming" THEN "interrupted" ELSE message[r]]
    /\ steps' = [r \in Runs |-> CloseSteps(steps[r], "interrupted")]
    /\ status' = [r \in Runs |-> Interrupt(status[r])]
    /\ UNCHANGED <<conversation, home, mode, counters>>

(***************************************************************************)
(* Callers in any order, but for what the agent loop keeps to: it appends  *)
(* to a run only after the run's last step has ended.                      *)
(***************************************************************************)
Settled(r) == \A i \in DOMAIN steps[r] : steps[r][i].status \in Ended
Room(r) == Len(steps[r]) < MaxSteps

RunStep(r) ==
    \/ \E i \in DOMAIN steps[r] :
        \/ BindRequest(r, i)
        \/ \E s \in Outcomes : FinishStep(r, i, s)
        \/ FinishFinalDecision(r, i)
        \/ CompleteModelStep(r, i)
    \/ Settled(r) /\ Room(r) /\ PrepareModelStep(r)
    \/ \E ok, novel \in BOOLEAN :
        Settled(r) /\ Room(r) /\ (novel => ok) /\ RecordToolStep(r, ok, novel)
    \/ \E s \in Outcomes : FinishRun(r, s) \/ FinishTurn(r, s)

ConversationStep(c) ==
    \/ \E m \in Modes, r \in Runs : StartNewTurn(c, m, r)
    \/ \E r \in Runs : StartTurn(c, r)
    \/ \E m \in Modes : SetMode(c, m)
    \/ Clear(c) \/ Delete(c)

Next ==
    \/ \E r \in Runs : RunStep(r)
    \/ \E c \in Conversations : ConversationStep(c)
    \/ Bootstrap

Spec == Init /\ [][Next]_store

(***************************************************************************)
(* Properties                                                              *)
(***************************************************************************)
StoreTypeOK ==
    /\ conversation \in [Conversations -> Modes \union Gone]
    /\ home \in [Runs -> Conversations \union {NoConversation}]
    /\ mode \in [Runs -> Modes]
    /\ status \in [Runs -> Open \union Ended \union Gone]
    /\ message \in [Runs -> {"streaming"} \union Ended \union Gone]
    /\ total \in [Runs -> Nat] /\ progress \in [Runs -> Nat] /\ tools \in [Runs -> Nat]
    /\ steps \in [Runs -> Seq(Step)]

\* A run that has ended has no open step and no streaming message: the three
\* tables are closed together on every path that ends a run, so that a restart
\* finds nothing half ended.
EndedHasNothingOpen ==
    \A r \in Runs : status[r] \in Ended =>
        /\ message[r] \in Ended
        /\ \A i \in DOMAIN steps[r] : steps[r][i].status \in Ended

\* At most one step of a run is open, and it is the last one: a late answer to a
\* submission or a late terminal event never opens an earlier step again.
OnlyLastStepOpen ==
    \A r \in Runs : \A i \in DOMAIN steps[r] :
        i < Len(steps[r]) => steps[r][i].status \in Ended

\* A run nobody has bound a request to is as it was inserted, whatever clear,
\* mode changes, finished messages or early terminal events happen meanwhile.
PreparedIsFresh ==
    \A r \in Runs : status[r] = "prepared" =>
        /\ steps[r] = <<ModelStep>>
        /\ total[r] = 0 /\ progress[r] = 0 /\ tools[r] = 0

\* The counters kept in the run's row agree with the rows of its steps: one for
\* each model step a request was bound to, one for each tool step.
CountersAgree ==
    \A r \in Runs :
        /\ total[r] = Cardinality({i \in DOMAIN steps[r] : steps[r][i].bound})
        /\ tools[r] = Cardinality({i \in DOMAIN steps[r] : steps[r][i].kind = "tool"})
        /\ progress[r] <= total[r]

\* A conversation does not change its mode under a run that is active.
ActiveModeKept ==
    \A r \in Runs : status[r] \in Open => conversation[home[r]] = mode[r]

\* The rows of runs, steps, messages and conversations, each written by another
\* transaction, agree whatever was deleted, late or interrupted.
RowsAgree == EndedHasNothingOpen /\ OnlyLastStepOpen /\ PreparedIsFresh /\ CountersAgree /\ ActiveModeKept

\* What has ended stays as it ended: the status of a run, of a step and of a
\* message is written once, by whichever of the stream, the user, a failure or a
\* restart comes first; only deleting the conversation removes it.
EndedOnce ==
    \A r \in Runs : status'[r] \notin Gone =>
        /\ status[r] \in Ended => status'[r] = status[r]
        /\ message[r] \in Ended => message'[r] = message[r]
        /\ \A i \in DOMAIN steps[r] :
            /\ i \in DOMAIN steps'[r] /\ steps'[r][i].kind = steps[r][i].kind
            /\ steps[r][i].status \in Ended => steps'[r][i] = steps[r][i]
EndedIsFinal == [][EndedOnce]_store
===============================================================================
